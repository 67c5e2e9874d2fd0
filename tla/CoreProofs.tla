------------------------------ MODULE CoreProofs ------------------------------
(***************************************************************************)
(* Theorems about the pipeline (Core), for every program, every size of    *)
(* the two buffers and of the multiplier, and every delay of the caches;   *)
(* and, from the section on the commit log on, about the main loop, the    *)
(* commit log and the pipeline trace of the simulator around it (Sim).     *)
(* The last section is about the decoder that feeds it (Decoder, Branch).  *)
(***************************************************************************)
EXTENDS Sim, WellFoundedInduction, TLAPS

(* What the stages have in common, read from the outputs of one cycle. *)
Flush  == RB!commit_branch_taken_o
Commit == RB!commit_valid_o
PipeStages == 0 .. MAX_EXE_STAGES - 2
Offered(fetched, ready) == RobDecode(stall(fetched, ready))

LEMMA InstrFacts ==
  ASSUME NEW i \in AnyInstr
  PROVE  /\ i \in Instr
         /\ i.taken => i.jump
         /\ i.jump => ~i.is_mul /\ i.wb_origin # "MEM"
         /\ i.wb_origin = "PC_4" => i.taken
         /\ i.is_mul => i.wb_origin = "ALU"
         /\ i.store_to_mem => i.wb_origin = "ALU" /\ ~i.is_mul /\ ~i.jump
<1>1. CASE i \in Instrs
  <2>1. i \in Decodable
    BY <1>1, InstrsAssumption
  <2> QED
    BY <2>1 DEF Decodable
<1>2. CASE i = NopInstr
  <2>1. 0 \in Regs /\ 0 \in Addr
    BY CoreSizeAssumption, CoreAddrAssumption DEF Regs
  <2> QED
    BY <1>2, <2>1 DEF NopInstr, Instr
<1> QED
  BY <1>1, <1>2 DEF AnyInstr

LEMMA NopIsInstr == NopInstr \in AnyInstr
BY DEF AnyInstr

LEMMA SuccLemma ==
  ASSUME NEW i \in RB!Idx
  PROVE  /\ RB!Succ(i) = IF i = ROB_SIZE - 1 THEN 0 ELSE i + 1
         /\ RB!Succ(i) \in RB!Idx
BY CoreSizeAssumption DEF RB!Succ, RB!Idx

LEMMA SlotSuccLemma ==
  ASSUME NEW i \in SB!Idx
  PROVE  /\ SB!Succ(i) = IF i = STORE_BUFFER_SIZE - 1 THEN 0 ELSE i + 1
         /\ SB!Succ(i) \in SB!Idx
BY CoreSizeAssumption DEF SB!Succ, SB!Idx

----------------------------------------------------------------------------
(* The reorder buffer: one clock edge, entry by entry. *)

LEMMA FreshEntry ==
  ASSUME NEW e \in RB!Entry, NEW dec \in RB!DecodeInput
  PROVE  LET f == RB!Fresh(e, dec)
         IN  /\ f \in RB!Entry
             /\ f.valid /\ ~f.completed /\ f.kanata_id = dec.kanata_id
             /\ f.write_enable = dec.write_enable /\ f.addr_rd = dec.addr_rd
             /\ f.store_to_mem = dec.store_to_mem
BY DEF RB!Fresh, RB!Entry, RB!DecodeInput

LEMMA CompletedEntry ==
  ASSUME NEW e \in RB!Entry, NEW wb \in RB!WbInput
  PROVE  LET f == RB!Complete(e, wb)
         IN  /\ f \in RB!Entry
             /\ f.valid = e.valid /\ f.completed /\ f.kanata_id = e.kanata_id
             /\ f.write_enable = e.write_enable /\ f.addr_rd = e.addr_rd
             /\ f.result = wb.result /\ f.branch_taken = wb.branch_taken
             /\ f.store_to_mem = e.store_to_mem
             /\ f.store_buffer_idx = wb.store_buffer_idx
BY DEF RB!Complete, RB!Entry, RB!WbInput

LEMMA FreedEntry ==
  ASSUME NEW e \in RB!Entry
  PROVE  LET f == RB!Freed(e)
         IN  /\ f \in RB!Entry
             /\ ~f.valid /\ f.completed = e.completed /\ f.kanata_id = e.kanata_id
             /\ f.write_enable = e.write_enable /\ f.addr_rd = e.addr_rd
             /\ f.result = e.result /\ f.branch_taken = e.branch_taken
             /\ f.store_to_mem = e.store_to_mem
             /\ f.store_buffer_idx = e.store_buffer_idx
BY DEF RB!Freed, RB!Entry

(* Two entries that differ in the valid bit only. *)
SameBut(f, e) ==
  /\ f.completed = e.completed /\ f.kanata_id = e.kanata_id
  /\ f.write_enable = e.write_enable /\ f.addr_rd = e.addr_rd
  /\ f.result = e.result /\ f.branch_taken = e.branch_taken
  /\ f.store_to_mem = e.store_to_mem /\ f.store_buffer_idx = e.store_buffer_idx

LEMMA NextEntries ==
  ASSUME TypeOK,
         NEW dec \in RB!DecodeInput, NEW wb \in RB!WbInput,
         dec.valid => ~rob_q[rob_tail_ptr_q].valid
  PROVE  /\ RB!rob_d(dec, wb) \in [RB!Idx -> RB!Entry]
         /\ RB!BeforeFlush(dec, wb) \in [RB!Idx -> RB!Entry]
         /\ \A i \in RB!Idx :
              LET e == rob_q[i]
                  f == RB!rob_d(dec, wb)[i]
                  new  == dec.valid /\ i = rob_tail_ptr_q
                  done == wb.valid /\ e.valid /\ i = wb.rob_idx
              IN  /\ f.valid <=> /\ ~Flush
                                 /\ ~(Commit /\ i = rob_head_ptr_q)
                                 /\ new \/ e.valid
                  /\ new => /\ ~f.completed /\ f.kanata_id = dec.kanata_id
                            /\ f.write_enable = dec.write_enable
                            /\ f.addr_rd = dec.addr_rd
                            /\ f.store_to_mem = dec.store_to_mem
                  /\ done => /\ f.completed /\ f.kanata_id = e.kanata_id
                             /\ f.write_enable = e.write_enable
                             /\ f.addr_rd = e.addr_rd
                             /\ f.store_to_mem = e.store_to_mem
                             /\ f.result = wb.result
                             /\ f.branch_taken = wb.branch_taken
                             /\ f.store_buffer_idx = wb.store_buffer_idx
                  /\ ~new /\ ~done => SameBut(f, e)
                  (* What a flush frees is what discards the slots.      *)
                  /\ SameBut(RB!BeforeFlush(dec, wb)[i], f)
                  /\ RB!BeforeFlush(dec, wb)[i].valid <=>
                       /\ ~(Commit /\ i = rob_head_ptr_q)
                       /\ new \/ e.valid
<1> DEFINE A == RB!Allocate(rob_q, dec)
           W == RB!WriteBack(A, wb)
           B == RB!Retire(W)
           new(i)  == dec.valid /\ i = rob_tail_ptr_q
           done(i) == wb.valid /\ rob_q[i].valid /\ i = wb.rob_idx
<1>0. /\ rob_q \in [RB!Idx -> RB!Entry] /\ rob_tail_ptr_q \in RB!Idx
      /\ rob_head_ptr_q \in RB!Idx /\ wb.rob_idx \in RB!Idx
  BY DEF TypeOK, RB!WbInput
<1>1. /\ A \in [RB!Idx -> RB!Entry]
      /\ \A i \in RB!Idx :
           /\ new(i) => /\ A[i].valid /\ ~A[i].completed
                        /\ A[i].kanata_id = dec.kanata_id
                        /\ A[i].write_enable = dec.write_enable
                        /\ A[i].addr_rd = dec.addr_rd
                        /\ A[i].store_to_mem = dec.store_to_mem
           /\ ~new(i) => A[i] = rob_q[i]
  <2>1. CASE dec.valid
    <3>1. A = [rob_q EXCEPT ![rob_tail_ptr_q] = RB!Fresh(rob_q[rob_tail_ptr_q], dec)]
      BY <2>1 DEF RB!Allocate
    <3> HIDE DEF A
    <3> QED
      BY <1>0, <2>1, <3>1, FreshEntry
  <2>2. CASE ~dec.valid
    BY <1>0, <2>2 DEF RB!Allocate
  <2> QED
    BY <2>1, <2>2
<1> HIDE DEF A
<1>2. /\ W \in [RB!Idx -> RB!Entry]
      /\ \A i \in RB!Idx :
           /\ done(i) => /\ W[i].valid = A[i].valid
                         /\ W[i].completed /\ W[i].kanata_id = A[i].kanata_id
                         /\ W[i].write_enable = A[i].write_enable
                         /\ W[i].addr_rd = A[i].addr_rd
                         /\ W[i].store_to_mem = A[i].store_to_mem
                         /\ W[i].result = wb.result
                         /\ W[i].branch_taken = wb.branch_taken
                         /\ W[i].store_buffer_idx = wb.store_buffer_idx
           /\ ~done(i) => W[i] = A[i]
  <2>1. CASE RB!Accepts(wb)
    <3>1. W = [A EXCEPT ![wb.rob_idx] = RB!Complete(A[wb.rob_idx], wb)]
      BY <2>1 DEF RB!WriteBack
    <3> HIDE DEF W
    <3> QED
      BY <1>0, <1>1, <2>1, <3>1, CompletedEntry DEF RB!Accepts
  <2>2. CASE ~RB!Accepts(wb)
    BY <1>0, <1>1, <2>2 DEF RB!WriteBack, RB!Accepts
  <2> QED
    BY <2>1, <2>2
<1> HIDE DEF W
<1>3. /\ B \in [RB!Idx -> RB!Entry]
      /\ \A i \in RB!Idx :
           /\ B[i].valid <=> W[i].valid /\ ~(Commit /\ i = rob_head_ptr_q)
           /\ SameBut(B[i], W[i])
  <2>1. W \in [RB!Idx -> RB!Entry]
    BY <1>2
  <2>2. CASE Commit
    <3>1. B = [W EXCEPT ![rob_head_ptr_q] = RB!Freed(W[rob_head_ptr_q])]
      BY <2>2 DEF RB!Retire, Commit
    <3> HIDE DEF B
    <3> QED
      BY <1>0, <2>1, <2>2, <3>1, FreedEntry DEF SameBut
  <2>3. CASE ~Commit
    BY <2>1, <2>3 DEF RB!Retire, Commit, SameBut
  <2> QED
    BY <2>2, <2>3
<1>4. B = RB!BeforeFlush(dec, wb)
  BY DEF RB!BeforeFlush, A, W
<1> HIDE DEF B
<1>5. /\ RB!rob_d(dec, wb) \in [RB!Idx -> RB!Entry]
      /\ \A i \in RB!Idx :
           /\ RB!rob_d(dec, wb)[i].valid <=> B[i].valid /\ ~Flush
           /\ SameBut(RB!rob_d(dec, wb)[i], B[i])
  <2>0. B \in [RB!Idx -> RB!Entry]
    BY <1>3
  <2>1. CASE Flush
    <3>1. RB!rob_d(dec, wb) = [i \in RB!Idx |-> RB!Freed(B[i])]
      BY <1>4, <2>1 DEF RB!rob_d, Flush
    <3> QED
      BY <2>0, <2>1, <3>1, FreedEntry DEF SameBut
  <2>2. CASE ~Flush
    BY <1>4, <2>0, <2>2 DEF RB!rob_d, Flush, SameBut
  <2> QED
    BY <2>1, <2>2
<1>6. ASSUME NEW i \in RB!Idx
      PROVE  new(i) => ~done(i)
  BY <1>0
<1> HIDE DEF new, done
<1>7. \A i \in RB!Idx :
        /\ RB!rob_d(dec, wb)[i].valid <=> /\ ~Flush
                                          /\ ~(Commit /\ i = rob_head_ptr_q)
                                          /\ new(i) \/ rob_q[i].valid
        /\ new(i) => /\ ~RB!rob_d(dec, wb)[i].completed
                     /\ RB!rob_d(dec, wb)[i].kanata_id = dec.kanata_id
                     /\ RB!rob_d(dec, wb)[i].write_enable = dec.write_enable
                     /\ RB!rob_d(dec, wb)[i].addr_rd = dec.addr_rd
                     /\ RB!rob_d(dec, wb)[i].store_to_mem = dec.store_to_mem
        /\ done(i) => /\ RB!rob_d(dec, wb)[i].completed
                      /\ RB!rob_d(dec, wb)[i].kanata_id = rob_q[i].kanata_id
                      /\ RB!rob_d(dec, wb)[i].write_enable = rob_q[i].write_enable
                      /\ RB!rob_d(dec, wb)[i].addr_rd = rob_q[i].addr_rd
                      /\ RB!rob_d(dec, wb)[i].store_to_mem = rob_q[i].store_to_mem
                      /\ RB!rob_d(dec, wb)[i].result = wb.result
                      /\ RB!rob_d(dec, wb)[i].branch_taken = wb.branch_taken
                      /\ RB!rob_d(dec, wb)[i].store_buffer_idx = wb.store_buffer_idx
        /\ ~new(i) /\ ~done(i) => SameBut(RB!rob_d(dec, wb)[i], rob_q[i])
        /\ SameBut(B[i], RB!rob_d(dec, wb)[i])
        /\ B[i].valid <=> ~(Commit /\ i = rob_head_ptr_q) /\ (new(i) \/ rob_q[i].valid)
  BY <1>1, <1>2, <1>3, <1>5, <1>6 DEF SameBut
<1> QED
  BY <1>3, <1>4, <1>5, <1>7 DEF new, done

----------------------------------------------------------------------------
(* Execute: what leaves it and what its pipe holds next. *)

Same(op, from) ==
  /\ op.instr = from.instr /\ op.rob_idx = from.rob_idx
  /\ op.kanata_id = from.kanata_id

LEMMA PipeNext ==
  ASSUME TypeOK, NEW k \in PipeStages
  PROVE  /\ exe_pipe_d(k) \in Op
         /\ k = 0 => exe_pipe_d(k) = IF decode_to_exe_q.instr.is_mul /\ ~stall_from_exe
                                       THEN decode_to_exe_q ELSE NOP_INSTR
         /\ k # 0 => k - 1 \in PipeStages /\ exe_pipe_d(k) = exe_pipe_q[k - 1]
<1>1. NOP_INSTR \in Op
  BY NopIsInstr, CoreSizeAssumption DEF NOP_INSTR, Op, RB!Idx, Ids
<1>2. k \in Int /\ MAX_EXE_STAGES \in Int /\ k # MAX_EXE_STAGES - 1
  BY CoreSizeAssumption DEF PipeStages, MAX_EXE_STAGES
<1>3. k # 0 => k - 1 \in PipeStages
  BY CoreSizeAssumption DEF PipeStages, MAX_EXE_STAGES
<1>4. /\ decode_to_exe_q \in Op
      /\ k # 0 => exe_pipe_q[k - 1] \in Op
  BY <1>3 DEF TypeOK, PipeStages
<1>5. CASE k = EntryStage /\ ~stall_from_exe
  <2>1. k = 0 /\ decode_to_exe_q.instr.is_mul
    BY <1>2, <1>5 DEF EntryStage
  <2> QED
    BY <1>4, <1>5, <2>1 DEF exe_pipe_d
<1>6. CASE ~(k = EntryStage /\ ~stall_from_exe)
  <2>1. exe_pipe_d(k) = IF k = 0 THEN NOP_INSTR ELSE exe_pipe_q[k - 1]
    BY <1>6 DEF exe_pipe_d, Shifted
  <2>2. k = 0 => ~(decode_to_exe_q.instr.is_mul /\ ~stall_from_exe)
    BY <1>6 DEF EntryStage
  <2> QED
    BY <1>1, <1>3, <1>4, <2>1, <2>2
<1> QED
  BY <1>5, <1>6

LEMMA Leaves ==
  ASSUME TypeOK
  PROVE  /\ exe_to_mem_d \in MemOp
         /\ exe_to_mem_d.valid =>
              \/ /\ decode_to_exe_q.valid /\ ~stall_from_exe
                 /\ ~decode_to_exe_q.instr.is_mul
                 /\ Same(exe_to_mem_d, decode_to_exe_q)
                 /\ decode_to_exe_q.instr.wb_origin = "ALU" =>
                      exe_to_mem_d.result = Value(decode_to_exe_q.kanata_id)
                 /\ exe_to_mem_d.branch_taken = decode_to_exe_q.instr.taken
              \/ LET last == exe_pipe_q[MAX_EXE_STAGES - 2]
                 IN  /\ last.valid
                     /\ Same(exe_to_mem_d, last)
                     /\ last.instr.is_mul =>
                          /\ exe_to_mem_d.result = delay[EXE_STAGES_MULT - 2]
                          /\ ~exe_to_mem_d.branch_taken
         (* Nothing that should leave now is left behind. *)
         /\ exe_pipe_q[MAX_EXE_STAGES - 2].valid =>
              exe_to_mem_d.valid /\ Same(exe_to_mem_d, exe_pipe_q[MAX_EXE_STAGES - 2])
         /\ (/\ decode_to_exe_q.valid /\ ~decode_to_exe_q.instr.is_mul
             /\ ~stall_from_exe) =>
              exe_to_mem_d.valid /\ Same(exe_to_mem_d, decode_to_exe_q)
<1> DEFINE k == MAX_EXE_STAGES - 1
           out == exe_pipe_d(k)
           last == exe_pipe_q[MAX_EXE_STAGES - 2]
<1>1. /\ k # 0 /\ k - 1 = MAX_EXE_STAGES - 2 /\ k - 1 \in PipeStages
      /\ EXE_STAGES_MULT - 2 \in 0 .. EXE_STAGES_MULT - 2
  BY CoreSizeAssumption DEF PipeStages, MAX_EXE_STAGES
<1>2. /\ decode_to_exe_q \in Op /\ last \in Op
      /\ delay[EXE_STAGES_MULT - 2] \in Nat
  BY <1>1 DEF TypeOK, PipeStages
<1>3. \/ out = decode_to_exe_q /\ ~stall_from_exe /\ ~decode_to_exe_q.instr.is_mul
      \/ out = last
  <2>1. CASE k = EntryStage /\ ~stall_from_exe
    BY <1>1, <2>1 DEF exe_pipe_d, EntryStage
  <2>2. CASE ~(k = EntryStage /\ ~stall_from_exe)
    BY <1>1, <2>2 DEF exe_pipe_d, Shifted
  <2> QED
    BY <2>1, <2>2
<1>4. /\ last.valid => out = last
      /\ ~decode_to_exe_q.instr.is_mul /\ ~stall_from_exe => out = decode_to_exe_q
  BY <1>1 DEF exe_pipe_d, Shifted, EntryStage, stall_from_exe
<1>5. out \in Op
  BY <1>2, <1>3
<1>6. /\ res_alu \in Nat /\ res_mul \in Nat
      /\ decode_to_exe_q.valid /\ decode_to_exe_q.instr.wb_origin = "ALU"
           => res_alu = Value(decode_to_exe_q.kanata_id)
  BY <1>2, CoreSizeAssumption DEF res_alu, res_mul, Value, Op, Ids
<1>7. /\ decode_to_exe_q.instr \in AnyInstr /\ out.instr \in AnyInstr
      /\ out.valid \in BOOLEAN
  BY <1>2, <1>5 DEF Op
<1>8. /\ decode_to_exe_q.instr.taken \in BOOLEAN
      /\ out.instr.jump \in BOOLEAN
      /\ out.instr.is_mul => ~out.instr.jump
      /\ decode_to_exe_q.instr.taken => decode_to_exe_q.instr.jump
  BY <1>7, InstrFacts DEF Instr
<1>9. exe_to_mem_d =
        ToMem(out, IF out.instr.is_mul THEN res_mul ELSE res_alu,
              decode_to_exe_q.instr.taken /\ out.instr.jump /\ out.valid)
  BY DEF exe_to_mem_d
<1> HIDE DEF out, last, k
<1>10. exe_to_mem_d \in MemOp
  BY <1>5, <1>6, <1>7, <1>8, <1>9 DEF ToMem, MemOp, Op
<1>11. /\ exe_to_mem_d.valid = out.valid /\ Same(exe_to_mem_d, out)
       /\ exe_to_mem_d.result = IF out.instr.is_mul THEN res_mul ELSE res_alu
       /\ exe_to_mem_d.branch_taken =
            (decode_to_exe_q.instr.taken /\ out.instr.jump /\ out.valid)
  BY <1>9 DEF ToMem, Same
<1> QED
  BY <1>3, <1>4, <1>6, <1>8, <1>10, <1>11 DEF last, res_mul

----------------------------------------------------------------------------
(* The memory stage, the inputs of the two buffers, and the clock edge. *)

LEMMA Finishes ==
  ASSUME TypeOK, NEW ready \in BOOLEAN
  PROVE  /\ mem_to_wb_d(ready) \in WbOp
         /\ mem_to_wb_d(ready).valid => exe_to_mem_q.valid
         /\ Same(mem_to_wb_d(ready), exe_to_mem_q)
         /\ mem_to_wb_d(ready).result = mem_result
         /\ mem_to_wb_d(ready).branch_taken = exe_to_mem_q.branch_taken
<1>1. exe_to_mem_q \in MemOp /\ sb_tail_ptr_q \in SB!Idx
  BY DEF TypeOK
<1>2. mem_result \in Nat
  BY <1>1, CoreSizeAssumption DEF mem_result, Value, MemOp, Ids
<1>3. /\ mem_valid(ready) \in BOOLEAN
      /\ mem_valid(ready) => exe_to_mem_q.valid
  BY DEF mem_valid, is_load, is_store
<1> HIDE DEF mem_valid
<1> QED
  BY <1>1, <1>2, <1>3 DEF mem_to_wb_d, ToWb, WbOp, MemOp, SB!store_buffer_idx_o, Same

LEMMA RobInputs ==
  ASSUME TypeOK, NEW fetched \in BOOLEAN, NEW ready \in BOOLEAN
  PROVE  LET dec == Offered(fetched, ready)
         IN  /\ dec \in RB!DecodeInput /\ RobWb \in RB!WbInput
             /\ dec.kanata_id = decode_q.kanata_id
             /\ dec.write_enable = decode_q.instr.write_enable
             /\ dec.addr_rd = decode_q.instr.addr_rd
             /\ dec.store_to_mem = decode_q.instr.store_to_mem
             /\ dec.valid <=> /\ ~stall(fetched, ready) /\ decode_q.valid
                              /\ ~Flush
             /\ RobWb.valid = mem_to_wb_q.valid
             /\ RobWb.rob_idx = mem_to_wb_q.rob_idx
             /\ RobWb.result = mem_to_wb_q.result
             /\ RobWb.branch_taken = mem_to_wb_q.branch_taken
             /\ RobWb.store_buffer_idx = mem_to_wb_q.store_buffer_idx
<1>1. /\ decode_q.instr \in Instr /\ decode_q.kanata_id \in Nat
      /\ decode_q.valid \in BOOLEAN
  BY InstrFacts DEF TypeOK, Ids
<1>2. mem_to_wb_q \in WbOp
  BY DEF TypeOK
<1>3. RobWb \in RB!WbInput
  BY <1>2 DEF RobWb, WbOp, RB!WbInput, SB!Idx
<1>4. Offered(fetched, ready) \in RB!DecodeInput
  BY <1>1 DEF Offered, RobDecode, RB!DecodeInput, Instr
<1> QED
  BY <1>3, <1>4 DEF Offered, RobDecode, RobWb, Flush

(* Everything the invariants need to know of one clock edge. *)
LEMMA EdgeFacts ==
  ASSUME TypeOK,
         NEW fetched \in BOOLEAN, NEW instr \in AnyInstr, NEW ready \in BOOLEAN,
         Cycle(fetched, instr, ready)
  PROVE  LET dec     == Offered(fetched, ready)
             stalled == stall(fetched, ready)
             frozen  == stall_from_mem(ready)
         IN  /\ ~stalled => /\ fetched /\ kanata_id_counter < MaxId
                            /\ ~stall_from_exe /\ ~frozen /\ ~RB!rob_full_o
             /\ NextFetch(stalled) /\ NextDecode(stalled, instr)
             /\ NextExe(stalled, stall_from_exe \/ frozen, dec)
             /\ Execute(frozen)
             /\ mem_to_wb_q' = mem_to_wb_d(ready)
             /\ SB!Clock(SbInput(dec, ready))
             /\ WriteRegisters
             /\ History(dec, frozen)
             /\ rob_q' = RB!rob_d(dec, RobWb)
             /\ Flush => Commit /\ rob_head_ptr_q' = 0 /\ rob_tail_ptr_q' = 0
             /\ ~Flush =>
                  /\ rob_tail_ptr_q' = IF dec.valid THEN RB!Succ(rob_tail_ptr_q)
                                                    ELSE rob_tail_ptr_q
                  /\ rob_head_ptr_q' = IF Commit THEN RB!Succ(rob_head_ptr_q)
                                                 ELSE rob_head_ptr_q
<1>1. /\ NextFetch(stall(fetched, ready)) /\ NextDecode(stall(fetched, ready), instr)
      /\ NextExe(stall(fetched, ready), stall_from_exe \/ stall_from_mem(ready),
                 Offered(fetched, ready))
      /\ Execute(stall_from_mem(ready))
      /\ mem_to_wb_q' = mem_to_wb_d(ready)
      /\ RB!Clock(Offered(fetched, ready), RobWb)
      /\ SB!Clock(SbInput(Offered(fetched, ready), ready))
      /\ WriteRegisters
      /\ History(Offered(fetched, ready), stall_from_mem(ready))
      /\ fetched => kanata_id_counter < MaxId
  BY DEF Cycle, Offered
<1>2. Flush => Commit
  BY DEF Flush, Commit, RB!commit_branch_taken_o
<1>3. /\ rob_q' = RB!rob_d(Offered(fetched, ready), RobWb)
      /\ Flush => rob_head_ptr_q' = 0 /\ rob_tail_ptr_q' = 0
      /\ ~Flush =>
           /\ rob_tail_ptr_q' = IF Offered(fetched, ready).valid
                                  THEN RB!Succ(rob_tail_ptr_q)
                                  ELSE rob_tail_ptr_q
           /\ rob_head_ptr_q' = IF Commit THEN RB!Succ(rob_head_ptr_q)
                                          ELSE rob_head_ptr_q
  BY <1>1, <1>2 DEF RB!Clock, RB!NoCommit, RB!CommitHead, RB!CommitTakenBranch,
                    RB!AdvanceTail, Flush, Commit
<1>4. ~stall(fetched, ready) => /\ fetched /\ ~stall_from_exe
                                /\ ~stall_from_mem(ready) /\ ~RB!rob_full_o
  BY DEF stall
<1> QED
  BY <1>1, <1>2, <1>3, <1>4

----------------------------------------------------------------------------
(* Types. *)

LEMMA FreedSlot ==
  ASSUME NEW e \in SB!Entry
  PROVE  LET f == [e EXCEPT !.valid = FALSE]
         IN  /\ f \in SB!Entry /\ ~f.valid
             /\ f.committed = e.committed /\ f.discarded = e.discarded /\ f.data = e.data
BY DEF SB!Entry

LEMMA CommittedSlot ==
  ASSUME NEW e \in SB!Entry
  PROVE  LET f == [e EXCEPT !.committed = TRUE]
         IN  /\ f \in SB!Entry /\ f.committed
             /\ f.valid = e.valid /\ f.discarded = e.discarded /\ f.data = e.data
BY DEF SB!Entry

LEMMA DiscardedSlot ==
  ASSUME NEW e \in SB!Entry
  PROVE  LET f == [e EXCEPT !.discarded = TRUE]
         IN  /\ f \in SB!Entry /\ f.discarded
             /\ f.valid = e.valid /\ f.committed = e.committed /\ f.data = e.data
BY DEF SB!Entry

(* The slots of the store buffer after an edge, as in StoreBufferProofs.   *)
LEMMA NextSlots ==
  ASSUME TypeOK, NEW in \in SB!Input
  PROVE  /\ SB!store_buffer_d(in) \in [SB!Idx -> SB!Entry]
         /\ \A i \in SB!Idx :
              LET e == store_buffer_q[i]
                  f == SB!store_buffer_d(in)[i]
                  taken == SB!Accepts(in) /\ i = sb_tail_ptr_q
              IN  /\ f.valid <=> /\ taken \/ e.valid
                                 /\ ~(SB!FreesHead(in) /\ i = sb_head_ptr_q)
                  /\ f.committed <=> \/ ~taken /\ e.committed
                                     \/ in.commit /\ i = in.idx_commit
                  /\ f.discarded <=> \/ ~taken /\ e.discarded
                                     \/ i \in in.discard
                  /\ f.data = IF taken THEN in.data ELSE e.data
<1> DEFINE A == SB!Accept(store_buffer_q, in)
           F == SB!Free(A, in)
           C == SB!MarkCommitted(F, in)
           taken(i) == SB!Accepts(in) /\ i = sb_tail_ptr_q
<1>0. /\ store_buffer_q \in [SB!Idx -> SB!Entry]
      /\ sb_tail_ptr_q \in SB!Idx /\ sb_head_ptr_q \in SB!Idx
      /\ in.idx_commit \in SB!Idx /\ in.discard \subseteq SB!Idx
  BY DEF TypeOK, SB!Input
<1>1. /\ A \in [SB!Idx -> SB!Entry]
      /\ \A i \in SB!Idx :
           /\ A[i].valid <=> taken(i) \/ store_buffer_q[i].valid
           /\ A[i].committed <=> ~taken(i) /\ store_buffer_q[i].committed
           /\ A[i].discarded <=> ~taken(i) /\ store_buffer_q[i].discarded
           /\ A[i].data = IF taken(i) THEN in.data ELSE store_buffer_q[i].data
  <2> DEFINE new == [data |-> in.data, addr |-> in.addr, valid |-> TRUE,
                     committed |-> FALSE, discarded |-> FALSE]
  <2>1. /\ new \in SB!Entry /\ new.valid /\ ~new.committed /\ ~new.discarded
        /\ new.data = in.data
    BY DEF SB!Input, SB!Entry
  <2>2. CASE SB!Accepts(in)
    <3>1. A = [store_buffer_q EXCEPT ![sb_tail_ptr_q] = new]
      BY <2>2 DEF SB!Accept
    <3> HIDE DEF A, new
    <3> QED
      BY <1>0, <2>1, <2>2, <3>1
  <2>3. CASE ~SB!Accepts(in)
    BY <1>0, <2>3 DEF SB!Accept
  <2> QED
    BY <2>2, <2>3
<1> HIDE DEF A, taken
<1>2. /\ F \in [SB!Idx -> SB!Entry]
      /\ \A i \in SB!Idx :
           /\ F[i].valid <=> A[i].valid /\ ~(SB!FreesHead(in) /\ i = sb_head_ptr_q)
           /\ F[i].committed <=> A[i].committed
           /\ F[i].discarded <=> A[i].discarded
           /\ F[i].data = A[i].data
  <2>0. A \in [SB!Idx -> SB!Entry]
    BY <1>1
  <2>1. CASE SB!FreesHead(in)
    <3>1. F = [A EXCEPT ![sb_head_ptr_q] = [A[sb_head_ptr_q] EXCEPT !.valid = FALSE]]
      BY <2>1 DEF SB!Free
    <3> HIDE DEF F
    <3> QED
      BY <1>0, <2>0, <2>1, <3>1, FreedSlot
  <2>2. CASE ~SB!FreesHead(in)
    BY <2>0, <2>2 DEF SB!Free
  <2> QED
    BY <2>1, <2>2
<1> HIDE DEF F
<1>3. /\ C \in [SB!Idx -> SB!Entry]
      /\ \A i \in SB!Idx :
           /\ C[i].valid <=> F[i].valid
           /\ C[i].committed <=> F[i].committed \/ (in.commit /\ i = in.idx_commit)
           /\ C[i].discarded <=> F[i].discarded
           /\ C[i].data = F[i].data
  <2>0. F \in [SB!Idx -> SB!Entry]
    BY <1>2
  <2>1. CASE in.commit
    <3>1. C = [F EXCEPT ![in.idx_commit] =
                 [F[in.idx_commit] EXCEPT !.committed = TRUE]]
      BY <2>1 DEF SB!MarkCommitted
    <3> HIDE DEF C
    <3> QED
      BY <1>0, <2>0, <2>1, <3>1, CommittedSlot
  <2>2. CASE ~in.commit
    BY <2>0, <2>2 DEF SB!MarkCommitted
  <2> QED
    BY <2>1, <2>2
<1>4. SB!store_buffer_d(in) = SB!MarkDiscarded(C, in)
  BY DEF SB!store_buffer_d, C, F, A
<1> HIDE DEF C
<1>5. /\ SB!store_buffer_d(in) \in [SB!Idx -> SB!Entry]
      /\ \A i \in SB!Idx :
           /\ SB!store_buffer_d(in)[i].valid <=> C[i].valid
           /\ SB!store_buffer_d(in)[i].committed <=> C[i].committed
           /\ SB!store_buffer_d(in)[i].discarded <=> C[i].discarded \/ i \in in.discard
           /\ SB!store_buffer_d(in)[i].data = C[i].data
  <2>0. C \in [SB!Idx -> SB!Entry]
    BY <1>3
  <2> QED
    BY <1>0, <1>4, <2>0, DiscardedSlot DEF SB!MarkDiscarded
<1> QED
  BY <1>1, <1>2, <1>3, <1>5 DEF taken

LEMMA SlotInput ==
  ASSUME TypeOK, ~rob_q[rob_tail_ptr_q].valid,
         NEW fetched \in BOOLEAN, NEW ready \in BOOLEAN
  PROVE  SbInput(Offered(fetched, ready), ready) \in SB!Input
<1> DEFINE dec == Offered(fetched, ready)
           head == rob_q[rob_head_ptr_q]
           r == RB!BeforeFlush(dec, RobWb)
<1>1. /\ r \in [RB!Idx -> RB!Entry]
      /\ RB!rob_d(dec, RobWb) \in [RB!Idx -> RB!Entry]
  BY RobInputs, NextEntries
<1>2. /\ head \in RB!Entry /\ exe_to_mem_q \in MemOp
      /\ exe_to_mem_q.instr \in Instr
  BY InstrFacts DEF TypeOK, MemOp
<1> HIDE DEF r, dec
<1>3. RB!discard_store_buffer_o(dec, RobWb) \subseteq SB!Idx
  BY <1>1 DEF RB!discard_store_buffer_o, r, RB!Entry, SB!Idx
<1>4. RB!still_alive_o(exe_to_mem_q.rob_idx, dec, RobWb) \in BOOLEAN
  BY <1>1, <1>2 DEF RB!still_alive_o, RB!Entry, MemOp
<1>5. (IF RB!commit_valid_o THEN head.store_buffer_idx ELSE 0) \in SB!Idx
  BY <1>2, CoreSizeAssumption DEF SB!Idx, RB!Entry
<1>6. Value(exe_to_mem_q.kanata_id) \in Nat /\ exe_to_mem_q.instr.addr \in Addr
  BY <1>2, CoreSizeAssumption DEF Value, MemOp, Ids, Instr
<1> HIDE DEF head
<1>7. /\ (is_store /\ RB!still_alive_o(exe_to_mem_q.rob_idx, dec, RobWb)) \in BOOLEAN
      /\ (RB!commit_valid_o /\ head.store_to_mem) \in BOOLEAN
  OBVIOUS
<1>8. SbInput(dec, ready) =
        [req        |-> is_store /\ RB!still_alive_o(exe_to_mem_q.rob_idx, dec, RobWb),
         addr       |-> exe_to_mem_q.instr.addr,
         data       |-> Value(exe_to_mem_q.kanata_id),
         rsp_ready  |-> ready,
         commit     |-> RB!commit_valid_o /\ head.store_to_mem,
         idx_commit |-> IF RB!commit_valid_o THEN head.store_buffer_idx ELSE 0,
         discard    |-> RB!discard_store_buffer_o(dec, RobWb)]
  BY DEF SbInput, head
<1>9. SbInput(dec, ready) \in SB!Input
  BY <1>3, <1>5, <1>6, <1>7, <1>8 DEF SB!Input
<1> QED
  BY <1>9 DEF dec

LEMMA TypeStep ==
  ASSUME TypeOK, ~rob_q[rob_tail_ptr_q].valid,
         NEW fetched \in BOOLEAN, NEW instr \in AnyInstr, NEW ready \in BOOLEAN,
         Cycle(fetched, instr, ready)
  PROVE  TypeOK'
<1> DEFINE dec == Offered(fetched, ready)
           stalled == stall(fetched, ready)
           frozen == stall_from_mem(ready)
<1>1. /\ ~stalled => kanata_id_counter < MaxId
      /\ NextFetch(stalled) /\ NextDecode(stalled, instr)
      /\ NextExe(stalled, stall_from_exe \/ frozen, dec)
      /\ Execute(frozen)
      /\ mem_to_wb_q' = mem_to_wb_d(ready)
      /\ SB!Clock(SbInput(dec, ready))
      /\ WriteRegisters
      /\ History(dec, frozen)
      /\ rob_q' = RB!rob_d(dec, RobWb)
      /\ Flush => rob_head_ptr_q' = 0 /\ rob_tail_ptr_q' = 0
      /\ ~Flush => /\ rob_tail_ptr_q' \in {rob_tail_ptr_q, RB!Succ(rob_tail_ptr_q)}
                   /\ rob_head_ptr_q' \in {rob_head_ptr_q, RB!Succ(rob_head_ptr_q)}
  BY EdgeFacts
<1>2. /\ dec \in RB!DecodeInput /\ RobWb \in RB!WbInput
      /\ dec.kanata_id = decode_q.kanata_id /\ dec.valid \in BOOLEAN
  BY RobInputs DEF RB!DecodeInput
<1>3. /\ kanata_id_counter \in Ids /\ MaxId \in Nat
      /\ decode_q \in [valid : BOOLEAN, instr : AnyInstr, kanata_id : Ids]
      /\ decode_to_exe_q \in Op /\ exe_to_mem_q \in MemOp
      /\ rob_tail_ptr_q \in RB!Idx /\ rob_head_ptr_q \in RB!Idx
      /\ 0 \in RB!Idx /\ 0 \in Ids /\ MaxId \in Ids
      /\ rob_q[rob_head_ptr_q] \in RB!Entry
      /\ registers_q \in [Regs -> Nat] /\ last_writer \in [Regs -> Nat]
      /\ shadow_id \in Ids /\ path_id \in Ids /\ clean \in BOOLEAN /\ dropped \in BOOLEAN
  BY CoreSizeAssumption DEF TypeOK, RB!Idx, Ids
<1> HIDE DEF dec, stalled, frozen
<1>4. kanata_id_counter' \in Ids
  BY <1>1, <1>3 DEF NextFetch, Ids
<1>5. decode_q' \in [valid : BOOLEAN, instr : AnyInstr, kanata_id : Ids]
  BY <1>1, <1>3, NopIsInstr DEF NextDecode, NoDecode
<1>6. decode_to_exe_q' \in Op
  BY <1>1, <1>2, <1>3, NopIsInstr DEF NextExe, NOP_INSTR, Op
<1>7. exe_pipe_q' \in [0 .. MAX_EXE_STAGES - 2 -> Op]
  <2>1. exe_pipe_q' = [i \in PipeStages |-> exe_pipe_d(i)]
    BY <1>1 DEF Execute, PipeStages
  <2>2. \A i \in PipeStages : exe_pipe_d(i) \in Op
    BY PipeNext
  <2> QED
    BY <2>1, <2>2 DEF PipeStages
<1>8. exe_to_mem_q' \in MemOp
  BY <1>1, <1>3, Leaves DEF Execute
<1>9. delay' \in [0 .. EXE_STAGES_MULT - 2 -> Nat]
  <2>1. product \in Nat
    BY <1>3 DEF product, Value, Op, Ids
  <2>2. \A i \in 0 .. EXE_STAGES_MULT - 2 : i # 0 => delay[i - 1] \in Nat
    BY CoreSizeAssumption DEF TypeOK
  <2>3. delay' = [i \in 0 .. EXE_STAGES_MULT - 2 |->
                    IF i = 0 THEN product ELSE delay[i - 1]]
    BY <1>1 DEF Execute
  <2> QED
    BY <2>1, <2>2, <2>3
<1>10. mem_to_wb_q' \in WbOp
  BY <1>1, Finishes
<1>11. registers_q' \in [Regs -> Nat]
  <2>1. rob_q[rob_head_ptr_q].result \in Nat
    BY <1>3 DEF RB!Entry
  <2> QED
    BY <1>1, <1>3, <2>1 DEF WriteRegisters
<1>12. rob_q' \in [RB!Idx -> RB!Entry]
  BY <1>1, <1>2, NextEntries
<1>13. rob_head_ptr_q' \in RB!Idx /\ rob_tail_ptr_q' \in RB!Idx
  BY <1>1, <1>3, SuccLemma
<1>14. /\ store_buffer_q' \in [SB!Idx -> SB!Entry]
       /\ sb_head_ptr_q' \in SB!Idx /\ sb_tail_ptr_q' \in SB!Idx
  <2>1. SbInput(dec, ready) \in SB!Input
    BY SlotInput DEF dec
  <2>2. sb_head_ptr_q \in SB!Idx /\ sb_tail_ptr_q \in SB!Idx
    BY DEF TypeOK
  <2> QED
    BY <1>1, <2>1, <2>2, NextSlots, SlotSuccLemma DEF SB!Clock
<1>15. /\ last_writer' \in [Regs -> Nat] /\ shadow_id' \in Ids /\ path_id' \in Ids
       /\ clean' \in BOOLEAN /\ dropped' \in BOOLEAN
  <2>1. Value(rob_q[rob_head_ptr_q].kanata_id) \in Nat
    BY <1>3 DEF RB!Entry, Value
  <2>2. last_writer' =
          [r \in Regs |-> IF r # 0 /\ CommitWrites(r)
                            THEN Value(rob_q[rob_head_ptr_q].kanata_id)
                            ELSE last_writer[r]]
    BY <1>1 DEF History
  <2>3. last_writer' \in [Regs -> Nat]
    BY <1>3, <2>1, <2>2
  <2>4. shadow_id' \in {MaxId, decode_q.kanata_id, shadow_id}
    BY <1>1 DEF History
  <2>5. /\ path_id' \in {kanata_id_counter, path_id}
        /\ clean' = (clean /\ ~EntryReused')
        /\ dropped' = (dropped \/ DropsMul(frozen))
    BY <1>1 DEF History
  <2> QED
    BY <1>3, <2>3, <2>4, <2>5
<1> QED
  BY <1>4, <1>5, <1>6, <1>7, <1>8, <1>9, <1>10, <1>11, <1>12, <1>13, <1>14, <1>15
     DEF TypeOK

----------------------------------------------------------------------------
(* The ring and the ids.  Decode delivers ids in increasing order; the     *)
(* window between the two pointers holds them in that order, and those     *)
(* before path_id have left it.                                            *)

NextId == IF decode_q.valid THEN decode_q.kanata_id ELSE kanata_id_counter

DecodeIds ==
  /\ decode_q.valid => decode_q.kanata_id < kanata_id_counter
  /\ path_id <= NextId

RingAges ==
  \A i, j \in RB!Idx :
    (rob_q[i].valid /\ rob_q[j].valid /\ RB!Dist(i) < RB!Dist(j))
      => rob_q[i].kanata_id < rob_q[j].kanata_id

RingIds ==
  \A i \in RB!Idx :
    rob_q[i].valid => path_id <= rob_q[i].kanata_id /\ rob_q[i].kanata_id < NextId

Ring == RB!WindowInv /\ DecodeIds /\ RingAges /\ RingIds

LEMMA TailIsFree ==
  ASSUME TypeOK, RB!WindowInv
  PROVE  ~rob_q[rob_tail_ptr_q].valid
BY DEF TypeOK, RB!WindowInv, RB!InWindow, RB!Idx

(* The entries after an edge, in terms of decode and write-back. *)
LEMMA Entries ==
  ASSUME TypeOK, RB!WindowInv,
         NEW fetched \in BOOLEAN, NEW instr \in AnyInstr, NEW ready \in BOOLEAN,
         Cycle(fetched, instr, ready), NEW i \in RB!Idx
  PROVE  LET e == rob_q[i]
             f == rob_q'[i]
             new  == Offered(fetched, ready).valid /\ i = rob_tail_ptr_q
             done == mem_to_wb_q.valid /\ e.valid /\ i = mem_to_wb_q.rob_idx
         IN  /\ f.valid <=> /\ ~Flush
                            /\ ~(Commit /\ i = rob_head_ptr_q)
                            /\ new \/ e.valid
             /\ new => /\ ~f.completed /\ f.kanata_id = decode_q.kanata_id
                       /\ f.write_enable = decode_q.instr.write_enable
                       /\ f.addr_rd = decode_q.instr.addr_rd
                       /\ f.store_to_mem = decode_q.instr.store_to_mem
                       /\ ~e.valid
             /\ done => /\ f.completed /\ f.kanata_id = e.kanata_id
                        /\ f.write_enable = e.write_enable
                        /\ f.addr_rd = e.addr_rd
                        /\ f.store_to_mem = e.store_to_mem
                        /\ f.result = mem_to_wb_q.result
                        /\ f.branch_taken = mem_to_wb_q.branch_taken
                        /\ f.store_buffer_idx = mem_to_wb_q.store_buffer_idx
             /\ ~new /\ ~done => SameBut(f, e)
             /\ ~new => /\ f.kanata_id = e.kanata_id
                        /\ f.store_to_mem = e.store_to_mem
<1>1. rob_q' = RB!rob_d(Offered(fetched, ready), RobWb)
  BY EdgeFacts
<1>2. ~rob_q[rob_tail_ptr_q].valid
  BY TailIsFree
<1>3. /\ Offered(fetched, ready) \in RB!DecodeInput /\ RobWb \in RB!WbInput
      /\ Offered(fetched, ready).kanata_id = decode_q.kanata_id
      /\ Offered(fetched, ready).write_enable = decode_q.instr.write_enable
      /\ Offered(fetched, ready).addr_rd = decode_q.instr.addr_rd
      /\ Offered(fetched, ready).store_to_mem = decode_q.instr.store_to_mem
      /\ RobWb.valid = mem_to_wb_q.valid /\ RobWb.rob_idx = mem_to_wb_q.rob_idx
      /\ RobWb.result = mem_to_wb_q.result
      /\ RobWb.branch_taken = mem_to_wb_q.branch_taken
      /\ RobWb.store_buffer_idx = mem_to_wb_q.store_buffer_idx
  BY RobInputs
<1>4. LET e == rob_q[i]
          f == RB!rob_d(Offered(fetched, ready), RobWb)[i]
          new  == Offered(fetched, ready).valid /\ i = rob_tail_ptr_q
          done == RobWb.valid /\ e.valid /\ i = RobWb.rob_idx
      IN  /\ f.valid <=> /\ ~Flush
                         /\ ~(Commit /\ i = rob_head_ptr_q)
                         /\ new \/ e.valid
          /\ new => /\ ~f.completed /\ f.kanata_id = Offered(fetched, ready).kanata_id
                    /\ f.write_enable = Offered(fetched, ready).write_enable
                    /\ f.addr_rd = Offered(fetched, ready).addr_rd
                    /\ f.store_to_mem = Offered(fetched, ready).store_to_mem
          /\ done => /\ f.completed /\ f.kanata_id = e.kanata_id
                     /\ f.write_enable = e.write_enable
                     /\ f.addr_rd = e.addr_rd
                     /\ f.store_to_mem = e.store_to_mem
                     /\ f.result = RobWb.result
                     /\ f.branch_taken = RobWb.branch_taken
                     /\ f.store_buffer_idx = RobWb.store_buffer_idx
          /\ ~new /\ ~done => SameBut(f, e)
  BY <1>2, <1>3, NextEntries
<1> QED
  BY <1>1, <1>2, <1>3, <1>4 DEF SameBut

(* The entries a flush frees are those that the edge would leave valid.    *)
LEMMA Flushed ==
  ASSUME TypeOK, RB!WindowInv,
         NEW fetched \in BOOLEAN, NEW instr \in AnyInstr, NEW ready \in BOOLEAN,
         Cycle(fetched, instr, ready), NEW i \in RB!Idx,
         rob_q[i].valid, ~(Commit /\ i = rob_head_ptr_q)
  PROVE  LET b == RB!BeforeFlush(Offered(fetched, ready), RobWb)[i]
         IN  b.valid /\ SameBut(b, rob_q'[i])
<1>1. rob_q' = RB!rob_d(Offered(fetched, ready), RobWb)
  BY EdgeFacts
<1>2. ~rob_q[rob_tail_ptr_q].valid
  BY TailIsFree
<1>3. Offered(fetched, ready) \in RB!DecodeInput /\ RobWb \in RB!WbInput
  BY RobInputs
<1> QED
  BY <1>1, <1>2, <1>3, NextEntries

LEMMA PointerStep ==
  ASSUME TypeOK, RB!WindowInv,
         NEW fetched \in BOOLEAN, NEW instr \in AnyInstr, NEW ready \in BOOLEAN,
         Cycle(fetched, instr, ready), ~Flush
  PROVE  /\ rob_tail_ptr_q' = IF Offered(fetched, ready).valid
                                THEN IF rob_tail_ptr_q = ROB_SIZE - 1
                                       THEN 0 ELSE rob_tail_ptr_q + 1
                                ELSE rob_tail_ptr_q
         /\ rob_head_ptr_q' = IF Commit
                                THEN IF rob_head_ptr_q = ROB_SIZE - 1
                                       THEN 0 ELSE rob_head_ptr_q + 1
                                ELSE rob_head_ptr_q
         /\ Commit => RB!InWindow(rob_head_ptr_q)
         /\ Offered(fetched, ready).valid =>
              rob_head_ptr_q # IF rob_tail_ptr_q = ROB_SIZE - 1
                                 THEN 0 ELSE rob_tail_ptr_q + 1
<1>1. /\ ~stall(fetched, ready) => ~RB!rob_full_o
      /\ rob_tail_ptr_q' = IF Offered(fetched, ready).valid
                             THEN RB!Succ(rob_tail_ptr_q) ELSE rob_tail_ptr_q
      /\ rob_head_ptr_q' = IF Commit THEN RB!Succ(rob_head_ptr_q)
                                     ELSE rob_head_ptr_q
  BY EdgeFacts
<1>2. Offered(fetched, ready).valid => ~stall(fetched, ready)
  BY RobInputs
<1>3. rob_head_ptr_q \in RB!Idx /\ rob_tail_ptr_q \in RB!Idx
  BY DEF TypeOK
<1>4. /\ Commit => RB!InWindow(rob_head_ptr_q)
      /\ RB!Succ(rob_tail_ptr_q) = rob_head_ptr_q =>
           (RB!rob_full_o <=> RB!InWindow(rob_head_ptr_q))
  BY <1>3 DEF Commit, RB!commit_valid_o, RB!rob_full_o, RB!WindowInv
<1>5. Offered(fetched, ready).valid => RB!Succ(rob_tail_ptr_q) # rob_head_ptr_q
  BY <1>1, <1>2, <1>3, <1>4, SuccLemma, CoreSizeAssumption DEF RB!InWindow, RB!Idx
<1> QED
  BY <1>1, <1>3, <1>4, <1>5, SuccLemma

LEMMA WindowStep ==
  ASSUME TypeOK, RB!WindowInv,
         NEW fetched \in BOOLEAN, NEW instr \in AnyInstr, NEW ready \in BOOLEAN,
         Cycle(fetched, instr, ready)
  PROVE  RB!WindowInv'
<1> SUFFICES ASSUME NEW i \in RB!Idx
             PROVE  rob_q'[i].valid <=> RB!InWindow(i)'
  BY DEF RB!WindowInv
<1>1. /\ rob_q'[i].valid <=>
           /\ ~Flush /\ ~(Commit /\ i = rob_head_ptr_q)
           /\ (Offered(fetched, ready).valid /\ i = rob_tail_ptr_q) \/ rob_q[i].valid
      /\ rob_q[i].valid <=> RB!InWindow(i)
  BY Entries DEF RB!WindowInv
<1>2. CASE Flush
  BY <1>1, <1>2, EdgeFacts DEF RB!InWindow, RB!Idx
<1>3. CASE ~Flush
  BY <1>1, <1>3, PointerStep, CoreSizeAssumption DEF RB!InWindow, TypeOK, RB!Idx
<1> QED
  BY <1>2, <1>3

LEMMA AgeStep ==
  ASSUME TypeOK, RB!WindowInv, RB!WindowInv', RingAges, RingIds,
         NEW fetched \in BOOLEAN, NEW instr \in AnyInstr, NEW ready \in BOOLEAN,
         Cycle(fetched, instr, ready)
  PROVE  RingAges'
<1> SUFFICES ASSUME NEW i \in RB!Idx, NEW j \in RB!Idx,
                    rob_q'[i].valid, rob_q'[j].valid, (RB!Dist(i) < RB!Dist(j))'
             PROVE  rob_q'[i].kanata_id < rob_q'[j].kanata_id
  BY DEF RingAges
<1> DEFINE new(k) == Offered(fetched, ready).valid /\ k = rob_tail_ptr_q
<1>1. \A k \in {i, j} :
        /\ ~Flush /\ ~(Commit /\ k = rob_head_ptr_q)
        /\ new(k) \/ rob_q[k].valid
        /\ rob_q'[k].kanata_id = IF new(k) THEN decode_q.kanata_id
                                           ELSE rob_q[k].kanata_id
  BY Entries
<1>2. RB!InWindow(i)' /\ RB!InWindow(j)'
  BY DEF RB!WindowInv
<1>3. rob_head_ptr_q \in RB!Idx /\ rob_tail_ptr_q \in RB!Idx
  BY DEF TypeOK
<1> HIDE DEF new
(* The order of the slots in flight does not change, and the new one is    *)
(* the last.                                                               *)
<1>4. RB!Dist(i) < RB!Dist(j)
  BY <1>1, <1>3, PointerStep, CoreSizeAssumption DEF RB!Dist, RB!Idx
<1>5. ~new(i)
  BY <1>1, <1>2, <1>3, PointerStep, CoreSizeAssumption
     DEF RB!Dist, RB!InWindow, RB!Idx, new
<1>6. CASE new(j)
  <2>1. decode_q.valid
    BY <1>6, RobInputs DEF new
  <2> QED
    BY <1>1, <1>5, <1>6, <2>1 DEF RingIds, NextId
<1>7. CASE ~new(j)
  BY <1>1, <1>4, <1>5, <1>7 DEF RingAges
<1> QED
  BY <1>6, <1>7

LEMMA IdStep ==
  ASSUME TypeOK, DecodeIds,
         NEW fetched \in BOOLEAN, NEW instr \in AnyInstr, NEW ready \in BOOLEAN,
         Cycle(fetched, instr, ready)
  PROVE  /\ DecodeIds'
         /\ NextId \in Ids /\ NextId' \in Ids /\ NextId <= NextId'
         /\ Offered(fetched, ready).valid =>
              decode_q.kanata_id = NextId /\ NextId < NextId' /\ NextId < MaxId
         /\ Flush => path_id' = NextId' /\ shadow_id' = MaxId
         /\ ~Flush => path_id' = path_id
<1>1. /\ ~stall(fetched, ready) => kanata_id_counter < MaxId
      /\ NextFetch(stall(fetched, ready)) /\ NextDecode(stall(fetched, ready), instr)
      /\ History(Offered(fetched, ready), stall_from_mem(ready))
  BY EdgeFacts
<1>2. Offered(fetched, ready).valid <=>
        ~stall(fetched, ready) /\ decode_q.valid /\ ~Flush
  BY RobInputs
<1>3. /\ kanata_id_counter \in Ids /\ decode_q.kanata_id \in Ids /\ path_id \in Ids
      /\ MaxId \in Nat
  BY CoreSizeAssumption DEF TypeOK
<1>4. CASE Flush
  <2>1. /\ kanata_id_counter' = kanata_id_counter
        /\ decode_q' = NoDecode
        /\ path_id' = kanata_id_counter /\ shadow_id' = MaxId
    BY <1>1, <1>4 DEF NextFetch, NextDecode, History, Flush
  <2> QED
    BY <1>2, <1>3, <1>4, <2>1 DEF DecodeIds, NextId, NoDecode, Ids
<1>5. CASE ~Flush /\ stall(fetched, ready)
  <2>1. /\ kanata_id_counter' = kanata_id_counter /\ decode_q' = decode_q
        /\ path_id' = path_id
    BY <1>1, <1>5 DEF NextFetch, NextDecode, History, Flush
  <2> QED
    BY <1>2, <1>3, <1>5, <2>1 DEF DecodeIds, NextId, Ids
<1>6. CASE ~Flush /\ ~stall(fetched, ready)
  <2>1. /\ kanata_id_counter' = kanata_id_counter + 1
        /\ decode_q' = [valid |-> TRUE, instr |-> instr, kanata_id |-> kanata_id_counter]
        /\ path_id' = path_id
    BY <1>1, <1>6 DEF NextFetch, NextDecode, History, Flush
  <2> QED
    BY <1>1, <1>2, <1>3, <1>6, <2>1 DEF DecodeIds, NextId, Ids
<1> QED
  BY <1>4, <1>5, <1>6

LEMMA RingStep ==
  ASSUME TypeOK, Ring,
         NEW fetched \in BOOLEAN, NEW instr \in AnyInstr, NEW ready \in BOOLEAN,
         Cycle(fetched, instr, ready)
  PROVE  Ring'
<1>1. RB!WindowInv' /\ DecodeIds'
  BY WindowStep, IdStep DEF Ring
<1>2. RingAges'
  BY <1>1, AgeStep DEF Ring
<1>3. ASSUME NEW i \in RB!Idx, rob_q'[i].valid
      PROVE  path_id' <= rob_q'[i].kanata_id /\ rob_q'[i].kanata_id < NextId'
  <2>1. /\ ~Flush
        /\ \/ rob_q'[i].kanata_id = decode_q.kanata_id /\ Offered(fetched, ready).valid
           \/ rob_q'[i].kanata_id = rob_q[i].kanata_id /\ rob_q[i].valid
    BY <1>3, Entries DEF Ring
  <2>2. /\ NextId \in Nat /\ NextId' \in Nat /\ NextId <= NextId'
        /\ path_id' = path_id /\ path_id \in Nat /\ path_id <= NextId
        /\ Offered(fetched, ready).valid =>
             decode_q.kanata_id = NextId /\ NextId < NextId'
    BY <2>1, IdStep DEF Ring, DecodeIds, Ids, TypeOK
  <2>3. rob_q[i].kanata_id \in Nat
    BY DEF TypeOK, RB!Entry
  <2> QED
    BY <2>1, <2>2, <2>3 DEF Ring, RingIds
<1> QED
  BY <1>1, <1>2, <1>3 DEF Ring, RingIds

----------------------------------------------------------------------------
(* The instructions on their way.  Is says what a pipeline register holds, *)
(* Carried what any of them does.                                          *)

Is(op, ins, i, id) ==
  op.valid /\ op.instr = ins /\ op.rob_idx = i /\ op.kanata_id = id

Carried(ins, i, id) ==
  \/ Is(decode_to_exe_q, ins, i, id)
  \/ \E k \in PipeStages : Is(exe_pipe_q[k], ins, i, id)
  \/ Is(exe_to_mem_q, ins, i, id)
  \/ Is(mem_to_wb_q, ins, i, id)

(* They are older than what decode holds; a branch on the right path is    *)
(* taken exactly when it is the shadow's; and their own entry, if they     *)
(* still have one, is the one they name.                                   *)
Travelling ==
  /\ shadow_id # MaxId => shadow_id < NextId
  /\ \A ins \in AnyInstr, i \in RB!Idx, id \in Ids :
       Carried(ins, i, id) =>
         /\ id < NextId
         /\ path_id <= id => /\ ins.taken => shadow_id <= id
                             /\ id = shadow_id => ins.taken
         /\ \A j \in RB!Idx :
              (rob_q[j].valid /\ rob_q[j].kanata_id = id)
                => i = j /\ rob_q[j].store_to_mem = ins.store_to_mem

(* Every instruction in the pipeline was there, or decode issues it now.   *)
LEMMA CarriedStep ==
  ASSUME TypeOK,
         NEW fetched \in BOOLEAN, NEW instr \in AnyInstr, NEW ready \in BOOLEAN,
         Cycle(fetched, instr, ready),
         NEW ins, NEW i, NEW id, Carried(ins, i, id)'
  PROVE  \/ Carried(ins, i, id)
         \/ /\ Offered(fetched, ready).valid
            /\ ins = decode_q.instr /\ i = rob_tail_ptr_q /\ id = decode_q.kanata_id
<1> DEFINE stalled == stall(fetched, ready)
           dec == Offered(fetched, ready)
<1>1. /\ NextExe(stalled, stall_from_exe \/ stall_from_mem(ready), dec)
      /\ Execute(stall_from_mem(ready))
      /\ mem_to_wb_q' = mem_to_wb_d(ready)
  BY EdgeFacts
<1>2. CASE Is(decode_to_exe_q, ins, i, id)'
  <2>1. \/ decode_to_exe_q' = [valid |-> dec.valid, instr |-> decode_q.instr,
                               rob_idx |-> rob_tail_ptr_q,
                               kanata_id |-> decode_q.kanata_id]
        \/ decode_to_exe_q' = NOP_INSTR
        \/ decode_to_exe_q' = decode_to_exe_q
    BY <1>1 DEF NextExe
  <2> HIDE DEF dec
  <2>2. ~NOP_INSTR.valid
    BY DEF NOP_INSTR
  <2> QED
    BY <1>2, <2>1, <2>2 DEF Is, Carried, dec
<1>3. ASSUME NEW k \in PipeStages, Is(exe_pipe_q[k], ins, i, id)'
      PROVE  Carried(ins, i, id)
  <2>1. exe_pipe_q'[k] = exe_pipe_d(k)
    BY <1>1 DEF Execute, PipeStages
  <2>2. ~NOP_INSTR.valid
    BY DEF NOP_INSTR
  <2> QED
    BY <1>3, <2>1, <2>2, PipeNext DEF Is, Carried
<1>4. CASE Is(exe_to_mem_q, ins, i, id)'
  <2>1. exe_to_mem_q' = exe_to_mem_q \/ exe_to_mem_q' = exe_to_mem_d
    BY <1>1 DEF Execute
  <2>2. MAX_EXE_STAGES - 2 \in PipeStages
    BY CoreSizeAssumption DEF PipeStages, MAX_EXE_STAGES
  <2> QED
    BY <1>4, <2>1, <2>2, Leaves DEF Is, Carried, Same
<1>5. CASE Is(mem_to_wb_q, ins, i, id)'
  BY <1>1, <1>5, Finishes DEF Is, Carried, Same
<1> QED
  BY <1>2, <1>3, <1>4, <1>5 DEF Carried, PipeStages

(* An instruction in a pipeline register is one of those. *)
LEMMA HeldIsCarried ==
  ASSUME TypeOK
  PROVE  /\ decode_to_exe_q.valid =>
              /\ Carried(decode_to_exe_q.instr, decode_to_exe_q.rob_idx,
                         decode_to_exe_q.kanata_id)
              /\ decode_to_exe_q.instr \in AnyInstr
              /\ decode_to_exe_q.rob_idx \in RB!Idx /\ decode_to_exe_q.kanata_id \in Ids
         /\ \A k \in PipeStages : exe_pipe_q[k].valid =>
              /\ Carried(exe_pipe_q[k].instr, exe_pipe_q[k].rob_idx,
                         exe_pipe_q[k].kanata_id)
              /\ exe_pipe_q[k].instr \in AnyInstr
              /\ exe_pipe_q[k].rob_idx \in RB!Idx /\ exe_pipe_q[k].kanata_id \in Ids
         /\ exe_to_mem_q.valid =>
              /\ Carried(exe_to_mem_q.instr, exe_to_mem_q.rob_idx,
                         exe_to_mem_q.kanata_id)
              /\ exe_to_mem_q.instr \in AnyInstr
              /\ exe_to_mem_q.rob_idx \in RB!Idx /\ exe_to_mem_q.kanata_id \in Ids
         /\ mem_to_wb_q.valid =>
              /\ Carried(mem_to_wb_q.instr, mem_to_wb_q.rob_idx,
                         mem_to_wb_q.kanata_id)
              /\ mem_to_wb_q.instr \in AnyInstr
              /\ mem_to_wb_q.rob_idx \in RB!Idx /\ mem_to_wb_q.kanata_id \in Ids
<1>1. /\ decode_to_exe_q \in Op /\ exe_to_mem_q \in MemOp /\ mem_to_wb_q \in WbOp
      /\ \A k \in PipeStages : exe_pipe_q[k] \in Op
  BY DEF TypeOK, PipeStages
<1> QED
  BY <1>1 DEF Carried, Is, Op, MemOp, WbOp

LEMMA TravelStep ==
  ASSUME TypeOK, Ring, Travelling,
         NEW fetched \in BOOLEAN, NEW instr \in AnyInstr, NEW ready \in BOOLEAN,
         Cycle(fetched, instr, ready)
  PROVE  Travelling'
<1> DEFINE issued == Offered(fetched, ready).valid
<1>1. /\ NextId \in Nat /\ NextId' \in Nat /\ NextId <= NextId' /\ NextId' <= MaxId
      /\ issued => /\ decode_q.kanata_id = NextId /\ NextId < NextId'
                   /\ NextId < MaxId
      /\ Flush => path_id' = NextId' /\ shadow_id' = MaxId
      /\ ~Flush => path_id' = path_id
      /\ path_id \in Nat /\ shadow_id \in Nat /\ MaxId \in Nat /\ shadow_id <= MaxId
      /\ path_id <= NextId
  BY IdStep, CoreSizeAssumption DEF Ring, DecodeIds, Ids, TypeOK
<1>2. ~Flush => shadow_id' = IF issued /\ decode_q.instr.taken /\ shadow_id = MaxId
                               THEN decode_q.kanata_id ELSE shadow_id
  <2>1. History(Offered(fetched, ready), stall_from_mem(ready))
    BY EdgeFacts
  <2> QED
    BY <2>1 DEF History, Flush
<1>3. issued => ~Flush
  BY RobInputs
<1> HIDE DEF issued
<1>4. (shadow_id # MaxId => shadow_id < NextId)'
  BY <1>1, <1>2 DEF Travelling
<1>5. ASSUME NEW ins \in AnyInstr, NEW i \in RB!Idx, NEW id \in Ids,
             Carried(ins, i, id)'
      PROVE  /\ id < NextId'
             /\ path_id' <= id => /\ ins.taken => shadow_id' <= id
                                  /\ id = shadow_id' => ins.taken
             /\ \A j \in RB!Idx :
                  (rob_q'[j].valid /\ rob_q'[j].kanata_id = id)
                    => i = j /\ rob_q'[j].store_to_mem = ins.store_to_mem
  <2>0. id \in Nat /\ \A j \in RB!Idx : rob_q[j].kanata_id \in Nat
    BY CoreSizeAssumption DEF Ids, TypeOK, RB!Entry
  <2>1. \A j \in RB!Idx : rob_q'[j].valid =>
          /\ ~Flush
          /\ \/ /\ issued /\ j = rob_tail_ptr_q
                /\ rob_q'[j].kanata_id = decode_q.kanata_id
                /\ rob_q'[j].store_to_mem = decode_q.instr.store_to_mem
             \/ /\ rob_q[j].valid /\ rob_q'[j].kanata_id = rob_q[j].kanata_id
                /\ rob_q'[j].store_to_mem = rob_q[j].store_to_mem
    BY Entries DEF Ring, issued, SameBut
  <2>2. CASE Carried(ins, i, id)
    <3>1. /\ id < NextId
          /\ path_id <= id => /\ ins.taken => shadow_id <= id
                              /\ id = shadow_id => ins.taken
          /\ \A j \in RB!Idx :
               (rob_q[j].valid /\ rob_q[j].kanata_id = id)
                 => i = j /\ rob_q[j].store_to_mem = ins.store_to_mem
      BY <2>2 DEF Travelling
    <3>2. id < NextId'
      BY <1>1, <2>0, <3>1
    <3>3. ASSUME path_id' <= id
          PROVE  (ins.taken => shadow_id' <= id) /\ (id = shadow_id' => ins.taken)
      <4>1. ~Flush /\ path_id <= id
        BY <1>1, <2>0, <3>2, <3>3
      <4> QED
        BY <1>1, <1>2, <2>0, <3>1, <4>1
    <3>4. ASSUME NEW j \in RB!Idx, rob_q'[j].valid, rob_q'[j].kanata_id = id
          PROVE  i = j /\ rob_q'[j].store_to_mem = ins.store_to_mem
      BY <1>1, <2>0, <2>1, <3>1, <3>4
    <3> QED
      BY <3>2, <3>3, <3>4
  <2>3. CASE /\ issued /\ ins = decode_q.instr /\ i = rob_tail_ptr_q
             /\ id = decode_q.kanata_id
    <3>1. ~Flush /\ id = NextId
      BY <1>1, <1>3, <2>3
    <3>2. (ins.taken => shadow_id' <= id) /\ (id = shadow_id' => ins.taken)
      BY <1>1, <1>2, <2>3, <3>1 DEF Travelling
    <3>3. ASSUME NEW j \in RB!Idx, rob_q'[j].valid, rob_q'[j].kanata_id = id
          PROVE  i = j /\ rob_q'[j].store_to_mem = ins.store_to_mem
      <4>1. rob_q[j].valid => rob_q[j].kanata_id < NextId
        BY DEF Ring, RingIds
      <4> QED
        BY <1>1, <2>0, <2>1, <2>3, <3>1, <3>3, <4>1
    <3> QED
      BY <1>1, <2>3, <3>1, <3>2, <3>3
  <2> QED
    BY <1>5, <2>2, <2>3, CarriedStep DEF issued
<1> QED
  BY <1>4, <1>5 DEF Travelling

----------------------------------------------------------------------------
(* Every stage holds the result of its own instruction, in particular the  *)
(* multiplier's delay line next to the metadata pipe; and a branch its own *)
(* outcome.                                                                *)

StageResults ==
  /\ \A k \in PipeStages :
       exe_pipe_q[k].valid => /\ exe_pipe_q[k].instr.is_mul
                              /\ delay[k] = Value(exe_pipe_q[k].kanata_id)
  /\ exe_to_mem_q.valid =>
       /\ exe_to_mem_q.instr.wb_origin = "ALU"
            => exe_to_mem_q.result = Value(exe_to_mem_q.kanata_id)
       /\ exe_to_mem_q.branch_taken = exe_to_mem_q.instr.taken
  /\ mem_to_wb_q.valid =>
       /\ mem_to_wb_q.result = Value(mem_to_wb_q.kanata_id)
       /\ mem_to_wb_q.branch_taken = mem_to_wb_q.instr.taken

LEMMA LeavingResult ==
  ASSUME TypeOK, StageResults, exe_to_mem_d.valid
  PROVE  /\ exe_to_mem_d.instr.wb_origin = "ALU"
              => exe_to_mem_d.result = Value(exe_to_mem_d.kanata_id)
         /\ exe_to_mem_d.branch_taken = exe_to_mem_d.instr.taken
<1> DEFINE last == exe_pipe_q[MAX_EXE_STAGES - 2]
<1>1. CASE Same(exe_to_mem_d, decode_to_exe_q)
           /\ (decode_to_exe_q.instr.wb_origin = "ALU" =>
                 exe_to_mem_d.result = Value(decode_to_exe_q.kanata_id))
           /\ exe_to_mem_d.branch_taken = decode_to_exe_q.instr.taken
  BY <1>1 DEF Same
<1>2. CASE /\ last.valid /\ Same(exe_to_mem_d, last)
           /\ last.instr.is_mul => /\ exe_to_mem_d.result = delay[EXE_STAGES_MULT - 2]
                                   /\ ~exe_to_mem_d.branch_taken
  <2>1. MAX_EXE_STAGES - 2 \in PipeStages /\ MAX_EXE_STAGES = EXE_STAGES_MULT
    BY CoreSizeAssumption DEF PipeStages, MAX_EXE_STAGES
  <2>2. last.instr.is_mul /\ delay[EXE_STAGES_MULT - 2] = Value(last.kanata_id)
    BY <1>2, <2>1 DEF StageResults
  <2>3. last.instr \in AnyInstr /\ exe_to_mem_d \in MemOp
    BY <2>1, Leaves DEF TypeOK, PipeStages, Op
  <2>4. ~last.instr.taken /\ last.instr.taken \in BOOLEAN
    BY <2>2, <2>3, InstrFacts DEF Instr
  <2> QED
    BY <1>2, <2>2, <2>3, <2>4 DEF Same, MemOp
<1> QED
  BY <1>1, <1>2, Leaves

LEMMA ResultStep ==
  ASSUME TypeOK, StageResults,
         NEW fetched \in BOOLEAN, NEW instr \in AnyInstr, NEW ready \in BOOLEAN,
         Cycle(fetched, instr, ready)
  PROVE  StageResults'
<1>1. Execute(stall_from_mem(ready)) /\ mem_to_wb_q' = mem_to_wb_d(ready)
  BY EdgeFacts
<1>2. ASSUME NEW k \in PipeStages, exe_pipe_q'[k].valid
      PROVE  /\ exe_pipe_q'[k].instr.is_mul
             /\ delay'[k] = Value(exe_pipe_q'[k].kanata_id)
  <2>1. /\ exe_pipe_q'[k] = exe_pipe_d(k)
        /\ delay'[k] = IF k = 0 THEN product ELSE delay[k - 1]
    BY <1>1 DEF Execute, PipeStages, MAX_EXE_STAGES
  <2>2. ~NOP_INSTR.valid
    BY DEF NOP_INSTR
  <2>3. CASE k = 0
    BY <1>2, <2>1, <2>2, <2>3, PipeNext DEF product
  <2>4. CASE k # 0
    BY <1>2, <2>1, <2>4, PipeNext DEF StageResults
  <2> QED
    BY <2>3, <2>4
<1>3. exe_to_mem_q'.valid =>
        /\ exe_to_mem_q'.instr.wb_origin = "ALU"
             => exe_to_mem_q'.result = Value(exe_to_mem_q'.kanata_id)
        /\ exe_to_mem_q'.branch_taken = exe_to_mem_q'.instr.taken
  BY <1>1, LeavingResult DEF Execute, StageResults
<1>4. mem_to_wb_q'.valid =>
        /\ mem_to_wb_q'.result = Value(mem_to_wb_q'.kanata_id)
        /\ mem_to_wb_q'.branch_taken = mem_to_wb_q'.instr.taken
  <2>1. exe_to_mem_q.valid => mem_result = Value(exe_to_mem_q.kanata_id)
    BY DEF mem_result, StageResults
  <2> QED
    BY <1>1, <2>1, Finishes DEF Same, StageResults
<1> QED
  BY <1>2, <1>3, <1>4 DEF StageResults

----------------------------------------------------------------------------
(* Until an entry is reused too early. *)

CleanInv ==
  clean =>
    /\ ~EntryReused
    /\ OwnResults
    /\ shadow_id # MaxId =>
         \E i \in RB!Idx : rob_q[i].valid /\ rob_q[i].kanata_id = shadow_id
    /\ \A r \in Regs : r # REG_COUNT - 1 => registers_q[r] = last_writer[r]

LEMMA OldestFirst ==
  ASSUME TypeOK, Ring, rob_q[rob_head_ptr_q].valid,
         NEW i \in RB!Idx, rob_q[i].valid
  PROVE  /\ rob_q[rob_head_ptr_q].kanata_id <= rob_q[i].kanata_id
         /\ i # rob_head_ptr_q => rob_q[rob_head_ptr_q].kanata_id < rob_q[i].kanata_id
<1>1. /\ rob_head_ptr_q \in RB!Idx
      /\ rob_q[rob_head_ptr_q].kanata_id \in Nat /\ rob_q[i].kanata_id \in Nat
  BY DEF TypeOK, RB!Entry
<1>2. i = rob_head_ptr_q \/ RB!Dist(rob_head_ptr_q) < RB!Dist(i)
  BY <1>1, CoreSizeAssumption DEF RB!Dist, RB!Idx
<1> QED
  BY <1>1, <1>2 DEF Ring, RingAges

(* The head is on the right path: the shadow's branch is in the window, so *)
(* the head is not younger.                                                *)
LEMMA HeadOnPath ==
  ASSUME TypeOK, Ring, CleanInv, clean, rob_q[rob_head_ptr_q].valid
  PROVE  ~Doomed(rob_q[rob_head_ptr_q].kanata_id)
<1>1. /\ rob_head_ptr_q \in RB!Idx
      /\ rob_q[rob_head_ptr_q].kanata_id \in Nat
      /\ path_id <= rob_q[rob_head_ptr_q].kanata_id
      /\ rob_q[rob_head_ptr_q].kanata_id < NextId
      /\ shadow_id \in Nat /\ path_id \in Nat /\ NextId \in Nat /\ NextId <= MaxId
      /\ MaxId \in Nat
  BY CoreSizeAssumption DEF TypeOK, RB!Entry, Ring, RingIds, Ids, NextId
<1>2. CASE shadow_id = MaxId
  BY <1>1, <1>2 DEF Doomed
<1>3. CASE shadow_id # MaxId
  <2>1. PICK i \in RB!Idx : rob_q[i].valid /\ rob_q[i].kanata_id = shadow_id
    BY <1>3 DEF CleanInv
  <2> QED
    BY <1>1, <2>1, OldestFirst DEF Doomed
<1> QED
  BY <1>2, <1>3

(* A write-back to a valid entry is of the entry's own instruction.        *)
LEMMA WritesBackOwn ==
  ASSUME TypeOK, Ring, Travelling, StageResults, CleanInv, clean,
         NEW i \in RB!Idx, rob_q[i].valid,
         mem_to_wb_q.valid, mem_to_wb_q.rob_idx = i
  PROVE  /\ mem_to_wb_q.result = Value(rob_q[i].kanata_id)
         /\ ~Doomed(rob_q[i].kanata_id) =>
              (mem_to_wb_q.branch_taken <=> rob_q[i].kanata_id = shadow_id)
<1>1. mem_to_wb_q.kanata_id = rob_q[i].kanata_id
  BY DEF CleanInv, EntryReused, NamesOther
<1>2. /\ Carried(mem_to_wb_q.instr, i, mem_to_wb_q.kanata_id)
      /\ mem_to_wb_q.instr \in AnyInstr /\ mem_to_wb_q.kanata_id \in Ids
  BY HeldIsCarried
<1>3. /\ mem_to_wb_q.result = Value(mem_to_wb_q.kanata_id)
      /\ mem_to_wb_q.branch_taken = mem_to_wb_q.instr.taken
  BY DEF StageResults
<1>4. path_id <= mem_to_wb_q.kanata_id
  BY <1>1 DEF Ring, RingIds
<1>5. /\ mem_to_wb_q.instr.taken => shadow_id <= mem_to_wb_q.kanata_id
      /\ mem_to_wb_q.kanata_id = shadow_id => mem_to_wb_q.instr.taken
  BY <1>2, <1>4 DEF Travelling
<1>6. shadow_id \in Nat /\ mem_to_wb_q.kanata_id \in Nat
  BY <1>2, CoreSizeAssumption DEF TypeOK, Ids
<1> QED
  BY <1>1, <1>3, <1>5, <1>6 DEF Doomed

LEMMA CleanStep ==
  ASSUME TypeOK, Ring, Travelling, StageResults, CleanInv,
         NEW fetched \in BOOLEAN, NEW instr \in AnyInstr, NEW ready \in BOOLEAN,
         Cycle(fetched, instr, ready)
  PROVE  CleanInv'
<1> SUFFICES ASSUME clean'
             PROVE  /\ ~EntryReused'
                    /\ OwnResults'
                    /\ shadow_id' # MaxId =>
                         \E i \in RB!Idx : /\ rob_q'[i].valid
                                           /\ rob_q'[i].kanata_id = shadow_id'
                    /\ \A r \in Regs :
                         r # REG_COUNT - 1 => registers_q'[r] = last_writer'[r]
  BY DEF CleanInv
<1> DEFINE issued == Offered(fetched, ready).valid
<1>1. History(Offered(fetched, ready), stall_from_mem(ready)) /\ WriteRegisters
  BY EdgeFacts
<1>2. clean /\ ~EntryReused'
  BY <1>1 DEF History
<1>3. OwnResults
  BY <1>2 DEF CleanInv
<1>4. /\ NextId \in Nat /\ NextId <= MaxId /\ MaxId \in Nat
      /\ issued => decode_q.kanata_id = NextId /\ NextId < MaxId /\ ~Flush
      /\ Flush => shadow_id' = MaxId
      /\ ~Flush => path_id' = path_id
      /\ ~Flush => shadow_id' = IF issued /\ decode_q.instr.taken /\ shadow_id = MaxId
                                  THEN decode_q.kanata_id ELSE shadow_id
      /\ shadow_id \in Nat /\ path_id \in Nat
  BY <1>1, IdStep, RobInputs, CoreSizeAssumption
     DEF Ring, Ids, TypeOK, History, Flush
<1>5. rob_head_ptr_q \in RB!Idx /\ \A i \in RB!Idx : rob_q[i].kanata_id \in Nat
  BY DEF TypeOK, RB!Entry
<1>6. ASSUME NEW i \in RB!Idx, rob_q'[i].valid, rob_q'[i].completed
      PROVE  /\ rob_q'[i].write_enable => rob_q'[i].result = Value(rob_q'[i].kanata_id)
             /\ ~Doomed(rob_q[i].kanata_id)' =>
                  (rob_q'[i].branch_taken <=> rob_q'[i].kanata_id = shadow_id')
  <2>1. /\ ~Flush /\ rob_q[i].valid
        /\ rob_q'[i].kanata_id = rob_q[i].kanata_id
        /\ rob_q'[i].write_enable = rob_q[i].write_enable
        /\ \/ /\ mem_to_wb_q.valid /\ mem_to_wb_q.rob_idx = i
              /\ rob_q'[i].result = mem_to_wb_q.result
              /\ rob_q'[i].branch_taken = mem_to_wb_q.branch_taken
           \/ SameBut(rob_q'[i], rob_q[i])
    BY <1>6, Entries DEF Ring, SameBut
  <2>2. /\ rob_q'[i].write_enable => rob_q'[i].result = Value(rob_q[i].kanata_id)
        /\ ~Doomed(rob_q[i].kanata_id) =>
             (rob_q'[i].branch_taken <=> rob_q[i].kanata_id = shadow_id)
    BY <1>2, <1>3, <1>6, <2>1, WritesBackOwn DEF SameBut, OwnResults
  <2>3. rob_q[i].kanata_id < NextId
    BY <2>1 DEF Ring, RingIds
  <2>4. /\ Doomed(rob_q[i].kanata_id) => Doomed(rob_q[i].kanata_id)'
        /\ rob_q[i].kanata_id = shadow_id <=> rob_q[i].kanata_id = shadow_id'
    BY <1>4, <1>5, <2>1, <2>3 DEF Doomed
  <2> QED
    BY <2>1, <2>2, <2>4
<1>7. ASSUME shadow_id' # MaxId
      PROVE  \E i \in RB!Idx : rob_q'[i].valid /\ rob_q'[i].kanata_id = shadow_id'
  <2>1. ~Flush
    BY <1>4, <1>7
  <2>2. CASE issued /\ decode_q.instr.taken /\ shadow_id = MaxId
    <3>1. rob_tail_ptr_q \in RB!Idx /\ ~rob_q[rob_tail_ptr_q].valid
      BY TailIsFree DEF TypeOK, Ring
    <3>2. ~(Commit /\ rob_tail_ptr_q = rob_head_ptr_q)
      BY <3>1 DEF Commit, RB!commit_valid_o
    <3>3. /\ rob_q'[rob_tail_ptr_q].valid
          /\ rob_q'[rob_tail_ptr_q].kanata_id = decode_q.kanata_id
      BY <2>1, <2>2, <3>1, <3>2, Entries DEF Ring
    <3> QED
      BY <1>4, <2>1, <2>2, <3>1, <3>3
  <2>3. CASE ~(issued /\ decode_q.instr.taken /\ shadow_id = MaxId)
    <3>1. shadow_id' = shadow_id
      BY <1>4, <2>1, <2>3
    <3>2. PICK i \in RB!Idx : rob_q[i].valid /\ rob_q[i].kanata_id = shadow_id
      BY <1>2, <1>7, <3>1 DEF CleanInv
    (* When the branch commits, it flushes. *)
    <3>3. ~(Commit /\ i = rob_head_ptr_q)
      <4>1. SUFFICES ASSUME Commit, i = rob_head_ptr_q
                     PROVE  FALSE
        OBVIOUS
      <4>2. ~Doomed(rob_q[i].kanata_id)
        BY <1>2, <3>2, <4>1, HeadOnPath
      <4>3. rob_q[i].completed
        BY <4>1 DEF Commit, RB!commit_valid_o
      <4>4. rob_q[i].branch_taken
        BY <1>3, <3>2, <4>2, <4>3 DEF OwnResults
      <4> QED
        BY <2>1, <4>1, <4>4 DEF Flush, Commit, RB!commit_branch_taken_o
    <3>4. rob_q'[i].valid /\ rob_q'[i].kanata_id = rob_q[i].kanata_id
      BY <2>1, <3>2, <3>3, Entries DEF Ring
    <3> QED
      BY <3>1, <3>2, <3>4
  <2> QED
    BY <2>2, <2>3
<1>8. ASSUME NEW r \in Regs, r # REG_COUNT - 1
      PROVE  registers_q'[r] = last_writer'[r]
  <2>1. /\ registers_q'[r] = IF r \in 1 .. REG_COUNT - 2 /\ CommitWrites(r)
                               THEN rob_q[rob_head_ptr_q].result ELSE registers_q[r]
        /\ last_writer'[r] = IF r # 0 /\ CommitWrites(r)
                               THEN Value(rob_q[rob_head_ptr_q].kanata_id)
                               ELSE last_writer[r]
    BY <1>1 DEF WriteRegisters, History
  <2>2. r \in 1 .. REG_COUNT - 2 <=> r # 0
    BY <1>8, CoreSizeAssumption DEF Regs
  <2>3. CommitWrites(r) => rob_q[rob_head_ptr_q].result
                             = Value(rob_q[rob_head_ptr_q].kanata_id)
    BY <1>3, <1>5 DEF CommitWrites, RB!commit_valid_o, OwnResults
  <2>4. registers_q[r] = last_writer[r]
    BY <1>2, <1>8 DEF CleanInv
  <2> QED
    BY <2>1, <2>2, <2>3, <2>4
<1> QED
  BY <1>2, <1>6, <1>7, <1>8 DEF OwnResults

----------------------------------------------------------------------------
(* Nothing is lost.  An instruction is followed by its id; the stage that  *)
(* stalls keeps it, and the one before it does too, except for the pipe of *)
(* the multiplications.                                                    *)

LEMMA HeldStep ==
  ASSUME TypeOK, Ring, Travelling, NothingLost,
         NEW fetched \in BOOLEAN, NEW instr \in AnyInstr, NEW ready \in BOOLEAN,
         Cycle(fetched, instr, ready)
  PROVE  NothingLost'
<1> DEFINE stalled == stall(fetched, ready)
           frozen == stall_from_mem(ready)
           last == MAX_EXE_STAGES - 2
<1> SUFFICES ASSUME ~dropped', NEW i \in RB!Idx,
                    rob_q'[i].valid, ~rob_q'[i].completed
             PROVE  \/ Holds(decode_to_exe_q', rob_q'[i])
                    \/ \E k \in PipeStages : Holds(exe_pipe_q'[k], rob_q'[i])
                    \/ Holds(exe_to_mem_q', rob_q'[i])
                    \/ Holds(mem_to_wb_q', rob_q'[i])
  BY DEF NothingLost, PipeStages, Holds
<1>1. /\ ~stalled => ~stall_from_exe /\ ~frozen
      /\ NextExe(stalled, stall_from_exe \/ frozen, Offered(fetched, ready))
      /\ Execute(frozen)
      /\ mem_to_wb_q' = mem_to_wb_d(ready)
      /\ History(Offered(fetched, ready), frozen)
  BY EdgeFacts
<1>2. ~dropped /\ ~(frozen /\ exe_pipe_q[last].valid)
  BY <1>1 DEF History, DropsMul
<1>3. /\ exe_to_mem_q' = IF frozen THEN exe_to_mem_q ELSE exe_to_mem_d
      /\ \A k \in PipeStages : exe_pipe_q'[k] = exe_pipe_d(k)
      /\ decode_to_exe_q' =
           CASE ~stalled -> [valid |-> Offered(fetched, ready).valid,
                             instr |-> decode_q.instr, rob_idx |-> rob_tail_ptr_q,
                             kanata_id |-> decode_q.kanata_id]
             [] stalled /\ ~(stall_from_exe \/ frozen) -> NOP_INSTR
             [] OTHER -> decode_to_exe_q
  BY <1>1 DEF Execute, PipeStages, NextExe
<1>4. CASE Offered(fetched, ready).valid /\ i = rob_tail_ptr_q
  <2>1. ~stalled /\ rob_q'[i].kanata_id = decode_q.kanata_id
    BY <1>4, RobInputs, Entries DEF Ring
  <2>2. Holds(decode_to_exe_q', rob_q'[i])
    BY <1>3, <1>4, <2>1 DEF Holds
  <2> QED
    BY <2>2
<1>5. CASE ~(Offered(fetched, ready).valid /\ i = rob_tail_ptr_q)
  <2>1. /\ rob_q[i].valid /\ ~rob_q[i].completed
        /\ rob_q'[i].kanata_id = rob_q[i].kanata_id
        /\ ~(mem_to_wb_q.valid /\ i = mem_to_wb_q.rob_idx)
    BY <1>5, Entries DEF Ring, SameBut
  <2>2. \/ Holds(decode_to_exe_q, rob_q[i])
        \/ \E k \in PipeStages : Holds(exe_pipe_q[k], rob_q[i])
        \/ Holds(exe_to_mem_q, rob_q[i])
        \/ Holds(mem_to_wb_q, rob_q[i])
    BY <1>2, <2>1 DEF NothingLost, PipeStages
  <2>3. CASE Holds(decode_to_exe_q, rob_q[i])
    <3>1. CASE stall_from_exe \/ frozen
      BY <1>1, <1>3, <2>1, <2>3, <3>1 DEF Holds
    <3>2. CASE ~stall_from_exe /\ ~frozen /\ decode_to_exe_q.instr.is_mul
      <4>1. 0 \in PipeStages
        BY CoreSizeAssumption DEF PipeStages, MAX_EXE_STAGES
      <4> QED
        BY <1>3, <2>1, <2>3, <3>2, <4>1, PipeNext DEF Holds
    <3>3. CASE ~stall_from_exe /\ ~frozen /\ ~decode_to_exe_q.instr.is_mul
      BY <1>3, <2>1, <2>3, <3>3, Leaves DEF Holds, Same
    <3> QED
      BY <3>1, <3>2, <3>3
  <2>4. ASSUME NEW k \in PipeStages, Holds(exe_pipe_q[k], rob_q[i])
        PROVE  \/ \E j \in PipeStages : Holds(exe_pipe_q'[j], rob_q'[i])
               \/ Holds(exe_to_mem_q', rob_q'[i])
    <3>1. CASE k = last
      BY <1>2, <1>3, <2>1, <2>4, <3>1, Leaves DEF Holds, Same
    <3>2. CASE k # last
      <4>1. k + 1 \in PipeStages /\ k + 1 # 0 /\ (k + 1) - 1 = k
        BY <3>2, CoreSizeAssumption DEF PipeStages, MAX_EXE_STAGES
      <4>2. exe_pipe_q'[k + 1] = exe_pipe_q[k]
        BY <1>3, <4>1, PipeNext
      <4> QED
        BY <2>1, <2>4, <4>1, <4>2 DEF Holds
    <3> QED
      BY <3>1, <3>2
  <2>5. CASE Holds(exe_to_mem_q, rob_q[i])
    <3>1. CASE frozen
      BY <1>3, <2>1, <2>5, <3>1 DEF Holds
    <3>2. CASE ~frozen
      <4>1. mem_to_wb_d(ready).valid
        BY <2>5, <3>2 DEF mem_to_wb_d, ToWb, mem_valid, stall_from_mem, Holds,
                          is_load, is_store
      <4> QED
        BY <1>1, <2>1, <2>5, <4>1, Finishes DEF Holds, Same
    <3> QED
      BY <3>1, <3>2
  (* What is in write-back names its own entry and completes it. *)
  <2>6. CASE Holds(mem_to_wb_q, rob_q[i])
    <3>1. /\ Carried(mem_to_wb_q.instr, mem_to_wb_q.rob_idx, mem_to_wb_q.kanata_id)
          /\ mem_to_wb_q.instr \in AnyInstr /\ mem_to_wb_q.rob_idx \in RB!Idx
          /\ mem_to_wb_q.kanata_id \in Ids
      BY <2>6, HeldIsCarried DEF Holds
    <3>2. mem_to_wb_q.rob_idx = i
      BY <2>1, <2>6, <3>1 DEF Travelling, Holds
    <3> QED
      BY <2>1, <2>6, <3>2 DEF Holds
  <2> QED
    BY <2>2, <2>3, <2>4, <2>5, <2>6
<1> QED
  BY <1>4, <1>5

----------------------------------------------------------------------------
(* The store buffer.  Its window depends on nothing outside. *)

SbIn(fetched, ready) == SbInput(Offered(fetched, ready), ready)

LEMMA SlotEdge ==
  ASSUME TypeOK, RB!WindowInv,
         NEW fetched \in BOOLEAN, NEW instr \in AnyInstr, NEW ready \in BOOLEAN,
         Cycle(fetched, instr, ready)
  PROVE  LET in == SbIn(fetched, ready)
         IN  /\ \A i \in SB!Idx :
                  LET e == store_buffer_q[i]
                      f == store_buffer_q'[i]
                      taken == SB!Accepts(in) /\ i = sb_tail_ptr_q
                  IN  /\ f.valid <=> /\ taken \/ e.valid
                                     /\ ~(SB!FreesHead(in) /\ i = sb_head_ptr_q)
                      /\ f.committed <=> \/ ~taken /\ e.committed
                                         \/ in.commit /\ i = in.idx_commit
                      /\ f.discarded <=> \/ ~taken /\ e.discarded
                                         \/ i \in in.discard
                      /\ f.data = IF taken THEN in.data ELSE e.data
             /\ sb_head_ptr_q' =
                  IF SB!FreesHead(in)
                    THEN IF sb_head_ptr_q = STORE_BUFFER_SIZE - 1 THEN 0
                                                                  ELSE sb_head_ptr_q + 1
                    ELSE sb_head_ptr_q
             /\ sb_tail_ptr_q' =
                  IF SB!Accepts(in)
                    THEN IF sb_tail_ptr_q = STORE_BUFFER_SIZE - 1 THEN 0
                                                                  ELSE sb_tail_ptr_q + 1
                    ELSE sb_tail_ptr_q
<1>1. SB!Clock(SbIn(fetched, ready))
  BY EdgeFacts DEF SbIn
<1>2. SbIn(fetched, ready) \in SB!Input
  BY SlotInput, TailIsFree DEF SbIn
<1>3. sb_head_ptr_q \in SB!Idx /\ sb_tail_ptr_q \in SB!Idx
  BY DEF TypeOK
<1> HIDE DEF SbIn
<1> QED
  BY <1>1, <1>2, <1>3, NextSlots, SlotSuccLemma DEF SB!Clock

LEMMA SlotWindowStep ==
  ASSUME TypeOK, RB!WindowInv, SB!WindowInv,
         NEW fetched \in BOOLEAN, NEW instr \in AnyInstr, NEW ready \in BOOLEAN,
         Cycle(fetched, instr, ready)
  PROVE  SB!WindowInv'
<1> DEFINE N == STORE_BUFFER_SIZE
           v(i) == store_buffer_q[i].valid
           acc == SB!Accepts(SbIn(fetched, ready))
           fr  == SB!FreesHead(SbIn(fetched, ready))
<1>1. sb_head_ptr_q \in SB!Idx /\ sb_tail_ptr_q \in SB!Idx
  BY DEF TypeOK
<1>2. /\ fr => v(sb_head_ptr_q)
      /\ acc => (sb_tail_ptr_q = sb_head_ptr_q => ~v(sb_head_ptr_q))
  BY DEF SB!FreesHead, SB!rsp_valid_o, SB!DropsHead, SB!Accepts, SB!req_ready_o
<1>3. /\ sb_head_ptr_q' = IF fr THEN (IF sb_head_ptr_q = N - 1 THEN 0
                                                              ELSE sb_head_ptr_q + 1)
                                ELSE sb_head_ptr_q
      /\ sb_tail_ptr_q' = IF acc THEN (IF sb_tail_ptr_q = N - 1 THEN 0
                                                               ELSE sb_tail_ptr_q + 1)
                                 ELSE sb_tail_ptr_q
      /\ \A i \in SB!Idx : store_buffer_q'[i].valid <=>
                             /\ (acc /\ i = sb_tail_ptr_q) \/ v(i)
                             /\ ~(fr /\ i = sb_head_ptr_q)
  BY SlotEdge
<1>4. sb_head_ptr_q' \in SB!Idx /\ sb_tail_ptr_q' \in SB!Idx
  BY <1>1, <1>3, CoreSizeAssumption DEF SB!Idx
<1> SUFFICES ASSUME NEW i \in SB!Idx
             PROVE  store_buffer_q'[i].valid <=> SB!Dist(i)' < SB!Count'
  BY DEF SB!WindowInv
<1>5. /\ v(i) <=> SB!Dist(i) < SB!Count
      /\ v(sb_head_ptr_q) <=> SB!Dist(sb_head_ptr_q) < SB!Count
      /\ store_buffer_q[sb_head_ptr_q'].valid <=> SB!Dist(sb_head_ptr_q') < SB!Count
      /\ store_buffer_q'[sb_head_ptr_q'].valid <=>
           /\ (acc /\ sb_head_ptr_q' = sb_tail_ptr_q)
                \/ store_buffer_q[sb_head_ptr_q'].valid
           /\ ~(fr /\ sb_head_ptr_q' = sb_head_ptr_q)
      /\ store_buffer_q'[i].valid <=> /\ (acc /\ i = sb_tail_ptr_q) \/ v(i)
                                      /\ ~(fr /\ i = sb_head_ptr_q)
  BY <1>1, <1>3, <1>4 DEF SB!WindowInv
<1> HIDE DEF acc, fr
<1>6. CASE acc /\ fr
  BY <1>1, <1>2, <1>3, <1>5, <1>6, CoreSizeAssumption DEF SB!Dist, SB!Count, SB!Idx
<1>7. CASE acc /\ ~fr
  BY <1>1, <1>2, <1>3, <1>5, <1>7, CoreSizeAssumption DEF SB!Dist, SB!Count, SB!Idx
<1>8. CASE ~acc /\ fr
  BY <1>1, <1>2, <1>3, <1>5, <1>8, CoreSizeAssumption DEF SB!Dist, SB!Count, SB!Idx
<1>9. CASE ~acc /\ ~fr
  BY <1>1, <1>2, <1>3, <1>5, <1>9, CoreSizeAssumption DEF SB!Dist, SB!Count, SB!Idx
<1> QED
  BY <1>6, <1>7, <1>8, <1>9

(* The ages of the slots over an edge: a taken slot is younger than every  *)
(* store in the buffer, and a freed head is a decided one.                 *)
LEMMA SlotAges ==
  ASSUME TypeOK, RB!WindowInv, SB!WindowInv,
         NEW fetched \in BOOLEAN, NEW instr \in AnyInstr, NEW ready \in BOOLEAN,
         Cycle(fetched, instr, ready)
  PROVE  LET in == SbIn(fetched, ready)
         IN  /\ SB!Accepts(in) =>
                  /\ ~store_buffer_q[sb_tail_ptr_q].valid
                  /\ \A i \in SB!Idx :
                       store_buffer_q[i].valid => SB!Dist(i) < SB!Dist(sb_tail_ptr_q)
             /\ SB!FreesHead(in) => ~SB!Speculative(sb_head_ptr_q)
             /\ \A i \in SB!Idx :
                  /\ SB!Dist(i) \in Int
                  /\ ~(SB!FreesHead(in) /\ i = sb_head_ptr_q) =>
                       SB!Dist(i)' = IF SB!FreesHead(in) THEN SB!Dist(i) - 1
                                                         ELSE SB!Dist(i)
<1> DEFINE in == SbIn(fetched, ready)
<1>1. sb_head_ptr_q \in SB!Idx /\ sb_tail_ptr_q \in SB!Idx
  BY DEF TypeOK
<1>2. SB!FreesHead(in) => ~SB!Speculative(sb_head_ptr_q)
  BY DEF SB!FreesHead, SB!rsp_valid_o, SB!DropsHead, SB!Speculative
<1>3. \A i \in SB!Idx : SB!Dist(i) \in Int
  BY <1>1, CoreSizeAssumption DEF SB!Dist, SB!Idx
<1>4. ASSUME SB!Accepts(in)
      PROVE  /\ ~store_buffer_q[sb_tail_ptr_q].valid
             /\ \A i \in SB!Idx :
                  store_buffer_q[i].valid => SB!Dist(i) < SB!Dist(sb_tail_ptr_q)
  <2>1. sb_tail_ptr_q = sb_head_ptr_q => ~store_buffer_q[sb_head_ptr_q].valid
    BY <1>4 DEF SB!Accepts, SB!req_ready_o
  <2>2. SB!Count <= SB!Dist(sb_tail_ptr_q) /\ SB!Count \in Int
    BY <1>1, <1>3, <2>1, CoreSizeAssumption DEF SB!Count, SB!Dist, SB!Idx
  <2> QED
    BY <1>1, <1>3, <2>2 DEF SB!WindowInv
<1>5. sb_head_ptr_q' = IF SB!FreesHead(in)
                         THEN IF sb_head_ptr_q = STORE_BUFFER_SIZE - 1 THEN 0
                                                                       ELSE sb_head_ptr_q + 1
                         ELSE sb_head_ptr_q
  BY SlotEdge
<1> HIDE DEF in
<1>6. ASSUME NEW i \in SB!Idx, ~(SB!FreesHead(in) /\ i = sb_head_ptr_q)
      PROVE  SB!Dist(i)' = IF SB!FreesHead(in) THEN SB!Dist(i) - 1 ELSE SB!Dist(i)
  BY <1>1, <1>5, <1>6, CoreSizeAssumption DEF SB!Dist, SB!Idx
<1> QED
  BY <1>2, <1>3, <1>4, <1>6 DEF in

----------------------------------------------------------------------------
(* Where the stores are.  Execute holds nothing younger than the           *)
(* instruction in front of it, although a multiplication that waits for    *)
(* memory in front of execute enters its pipe once a cycle.                *)

Order ==
  decode_to_exe_q.valid =>
    /\ \A k \in PipeStages : exe_pipe_q[k].valid =>
         /\ exe_pipe_q[k].kanata_id <= decode_to_exe_q.kanata_id
         /\ ~decode_to_exe_q.instr.is_mul =>
              exe_pipe_q[k].kanata_id < decode_to_exe_q.kanata_id
    /\ exe_to_mem_q.valid => exe_to_mem_q.kanata_id < decode_to_exe_q.kanata_id

LEMMA OrderStep ==
  ASSUME TypeOK, Ring, Travelling, Order,
         NEW fetched \in BOOLEAN, NEW instr \in AnyInstr, NEW ready \in BOOLEAN,
         Cycle(fetched, instr, ready)
  PROVE  Order'
<1> DEFINE stalled == stall(fetched, ready)
           frozen == stall_from_mem(ready)
           last == exe_pipe_q[MAX_EXE_STAGES - 2]
<1>1. /\ ~stalled => ~stall_from_exe /\ ~frozen
      /\ NextExe(stalled, stall_from_exe \/ frozen, Offered(fetched, ready))
      /\ Execute(frozen)
  BY EdgeFacts
<1>2. /\ exe_to_mem_q' = IF frozen THEN exe_to_mem_q ELSE exe_to_mem_d
      /\ \A k \in PipeStages : exe_pipe_q'[k] = exe_pipe_d(k)
  BY <1>1 DEF Execute, PipeStages
<1>3. MAX_EXE_STAGES - 2 \in PipeStages
  BY CoreSizeAssumption DEF PipeStages, MAX_EXE_STAGES
<1>4. /\ decode_to_exe_q.kanata_id \in Nat /\ exe_to_mem_q.kanata_id \in Nat
      /\ decode_to_exe_q.instr.is_mul \in BOOLEAN
      /\ \A k \in PipeStages : exe_pipe_q[k].kanata_id \in Nat
  <2>1. /\ decode_to_exe_q \in Op /\ exe_to_mem_q \in MemOp
        /\ \A k \in PipeStages : exe_pipe_q[k] \in Op
    BY DEF TypeOK, PipeStages
  <2>2. Ids \subseteq Nat
    BY CoreSizeAssumption DEF Ids
  <2> QED
    BY <2>1, <2>2, InstrFacts DEF Op, MemOp, Instr
<1>5. CASE ~stalled /\ Offered(fetched, ready).valid
  <2>1. decode_to_exe_q'.kanata_id = NextId
    BY <1>1, <1>5, RobInputs DEF NextExe, NextId
  <2>2. /\ decode_to_exe_q.valid => decode_to_exe_q.kanata_id < NextId
        /\ exe_to_mem_q.valid => exe_to_mem_q.kanata_id < NextId
        /\ \A k \in PipeStages : exe_pipe_q[k].valid => exe_pipe_q[k].kanata_id < NextId
    BY HeldIsCarried DEF Travelling
  <2>3. NextId \in Nat
    BY IdStep, CoreSizeAssumption DEF Ring, Ids
  <2>4. ~NOP_INSTR.valid
    BY DEF NOP_INSTR
  <2>5. \A k \in PipeStages : exe_pipe_q'[k].valid => exe_pipe_q'[k].kanata_id < NextId
    BY <1>2, <2>2, <2>4, PipeNext
  <2>6. exe_to_mem_q'.valid => exe_to_mem_q'.kanata_id < NextId
    BY <1>2, <1>3, <2>2, Leaves DEF Same
  <2>7. \A k \in PipeStages : exe_pipe_q'[k].valid =>
          exe_pipe_q'[k].kanata_id <= NextId
    <3>1. \A k \in PipeStages : exe_pipe_q'[k].valid => exe_pipe_q'[k].kanata_id \in Nat
      BY <1>2, <1>4, <2>4, PipeNext
    <3> QED
      BY <2>3, <2>5, <3>1
  <2> QED
    BY <2>1, <2>5, <2>6, <2>7 DEF Order, PipeStages
<1>6. CASE ~stalled /\ ~Offered(fetched, ready).valid
  BY <1>1, <1>6 DEF NextExe, Order
<1>7. CASE stalled /\ ~(stall_from_exe \/ frozen)
  BY <1>1, <1>7 DEF NextExe, Order, NOP_INSTR
<1>8. CASE stalled /\ (stall_from_exe \/ frozen)
  <2>1. decode_to_exe_q' = decode_to_exe_q
    BY <1>1, <1>8 DEF NextExe
  <2> SUFFICES ASSUME decode_to_exe_q.valid
               PROVE  /\ \A k \in PipeStages : exe_pipe_q'[k].valid =>
                           /\ exe_pipe_q'[k].kanata_id <= decode_to_exe_q.kanata_id
                           /\ ~decode_to_exe_q.instr.is_mul =>
                                exe_pipe_q'[k].kanata_id < decode_to_exe_q.kanata_id
                      /\ exe_to_mem_q'.valid =>
                           exe_to_mem_q'.kanata_id < decode_to_exe_q.kanata_id
    BY <2>1 DEF Order, PipeStages
  <2>2. ASSUME NEW k \in PipeStages, exe_pipe_q'[k].valid
        PROVE  /\ exe_pipe_q'[k].kanata_id <= decode_to_exe_q.kanata_id
               /\ ~decode_to_exe_q.instr.is_mul =>
                    exe_pipe_q'[k].kanata_id < decode_to_exe_q.kanata_id
    <3>1. exe_pipe_q'[k] = exe_pipe_d(k) /\ ~NOP_INSTR.valid
      BY <1>2 DEF NOP_INSTR
    <3> QED
      BY <1>4, <2>2, <3>1, PipeNext DEF Order
  <2>3. ASSUME ~frozen, exe_to_mem_d.valid
        PROVE  exe_to_mem_d.kanata_id < decode_to_exe_q.kanata_id
    (* Only the last stage of the pipe can have stalled execute, and a      *)
    (* multiplication enters the pipe at the other end.                     *)
    <3>1. stall_from_exe
      BY <1>8, <2>3
    <3>2. ~decode_to_exe_q.instr.is_mul
      BY <3>1 DEF stall_from_exe, EntryStage, Shifted, NOP_INSTR
    <3>3. last.valid /\ Same(exe_to_mem_d, last)
      BY <2>3, <3>1, Leaves
    <3> QED
      BY <1>3, <3>2, <3>3 DEF Order, Same
  <2> QED
    BY <1>2, <2>2, <2>3 DEF Order
<1> QED
  BY <1>5, <1>6, <1>7, <1>8

(* A store in flight is older than the instruction in execute and than a   *)
(* store in the memory stage, writes back once, and never flushes.  The    *)
(* order of the slots is stated by the ids of their stores.                *)
StoreSlots ==
  clean =>
    /\ \A j \in StoresInFlight :
         /\ decode_to_exe_q.valid => rob_q[j].kanata_id < decode_to_exe_q.kanata_id
         /\ is_store => rob_q[j].kanata_id < exe_to_mem_q.kanata_id
         /\ rob_q[j].completed => ~WritesBack(j) /\ ~rob_q[j].branch_taken
    /\ \A s \in SB!Idx :
         SB!Speculative(s) <=> \E j \in StoresInFlight : SlotOf(j) = s
    /\ \A i, j \in StoresInFlight :
         rob_q[i].kanata_id < rob_q[j].kanata_id
           => SB!Dist(SlotOf(i)) < SB!Dist(SlotOf(j))
    /\ \A s, t \in SB!Idx :
         (store_buffer_q[s].valid /\ ~SB!Speculative(s) /\ SB!Speculative(t))
           => SB!Dist(s) < SB!Dist(t)

(* What leaves the memory stage for an entry is the entry's instruction.   *)
LEMMA LeavesMemory ==
  ASSUME TypeOK, Ring, Travelling,
         NEW fetched \in BOOLEAN, NEW instr \in AnyInstr, NEW ready \in BOOLEAN,
         Cycle(fetched, instr, ready), clean', mem_valid(ready),
         NEW j \in RB!Idx, j = exe_to_mem_q.rob_idx, rob_q'[j].valid
  PROVE  /\ exe_to_mem_q.valid /\ exe_to_mem_q.instr \in AnyInstr
         /\ rob_q[j].valid /\ rob_q'[j].kanata_id = rob_q[j].kanata_id
         /\ rob_q[j].kanata_id = exe_to_mem_q.kanata_id
         /\ rob_q'[j].store_to_mem = rob_q[j].store_to_mem
         /\ rob_q[j].store_to_mem = exe_to_mem_q.instr.store_to_mem
<1> DEFINE new == Offered(fetched, ready).valid /\ j = rob_tail_ptr_q
<1>1. exe_to_mem_q.valid
  BY DEF mem_valid, is_load, is_store
<1>2. rob_q'[j].kanata_id = exe_to_mem_q.kanata_id
  <2>1. mem_to_wb_q' = mem_to_wb_d(ready) /\ ~EntryReused'
    BY EdgeFacts DEF History
  <2> QED
    BY <2>1 DEF mem_to_wb_d, ToWb, EntryReused, NamesOther
<1>3. /\ Carried(exe_to_mem_q.instr, j, exe_to_mem_q.kanata_id)
      /\ exe_to_mem_q.instr \in AnyInstr /\ exe_to_mem_q.kanata_id \in Ids
  BY <1>1, HeldIsCarried
<1>4. ~new
  <2>1. exe_to_mem_q.kanata_id < NextId
    BY <1>3 DEF Travelling
  <2>2. new => rob_q'[j].kanata_id = NextId /\ NextId \in Nat
    BY Entries, IdStep, CoreSizeAssumption DEF Ring, Ids
  <2> QED
    BY <1>2, <2>1, <2>2
<1>5. /\ rob_q[j].valid /\ rob_q'[j].kanata_id = rob_q[j].kanata_id
      /\ rob_q'[j].store_to_mem = rob_q[j].store_to_mem
  <2>1. RB!WindowInv
    BY DEF Ring
  <2>2. /\ rob_q'[j].valid => new \/ rob_q[j].valid
        /\ ~new => /\ rob_q'[j].kanata_id = rob_q[j].kanata_id
                   /\ rob_q'[j].store_to_mem = rob_q[j].store_to_mem
    BY <2>1, Entries
  <2> QED
    BY <1>4, <2>2
<1> QED
  BY <1>1, <1>2, <1>3, <1>5 DEF Travelling

(* A store that writes back has taken its slot in the cycle before, and    *)
(* the other way round, as long as its entry is its own.                   *)
LEMMA TakesSlot ==
  ASSUME TypeOK, Ring, Travelling, CleanInv, StoreSlots,
         NEW fetched \in BOOLEAN, NEW instr \in AnyInstr, NEW ready \in BOOLEAN,
         Cycle(fetched, instr, ready), clean',
         NEW j \in RB!Idx, rob_q'[j].valid, rob_q'[j].store_to_mem
  PROVE  /\ WritesBack(j)' <=> SB!Accepts(SbIn(fetched, ready)) /\ j = exe_to_mem_q.rob_idx
         /\ WritesBack(j)' =>
              /\ is_store /\ rob_q[j].valid /\ rob_q[j].store_to_mem
              /\ rob_q'[j].kanata_id = rob_q[j].kanata_id
              /\ rob_q[j].kanata_id = exe_to_mem_q.kanata_id
              /\ j \notin StoresInFlight /\ ~rob_q'[j].completed
              /\ SlotOf(j)' = sb_tail_ptr_q
<1>1. /\ clean /\ mem_to_wb_q' = mem_to_wb_d(ready)
      /\ rob_q' = RB!rob_d(Offered(fetched, ready), RobWb)
  BY EdgeFacts DEF History
<1>2. /\ mem_to_wb_q'.valid = mem_valid(ready)
      /\ mem_to_wb_q'.rob_idx = exe_to_mem_q.rob_idx
      /\ mem_to_wb_q'.kanata_id = exe_to_mem_q.kanata_id
      /\ mem_to_wb_q'.store_buffer_idx = sb_tail_ptr_q
  BY <1>1 DEF mem_to_wb_d, ToWb, SB!store_buffer_idx_o
<1>3. SB!Accepts(SbIn(fetched, ready)) <=>
        /\ is_store /\ SB!req_ready_o
        /\ rob_q'[exe_to_mem_q.rob_idx].valid
  BY <1>1 DEF SB!Accepts, SbIn, SbInput, RB!still_alive_o
(* Whoever leaves memory for entry j is j's own instruction, a store.      *)
<1>4. ASSUME exe_to_mem_q.rob_idx = j, mem_valid(ready)
      PROVE  /\ rob_q[j].valid /\ rob_q[j].store_to_mem
             /\ rob_q'[j].kanata_id = rob_q[j].kanata_id
             /\ rob_q[j].kanata_id = exe_to_mem_q.kanata_id
             /\ is_store /\ ~is_load
  BY <1>4, LeavesMemory, InstrFacts DEF is_store, is_load
<1>5. WritesBack(j)' <=> mem_valid(ready) /\ exe_to_mem_q.rob_idx = j
  BY <1>2 DEF WritesBack
<1>6. WritesBack(j)' <=> SB!Accepts(SbIn(fetched, ready)) /\ j = exe_to_mem_q.rob_idx
  <2>1. ASSUME WritesBack(j)'
        PROVE  SB!Accepts(SbIn(fetched, ready)) /\ j = exe_to_mem_q.rob_idx
    <3>1. is_store /\ ~is_load /\ mem_valid(ready) /\ exe_to_mem_q.rob_idx = j
      BY <1>4, <1>5, <2>1
    <3>2. SB!req_ready_o
      BY <3>1 DEF mem_valid
    <3> QED
      BY <1>3, <3>1, <3>2
  <2>2. ASSUME SB!Accepts(SbIn(fetched, ready)), j = exe_to_mem_q.rob_idx
        PROVE  WritesBack(j)'
    <3>1. mem_valid(ready)
      BY <1>3, <2>2 DEF mem_valid
    <3> QED
      BY <1>5, <2>2, <3>1
  <2> QED
    BY <2>1, <2>2
<1>7. ASSUME WritesBack(j)'
      PROVE  /\ is_store /\ rob_q[j].valid /\ rob_q[j].store_to_mem
             /\ rob_q'[j].kanata_id = rob_q[j].kanata_id
             /\ rob_q[j].kanata_id = exe_to_mem_q.kanata_id
             /\ j \notin StoresInFlight /\ ~rob_q'[j].completed
             /\ SlotOf(j)' = sb_tail_ptr_q
  <2>1. /\ is_store /\ rob_q[j].valid /\ rob_q[j].store_to_mem
        /\ rob_q'[j].kanata_id = rob_q[j].kanata_id
        /\ rob_q[j].kanata_id = exe_to_mem_q.kanata_id
    BY <1>4, <1>5, <1>7
  <2>2. rob_q[j].kanata_id \in Nat
    BY DEF TypeOK, RB!Entry
  <2>3. j \notin StoresInFlight
    BY <1>1, <2>1, <2>2 DEF StoreSlots
  <2>4. ~rob_q[j].completed /\ ~WritesBack(j)
    BY <2>1, <2>3 DEF StoresInFlight
  <2>5. ~rob_q'[j].completed
    BY <2>1, <2>4, Entries DEF Ring, SameBut, WritesBack
  <2> QED
    BY <1>2, <2>1, <2>3, <2>5 DEF SlotOf
<1> QED
  BY <1>6, <1>7

(* The stores in flight after an edge without a flush.                     *)
LEMMA FlightStep ==
  ASSUME TypeOK, Ring, Travelling, CleanInv, StoreSlots,
         NEW fetched \in BOOLEAN, NEW instr \in AnyInstr, NEW ready \in BOOLEAN,
         Cycle(fetched, instr, ready), clean', ~Flush
  PROVE  /\ \A j \in StoresInFlight :
              ~(Commit /\ j = rob_head_ptr_q) =>
                /\ j \in StoresInFlight' /\ rob_q'[j].completed
                /\ SlotOf(j)' = SlotOf(j)
                /\ rob_q'[j].kanata_id = rob_q[j].kanata_id
         /\ SB!Accepts(SbIn(fetched, ready)) =>
              \E j \in StoresInFlight' : SlotOf(j)' = sb_tail_ptr_q
         /\ \A j \in StoresInFlight' :
              \/ j \in StoresInFlight /\ ~(Commit /\ j = rob_head_ptr_q)
              \/ /\ SB!Accepts(SbIn(fetched, ready))
                 /\ j = exe_to_mem_q.rob_idx /\ is_store
                 /\ rob_q'[j].kanata_id = exe_to_mem_q.kanata_id
                 /\ ~rob_q'[j].completed
                 /\ SlotOf(j)' = sb_tail_ptr_q
<1> DEFINE acc == SB!Accepts(SbIn(fetched, ready))
<1>1. clean /\ rob_q' = RB!rob_d(Offered(fetched, ready), RobWb)
  BY EdgeFacts DEF History
<1>2. ASSUME NEW j \in StoresInFlight, ~(Commit /\ j = rob_head_ptr_q)
      PROVE  /\ j \in StoresInFlight' /\ rob_q'[j].completed
             /\ SlotOf(j)' = SlotOf(j)
             /\ rob_q'[j].kanata_id = rob_q[j].kanata_id
  <2>1. /\ j \in RB!Idx /\ rob_q[j].valid /\ rob_q[j].store_to_mem
        /\ rob_q[j].completed \/ WritesBack(j)
        /\ rob_q[j].completed => ~WritesBack(j)
    BY <1>1 DEF StoresInFlight, StoreSlots
  <2>2. ~rob_q[rob_tail_ptr_q].valid
    BY TailIsFree DEF Ring
  <2>3. /\ rob_q'[j].valid /\ rob_q'[j].store_to_mem = rob_q[j].store_to_mem
        /\ rob_q'[j].kanata_id = rob_q[j].kanata_id
        /\ WritesBack(j) => /\ rob_q'[j].completed
                            /\ rob_q'[j].store_buffer_idx = mem_to_wb_q.store_buffer_idx
        /\ ~WritesBack(j) => SameBut(rob_q'[j], rob_q[j])
    BY <1>2, <2>1, <2>2, Entries DEF Ring, WritesBack
  <2>4. rob_q'[j].completed /\ SlotOf(j)' = SlotOf(j)
    BY <2>1, <2>3 DEF SameBut, SlotOf
  <2> QED
    BY <2>1, <2>3, <2>4 DEF StoresInFlight
<1>3. ASSUME NEW j \in StoresInFlight'
      PROVE  \/ j \in StoresInFlight /\ ~(Commit /\ j = rob_head_ptr_q)
             \/ /\ acc
                /\ j = exe_to_mem_q.rob_idx /\ is_store
                /\ rob_q'[j].kanata_id = exe_to_mem_q.kanata_id
                /\ ~rob_q'[j].completed
                /\ SlotOf(j)' = sb_tail_ptr_q
  <2>1. /\ j \in RB!Idx /\ rob_q'[j].valid /\ rob_q'[j].store_to_mem
        /\ rob_q'[j].completed \/ WritesBack(j)'
    BY DEF StoresInFlight
  <2>2. CASE WritesBack(j)'
    BY <2>1, <2>2, TakesSlot
  <2>3. CASE ~WritesBack(j)'
    <3>1. /\ ~(Commit /\ j = rob_head_ptr_q)
          /\ rob_q[j].valid /\ rob_q[j].store_to_mem
          /\ rob_q[j].completed \/ WritesBack(j)
      BY <2>1, <2>3, Entries DEF Ring, SameBut, WritesBack
    <3> QED
      BY <2>1, <3>1 DEF StoresInFlight
  <2> QED
    BY <2>2, <2>3
<1>4. ASSUME acc
      PROVE  \E j \in StoresInFlight' : SlotOf(j)' = sb_tail_ptr_q
  <2>0. PICK j : j = exe_to_mem_q.rob_idx
    OBVIOUS
  <2>1. is_store /\ rob_q'[j].valid
    BY <1>1, <1>4, <2>0 DEF SB!Accepts, SbIn, SbInput, RB!still_alive_o
  <2>2. j \in RB!Idx
    BY <2>0 DEF TypeOK, MemOp
  <2>3. mem_valid(ready)
    BY <1>4, <2>1 DEF mem_valid, SB!Accepts
  <2>4. rob_q'[j].store_to_mem
    BY <2>0, <2>1, <2>2, <2>3, LeavesMemory DEF is_store
  <2> QED
    BY <1>4, <2>0, <2>1, <2>2, <2>4, TakesSlot DEF StoresInFlight
<1> QED
  BY <1>2, <1>3, <1>4

LEMMA OlderStep ==
  ASSUME TypeOK, TypeOK', Ring, Travelling, StageResults, CleanInv, Order, StoreSlots,
         NEW fetched \in BOOLEAN, NEW instr \in AnyInstr, NEW ready \in BOOLEAN,
         Cycle(fetched, instr, ready), clean', ~Flush,
         NEW j \in StoresInFlight'
  PROVE  /\ decode_to_exe_q'.valid => rob_q'[j].kanata_id < decode_to_exe_q'.kanata_id
         /\ is_store' => rob_q'[j].kanata_id < exe_to_mem_q'.kanata_id
         /\ rob_q'[j].completed => ~WritesBack(j)' /\ ~rob_q'[j].branch_taken
<1> DEFINE acc == SB!Accepts(SbIn(fetched, ready))
           stalled == stall(fetched, ready)
           frozen == stall_from_mem(ready)
           old == j \in StoresInFlight /\ ~(Commit /\ j = rob_head_ptr_q)
           taken == acc /\ is_store /\ rob_q'[j].kanata_id = exe_to_mem_q.kanata_id
<1>1. /\ clean
      /\ NextExe(stalled, stall_from_exe \/ frozen, Offered(fetched, ready))
      /\ Execute(frozen)
  BY EdgeFacts DEF History
<1>2. /\ old => /\ rob_q'[j].kanata_id = rob_q[j].kanata_id
                /\ decode_to_exe_q.valid =>
                     rob_q[j].kanata_id < decode_to_exe_q.kanata_id
                /\ is_store => rob_q[j].kanata_id < exe_to_mem_q.kanata_id
                /\ rob_q[j].completed => ~WritesBack(j) /\ ~rob_q[j].branch_taken
      /\ old \/ (taken /\ ~rob_q'[j].completed)
  BY <1>1, FlightStep DEF StoreSlots
<1>3. j \in RB!Idx /\ rob_q'[j].valid /\ rob_q'[j].store_to_mem
  BY DEF StoresInFlight
<1>4. /\ decode_to_exe_q.kanata_id \in Nat /\ exe_to_mem_q.kanata_id \in Nat
      /\ rob_q[j].kanata_id \in Nat
  <2>1. Ids \subseteq Nat
    BY CoreSizeAssumption DEF Ids
  <2> QED
    BY <1>3, <2>1 DEF TypeOK, Op, MemOp, RB!Entry
<1>5. taken => exe_to_mem_q.valid /\ ~frozen
  <2>1. is_store => exe_to_mem_q.valid /\ ~is_load
    <3>1. exe_to_mem_q.instr \in AnyInstr
      BY DEF TypeOK, MemOp
    <3> QED
      BY <3>1, InstrFacts DEF is_store, is_load
  <2>2. acc => SB!req_ready_o
    BY DEF SB!Accepts
  <2> QED
    BY <2>1, <2>2 DEF stall_from_mem, is_collision
<1> HIDE DEF old, taken
(* Younger than both: what decode issues now. *)
<1>6. rob_q'[j].kanata_id < NextId /\ NextId \in Nat
  <2>1. old => rob_q[j].valid /\ rob_q[j].kanata_id < NextId
    BY <1>3 DEF old, StoresInFlight, Ring, RingIds
  <2>2. exe_to_mem_q.valid => exe_to_mem_q.kanata_id < NextId
    BY HeldIsCarried DEF Travelling
  <2>3. NextId \in Nat
    BY IdStep, CoreSizeAssumption DEF Ring, Ids
  <2> QED
    BY <1>2, <1>5, <2>1, <2>2, <2>3 DEF taken
<1>7. decode_to_exe_q.valid => rob_q'[j].kanata_id < decode_to_exe_q.kanata_id
  BY <1>2, <1>5 DEF taken, Order
<1>8. decode_to_exe_q'.valid => rob_q'[j].kanata_id < decode_to_exe_q'.kanata_id
  <2>1. \/ /\ decode_to_exe_q'.valid = Offered(fetched, ready).valid
           /\ decode_to_exe_q'.kanata_id = decode_q.kanata_id
        \/ decode_to_exe_q' = NOP_INSTR
        \/ decode_to_exe_q' = decode_to_exe_q
    BY <1>1 DEF NextExe
  <2>2. Offered(fetched, ready).valid => decode_q.kanata_id = NextId
    BY RobInputs DEF NextId
  <2>3. ~NOP_INSTR.valid
    BY DEF NOP_INSTR
  <2> QED
    BY <1>6, <1>7, <2>1, <2>2, <2>3
<1>9. is_store' => rob_q'[j].kanata_id < exe_to_mem_q'.kanata_id
  <2>1. exe_to_mem_q' = IF frozen THEN exe_to_mem_q ELSE exe_to_mem_d
    BY <1>1 DEF Execute
  <2>2. CASE frozen
    <3>1. old
      BY <1>2, <1>5, <2>2
    <3> QED
      BY <1>2, <2>1, <2>2, <3>1 DEF is_store
  <2>3. CASE ~frozen
    <3>1. SUFFICES ASSUME exe_to_mem_d.valid, exe_to_mem_d.instr.store_to_mem
                   PROVE  rob_q'[j].kanata_id < exe_to_mem_d.kanata_id
      BY <2>1, <2>3 DEF is_store
    <3>2. MAX_EXE_STAGES - 2 \in PipeStages
      BY CoreSizeAssumption DEF PipeStages, MAX_EXE_STAGES
    <3>3. decode_to_exe_q.valid /\ Same(exe_to_mem_d, decode_to_exe_q)
      <4>1. ~exe_to_mem_d.instr.is_mul
        BY <3>1, Leaves, InstrFacts DEF MemOp
      <4> QED
        BY <3>1, <3>2, <4>1, Leaves DEF StageResults, Same
    <3> QED
      BY <1>7, <3>3 DEF Same
  <2> QED
    BY <2>2, <2>3
<1>10. ASSUME rob_q'[j].completed
       PROVE  ~WritesBack(j)' /\ ~rob_q'[j].branch_taken
  <2>1. ~WritesBack(j)'
    BY <1>3, <1>10, TakesSlot
  <2>2. /\ old /\ rob_q[j].valid /\ rob_q[j].store_to_mem
        /\ rob_q[j].completed \/ WritesBack(j)
    BY <1>2, <1>10 DEF old, StoresInFlight
  <2>3. CASE ~WritesBack(j)
    <3>1. SameBut(rob_q'[j], rob_q[j])
      BY <1>3, <2>2, <2>3, Entries, TailIsFree DEF Ring, WritesBack
    <3> QED
      BY <1>2, <2>1, <2>2, <2>3, <3>1 DEF SameBut
  <2>4. CASE WritesBack(j)
    <3>1. rob_q'[j].branch_taken = mem_to_wb_q.branch_taken
      BY <1>3, <2>2, <2>4, Entries DEF Ring, WritesBack
    <3>2. /\ mem_to_wb_q.kanata_id = rob_q[j].kanata_id
          /\ mem_to_wb_q.branch_taken = mem_to_wb_q.instr.taken
      BY <1>1, <2>2, <2>4 DEF CleanInv, EntryReused, NamesOther, WritesBack, StageResults
    <3>3. /\ Carried(mem_to_wb_q.instr, j, mem_to_wb_q.kanata_id)
          /\ mem_to_wb_q.instr \in AnyInstr /\ mem_to_wb_q.kanata_id \in Ids
      BY <2>4, HeldIsCarried DEF WritesBack
    <3>4. mem_to_wb_q.instr.store_to_mem
      BY <1>3, <2>2, <3>2, <3>3 DEF Travelling
    <3>5. ~mem_to_wb_q.instr.taken
      BY <3>3, <3>4, InstrFacts DEF Instr
    <3> QED
      BY <2>1, <3>1, <3>2, <3>5
  <2> QED
    BY <2>3, <2>4
<1> QED
  BY <1>8, <1>9, <1>10

(* Without a flush: the taken slot becomes speculative, the committed one  *)
(* no longer is, and nothing else changes.                                 *)
LEMMA SpeculativeStep ==
  ASSUME TypeOK, Ring, CleanInv, SB!WindowInv, StoreSlots, clean, ~Flush,
         NEW fetched \in BOOLEAN, NEW instr \in AnyInstr, NEW ready \in BOOLEAN,
         Cycle(fetched, instr, ready)
  PROVE  LET in == SbIn(fetched, ready)
         IN  /\ in.commit <=> Commit /\ rob_head_ptr_q \in StoresInFlight
             /\ in.commit => /\ in.idx_commit = SlotOf(rob_head_ptr_q)
                             /\ SB!Speculative(in.idx_commit)
             /\ \A s \in SB!Idx :
                  SB!Speculative(s)' <=>
                    \/ SB!Accepts(in) /\ s = sb_tail_ptr_q
                    \/ SB!Speculative(s) /\ ~(in.commit /\ s = in.idx_commit)
<1> DEFINE in == SbIn(fetched, ready)
           head == rob_q[rob_head_ptr_q]
           acc == SB!Accepts(in)
           frees == SB!FreesHead(in)
<1>1. /\ in.commit <=> Commit /\ head.store_to_mem
      /\ in.commit => in.idx_commit = head.store_buffer_idx
      /\ in.discard = RB!discard_store_buffer_o(Offered(fetched, ready), RobWb)
  BY DEF SbIn, SbInput, Commit
<1>2. in.discard = {}
  BY <1>1 DEF RB!discard_store_buffer_o, Flush
<1>3. Commit => rob_head_ptr_q \in RB!Idx /\ head.valid /\ head.completed
  BY DEF Commit, RB!commit_valid_o, TypeOK
<1>4. in.commit <=> Commit /\ rob_head_ptr_q \in StoresInFlight
  BY <1>1, <1>3 DEF StoresInFlight
<1>5. ASSUME in.commit
      PROVE  /\ in.idx_commit = SlotOf(rob_head_ptr_q)
             /\ SB!Speculative(in.idx_commit)
  <2>1. in.idx_commit = SlotOf(rob_head_ptr_q)
    BY <1>1, <1>3, <1>5 DEF SlotOf
  <2>2. in.idx_commit \in SB!Idx
    BY <1>1, <1>3, <1>5 DEF TypeOK, RB!Entry, SB!Idx
  <2> QED
    BY <1>4, <1>5, <2>1, <2>2 DEF StoreSlots
<1>6. ASSUME NEW s \in SB!Idx
      PROVE  SB!Speculative(s)' <=>
               \/ acc /\ s = sb_tail_ptr_q
               \/ SB!Speculative(s) /\ ~(in.commit /\ s = in.idx_commit)
  <2> DEFINE e == store_buffer_q[s]
             f == store_buffer_q'[s]
             taken == acc /\ s = sb_tail_ptr_q
  <2>1. /\ f.valid <=> (taken \/ e.valid) /\ ~(frees /\ s = sb_head_ptr_q)
        /\ f.committed <=> \/ ~taken /\ e.committed
                           \/ in.commit /\ s = in.idx_commit
        /\ f.discarded <=> \/ ~taken /\ e.discarded
                           \/ s \in in.discard
    BY SlotEdge DEF Ring
  <2>2. /\ acc => ~store_buffer_q[sb_tail_ptr_q].valid
        /\ frees => ~SB!Speculative(sb_head_ptr_q)
    BY SlotAges DEF Ring
  <2>3. frees => store_buffer_q[sb_head_ptr_q].valid
    BY DEF SB!FreesHead, SB!rsp_valid_o, SB!DropsHead
  <2>4. /\ SB!Speculative(s) <=> e.valid /\ ~e.committed /\ ~e.discarded
        /\ SB!Speculative(s)' <=> f.valid /\ ~f.committed /\ ~f.discarded
        /\ in.commit => store_buffer_q[in.idx_commit].valid
    BY <1>5 DEF SB!Speculative
  <2> HIDE DEF acc, frees, in
  <2> QED
    BY <1>2, <2>1, <2>2, <2>3, <2>4
<1> QED
  BY <1>4, <1>5, <1>6

(* A flush leaves no store in flight and discards every speculative slot.  *)
LEMMA FlushStep ==
  ASSUME TypeOK, Ring, StoreSlots, clean, Flush,
         NEW fetched \in BOOLEAN, NEW instr \in AnyInstr, NEW ready \in BOOLEAN,
         Cycle(fetched, instr, ready)
  PROVE  /\ StoresInFlight' = {}
         /\ \A s \in SB!Idx : ~SB!Speculative(s)'
<1> DEFINE in == SbIn(fetched, ready)
           b(i) == RB!BeforeFlush(Offered(fetched, ready), RobWb)[i]
<1>1. \A i \in RB!Idx : ~rob_q'[i].valid
  BY Entries DEF Ring
<1>2. StoresInFlight' = {}
  BY <1>1 DEF StoresInFlight
<1>3. ~SB!Accepts(in)
  <2>1. exe_to_mem_q.rob_idx \in RB!Idx /\ rob_q' = RB!rob_d(Offered(fetched, ready), RobWb)
    BY EdgeFacts DEF TypeOK, MemOp
  <2> QED
    BY <1>1, <2>1 DEF SB!Accepts, SbIn, SbInput, RB!still_alive_o
<1>4. ASSUME NEW s \in SB!Idx, SB!Speculative(s)
      PROVE  s \in in.discard
  <2>1. PICK i \in StoresInFlight : SlotOf(i) = s
    BY <1>4 DEF StoreSlots
  <2>2. /\ i \in RB!Idx /\ rob_q[i].valid /\ rob_q[i].store_to_mem
        /\ rob_q[i].completed \/ WritesBack(i)
        /\ rob_q[i].completed => ~WritesBack(i) /\ ~rob_q[i].branch_taken
    BY DEF StoresInFlight, StoreSlots
  <2>3. ~(Commit /\ i = rob_head_ptr_q)
    BY <2>2 DEF Flush, Commit, RB!commit_branch_taken_o, RB!commit_valid_o
  <2>4. b(i).valid /\ SameBut(b(i), rob_q'[i])
    BY <2>2, <2>3, Flushed DEF Ring
  <2>5. i # rob_tail_ptr_q
    BY <2>2, TailIsFree DEF Ring
  <2>6. /\ rob_q'[i].store_to_mem = rob_q[i].store_to_mem
        /\ WritesBack(i) => rob_q'[i].store_buffer_idx = mem_to_wb_q.store_buffer_idx
        /\ ~WritesBack(i) => SameBut(rob_q'[i], rob_q[i])
    BY <2>2, <2>5, Entries DEF Ring, WritesBack
  <2>7. b(i).store_to_mem /\ b(i).store_buffer_idx = s
    BY <2>1, <2>2, <2>4, <2>6 DEF SameBut, SlotOf
  <2>8. in.discard = {b(k).store_buffer_idx :
                        k \in {n \in RB!Idx : Flush /\ b(n).valid /\ b(n).store_to_mem}}
    BY DEF SbIn, SbInput, RB!discard_store_buffer_o, Flush
  <2> HIDE DEF b, in
  <2> QED
    BY <2>2, <2>4, <2>7, <2>8
<1>5. ASSUME NEW s \in SB!Idx
      PROVE  ~SB!Speculative(s)'
  <2>1. /\ store_buffer_q'[s].valid => store_buffer_q[s].valid
        /\ store_buffer_q[s].committed => store_buffer_q'[s].committed
        /\ store_buffer_q[s].discarded \/ s \in in.discard
             => store_buffer_q'[s].discarded
    BY <1>3, SlotEdge DEF Ring
  <2> QED
    BY <1>4, <2>1 DEF SB!Speculative
<1> QED
  BY <1>2, <1>5

LEMMA StoreSlotsStep ==
  ASSUME TypeOK, TypeOK', Ring, Travelling, StageResults, CleanInv, Order,
         SB!WindowInv, StoreSlots,
         NEW fetched \in BOOLEAN, NEW instr \in AnyInstr, NEW ready \in BOOLEAN,
         Cycle(fetched, instr, ready)
  PROVE  StoreSlots'
<1> SUFFICES ASSUME clean'
             PROVE  StoreSlots'
  BY DEF StoreSlots
<1>0. clean
  BY EdgeFacts DEF History
<1>1. CASE Flush
  BY <1>0, <1>1, FlushStep DEF StoreSlots
<1>2. CASE ~Flush
  <2> DEFINE in == SbIn(fetched, ready)
             acc == SB!Accepts(in)
             F == StoresInFlight
             id(j) == rob_q[j].kanata_id
             leaves(j) == Commit /\ j = rob_head_ptr_q
             taken(j) == /\ acc /\ is_store
                         /\ rob_q'[j].kanata_id = exe_to_mem_q.kanata_id
                         /\ SlotOf(j)' = sb_tail_ptr_q
             stays(s) == SB!Speculative(s) /\ ~(in.commit /\ s = in.idx_commit)
             freed(s) == SB!FreesHead(in) /\ s = sb_head_ptr_q
             nd(s) == IF sb_head_ptr_q' <= s
                        THEN s - sb_head_ptr_q'
                        ELSE s - sb_head_ptr_q' + STORE_BUFFER_SIZE
  <2>1. /\ in.commit <=> Commit /\ rob_head_ptr_q \in F
        /\ in.commit => in.idx_commit = SlotOf(rob_head_ptr_q)
        /\ \A s \in SB!Idx :
             SB!Speculative(s)' <=> (acc /\ s = sb_tail_ptr_q) \/ stays(s)
    BY <1>0, <1>2, SpeculativeStep
  <2>2. /\ acc => /\ ~store_buffer_q[sb_tail_ptr_q].valid
                  /\ \A i \in SB!Idx :
                       store_buffer_q[i].valid => SB!Dist(i) < SB!Dist(sb_tail_ptr_q)
        /\ SB!FreesHead(in) => /\ ~SB!Speculative(sb_head_ptr_q)
                               /\ store_buffer_q[sb_head_ptr_q].valid
        /\ \A i \in SB!Idx :
             /\ SB!Dist(i) \in Int
             /\ ~freed(i) =>
                  nd(i) = IF SB!FreesHead(in) THEN SB!Dist(i) - 1 ELSE SB!Dist(i)
    <3>1. \A i \in SB!Idx : SB!Dist(i)' = nd(i)
      BY DEF SB!Dist
    <3>2. SB!FreesHead(in) => store_buffer_q[sb_head_ptr_q].valid
      BY DEF SB!FreesHead, SB!rsp_valid_o, SB!DropsHead
    <3> HIDE DEF nd, in
    <3> QED
      BY <3>1, <3>2, SlotAges DEF Ring, in
  <2>3. /\ \A j \in F : ~leaves(j) =>
             j \in F' /\ SlotOf(j)' = SlotOf(j) /\ rob_q'[j].kanata_id = id(j)
        /\ acc => \E j \in F' : SlotOf(j)' = sb_tail_ptr_q
        /\ \A j \in F' : \/ j \in F /\ ~leaves(j)
                         \/ taken(j)
    BY <1>0, <1>2, FlightStep
  <2>4. /\ \A j \in F : /\ j \in RB!Idx /\ rob_q[j].valid /\ id(j) \in Nat
                        /\ is_store => id(j) < exe_to_mem_q.kanata_id
                        /\ SlotOf(j) \in SB!Idx /\ SB!Speculative(SlotOf(j))
        /\ \A s \in SB!Idx : SB!Speculative(s) => \E j \in F : SlotOf(j) = s
        /\ \A i, j \in F : id(i) < id(j) => SB!Dist(SlotOf(i)) < SB!Dist(SlotOf(j))
        /\ \A s, t \in SB!Idx :
             (store_buffer_q[s].valid /\ ~SB!Speculative(s) /\ SB!Speculative(t))
               => SB!Dist(s) < SB!Dist(t)
    <3>1. \A j \in F : /\ j \in RB!Idx /\ rob_q[j].valid /\ id(j) \in Nat
                       /\ SlotOf(j) \in SB!Idx
      BY DEF StoresInFlight, SlotOf, TypeOK, RB!Entry, WbOp, SB!Idx
    <3> QED
      BY <1>0, <3>1 DEF StoreSlots
  <2>5. /\ sb_tail_ptr_q \in SB!Idx /\ sb_head_ptr_q \in SB!Idx
        /\ exe_to_mem_q.kanata_id \in Nat
        /\ \A s \in SB!Idx : SB!Speculative(s) => store_buffer_q[s].valid
    <3>1. Ids \subseteq Nat
      BY CoreSizeAssumption DEF Ids
    <3> QED
      BY <3>1 DEF TypeOK, MemOp, SB!Speculative
  (* The slot that commits is that of the oldest store in flight.            *)
  <2>6. ASSUME in.commit, NEW j \in F, ~leaves(j)
        PROVE  SB!Dist(in.idx_commit) < SB!Dist(SlotOf(j))
    <3>1. id(rob_head_ptr_q) < id(j)
      BY <2>1, <2>4, <2>6, OldestFirst
    <3> QED
      BY <2>1, <2>4, <2>6, <3>1
  <2>7. \A j \in F : ~leaves(j) => stays(SlotOf(j))
    BY <2>1, <2>2, <2>4, <2>6
  <2>8. \A s \in SB!Idx : stays(s) => \E j \in F : ~leaves(j) /\ SlotOf(j) = s
    BY <2>1, <2>4
  <2>9. \A s \in SB!Idx : SB!Speculative(s)' => ~freed(s)
    BY <2>1, <2>2
  <2>10. /\ \A s \in SB!Idx : store_buffer_q'[s].valid =>
              /\ ~freed(s)
              /\ store_buffer_q[s].valid \/ (acc /\ s = sb_tail_ptr_q)
    BY SlotEdge DEF Ring
  <2> HIDE DEF in, acc, leaves, stays, freed, nd, taken
  <2>11. ASSUME NEW s \in SB!Idx
         PROVE  SB!Speculative(s)' <=> \E j \in F' : SlotOf(j)' = s
    <3>1. ASSUME SB!Speculative(s)'
          PROVE  \E j \in F' : SlotOf(j)' = s
      BY <2>1, <2>3, <2>8, <3>1
    <3>2. ASSUME NEW j \in F', SlotOf(j)' = s
          PROVE  SB!Speculative(s)'
      BY <2>1, <2>3, <2>7, <3>2 DEF taken
    <3> QED
      BY <3>1, <3>2
  <2>12. ASSUME NEW i \in F', NEW j \in F', rob_q'[i].kanata_id < rob_q'[j].kanata_id
         PROVE  nd(SlotOf(i)') < nd(SlotOf(j)')
    <3>1. CASE i \in F /\ ~leaves(i) /\ j \in F /\ ~leaves(j)
      <4>1. /\ SB!Dist(SlotOf(i)) < SB!Dist(SlotOf(j))
            /\ SlotOf(i)' = SlotOf(i) /\ SlotOf(j)' = SlotOf(j)
            /\ SlotOf(i) \in SB!Idx /\ SlotOf(j) \in SB!Idx
        BY <2>3, <2>4, <2>12, <3>1
      <4>2. ~freed(SlotOf(i)) /\ ~freed(SlotOf(j))
        BY <2>1, <2>7, <2>9, <3>1, <4>1
      <4> QED
        BY <2>2, <4>1, <4>2
    <3>2. CASE i \in F /\ ~leaves(i) /\ taken(j)
      <4>1. /\ SlotOf(i)' = SlotOf(i) /\ SlotOf(j)' = sb_tail_ptr_q
            /\ SlotOf(i) \in SB!Idx
            /\ SB!Dist(SlotOf(i)) < SB!Dist(sb_tail_ptr_q)
        BY <2>2, <2>3, <2>4, <2>5, <3>2 DEF taken
      <4>2. ~freed(SlotOf(i)) /\ ~freed(sb_tail_ptr_q)
        BY <2>1, <2>5, <2>7, <2>9, <3>2, <4>1 DEF taken
      <4> QED
        BY <2>2, <2>5, <4>1, <4>2
    <3>3. CASE taken(i)
      BY <2>3, <2>4, <2>5, <2>12, <3>3 DEF taken
    <3> QED
      BY <2>3, <3>1, <3>2, <3>3
  <2>13. ASSUME NEW s \in SB!Idx, NEW t \in SB!Idx,
                store_buffer_q'[s].valid, ~SB!Speculative(s)', SB!Speculative(t)'
         PROVE  nd(s) < nd(t)
    <3>1. store_buffer_q[s].valid /\ ~freed(s) /\ ~freed(t)
      BY <2>1, <2>9, <2>10, <2>13
    <3>2. CASE acc /\ t = sb_tail_ptr_q
      BY <2>2, <3>1, <3>2
    <3>3. CASE stays(t)
      <4>1. SB!Speculative(t)
        BY <3>3 DEF stays
      <4>2. CASE ~SB!Speculative(s)
        BY <2>2, <2>4, <3>1, <4>1, <4>2
      <4>3. CASE SB!Speculative(s)
        <5>1. in.commit /\ s = in.idx_commit
          BY <2>1, <2>13, <4>3 DEF stays
        <5>2. SB!Dist(s) < SB!Dist(t)
          BY <2>6, <2>8, <3>3, <5>1
        <5> QED
          BY <2>2, <3>1, <5>2
      <4> QED
        BY <4>2, <4>3
    <3> QED
      BY <2>1, <2>13, <3>2, <3>3
  <2>14. \A x : SB!Dist(x)' = nd(x)
    BY DEF SB!Dist, nd
  <2>15. \A i, j \in F' : rob_q'[i].kanata_id < rob_q'[j].kanata_id
           => SB!Dist(SlotOf(i))' < SB!Dist(SlotOf(j))'
    BY <2>12 DEF SB!Dist, nd
  <2>16. \A j \in F' :
           /\ decode_to_exe_q'.valid => rob_q'[j].kanata_id < decode_to_exe_q'.kanata_id
           /\ is_store' => rob_q'[j].kanata_id < exe_to_mem_q'.kanata_id
           /\ rob_q'[j].completed => ~WritesBack(j)' /\ ~rob_q'[j].branch_taken
    BY <1>2, OlderStep
  <2>17. \A s, t \in SB!Idx :
           (store_buffer_q'[s].valid /\ ~SB!Speculative(s)' /\ SB!Speculative(t)')
             => SB!Dist(s)' < SB!Dist(t)'
    BY <2>13, <2>14
  <2> QED
    BY <2>11, <2>15, <2>16, <2>17 DEF StoreSlots
<1> QED
  BY <1>1, <1>2

----------------------------------------------------------------------------
(* The inductive invariant. *)

IInv ==
  /\ TypeOK /\ Ring /\ Travelling /\ StageResults /\ CleanInv /\ NothingLost
  /\ Order /\ SB!WindowInv /\ StoreSlots

LEMMA InitHolds == Init => IInv
<1> SUFFICES ASSUME Init
             PROVE  IInv
  OBVIOUS
<1>1. /\ kanata_id_counter = 0 /\ decode_q = NoDecode
      /\ decode_to_exe_q = NOP_INSTR
      /\ exe_to_mem_q = ToMem(NOP_INSTR, 0, FALSE)
      /\ mem_to_wb_q = ToWb(ToMem(NOP_INSTR, 0, FALSE), FALSE, 0, 0)
      /\ exe_pipe_q = [i \in PipeStages |-> NOP_INSTR]
      /\ delay = [i \in 0 .. EXE_STAGES_MULT - 2 |-> 0]
      /\ registers_q = [r \in Regs |-> 0] /\ last_writer = registers_q
      /\ RB!ResetFrom([i \in RB!Idx |-> 0]) /\ SB!Reset
      /\ shadow_id = MaxId /\ path_id = 0 /\ clean = TRUE /\ dropped = FALSE
  BY DEF Init, PipeStages
<1>2. /\ ~decode_q.valid /\ ~decode_to_exe_q.valid /\ ~exe_to_mem_q.valid
      /\ ~mem_to_wb_q.valid /\ \A k \in PipeStages : ~exe_pipe_q[k].valid
  BY <1>1 DEF NoDecode, NOP_INSTR, ToMem, ToWb
<1>3. /\ \A i \in RB!Idx : ~rob_q[i].valid
      /\ rob_head_ptr_q = 0 /\ rob_tail_ptr_q = 0
  BY <1>1 DEF RB!ResetFrom, RB!ResetEntry
<1>4. TypeOK
  <2>1. /\ 0 \in RB!Idx /\ 0 \in SB!Idx /\ 0 \in Ids /\ MaxId \in Ids
        /\ 0 \in Regs /\ 0 \in Addr /\ 0 \in Nat
    BY CoreSizeAssumption, CoreAddrAssumption DEF RB!Idx, SB!Idx, Ids, Regs
  <2>2. NOP_INSTR \in Op
    BY <2>1, NopIsInstr DEF NOP_INSTR, Op
  <2>3. /\ decode_q \in [valid : BOOLEAN, instr : AnyInstr, kanata_id : Ids]
        /\ exe_to_mem_q \in MemOp /\ mem_to_wb_q \in WbOp
    BY <1>1, <2>1, NopIsInstr DEF NoDecode, NOP_INSTR, ToMem, ToWb, MemOp, WbOp
  <2>4. rob_q \in [RB!Idx -> RB!Entry]
    <3>1. RB!ResetEntry(0) \in RB!Entry
      BY <2>1 DEF RB!ResetEntry, RB!Entry, SB!Idx
    <3>2. rob_q = [i \in RB!Idx |-> RB!ResetEntry(0)]
      BY <1>1 DEF RB!ResetFrom
    <3> QED
      BY <3>1, <3>2
  <2>5. /\ store_buffer_q \in [SB!Idx -> SB!Entry]
        /\ sb_head_ptr_q \in SB!Idx /\ sb_tail_ptr_q \in SB!Idx
    BY <1>1, <2>1 DEF SB!Reset, SB!ResetEntry, SB!Entry
  <2>6. /\ exe_pipe_q \in [0 .. MAX_EXE_STAGES - 2 -> Op]
        /\ delay \in [0 .. EXE_STAGES_MULT - 2 -> Nat]
        /\ registers_q \in [Regs -> Nat] /\ last_writer \in [Regs -> Nat]
    BY <1>1, <2>1, <2>2 DEF PipeStages
  <2> QED
    BY <1>1, <1>3, <2>1, <2>2, <2>3, <2>4, <2>5, <2>6 DEF TypeOK
<1>5. Ring
  <2>1. RB!WindowInv
    BY <1>3 DEF RB!WindowInv, RB!InWindow, RB!Idx
  <2>2. DecodeIds
    BY <1>1, <1>2 DEF DecodeIds, NextId
  <2> QED
    BY <1>3, <2>1, <2>2 DEF Ring, RingAges, RingIds
<1>6. Travelling
  BY <1>1, <1>2 DEF Travelling, Carried, Is
<1>7. StageResults
  BY <1>2 DEF StageResults
<1>8. CleanInv
  BY <1>1, <1>2, <1>3 DEF CleanInv, EntryReused, NamesOther, OwnResults, PipeStages
<1>9. NothingLost
  BY <1>3 DEF NothingLost
<1>10. Order
  BY <1>2 DEF Order
<1>11. /\ sb_head_ptr_q = 0 /\ sb_tail_ptr_q = 0
       /\ \A s \in SB!Idx : ~store_buffer_q[s].valid
  BY <1>1 DEF SB!Reset, SB!ResetEntry
<1>12. SB!WindowInv
  BY <1>11, CoreSizeAssumption DEF SB!WindowInv, SB!Dist, SB!Count, SB!Idx
<1>13. StoreSlots
  <2>1. StoresInFlight = {}
    BY <1>3 DEF StoresInFlight
  <2> QED
    BY <1>11, <2>1 DEF StoreSlots, SB!Speculative
<1> QED
  BY <1>4, <1>5, <1>6, <1>7, <1>8, <1>9, <1>10, <1>12, <1>13 DEF IInv

LEMMA InvariantStep == IInv /\ [Next]_vars => IInv'
<1> SUFFICES ASSUME IInv, [Next]_vars
             PROVE  IInv'
  OBVIOUS
<1>1. /\ TypeOK /\ Ring /\ Travelling /\ StageResults /\ CleanInv /\ NothingLost
      /\ Order /\ SB!WindowInv /\ StoreSlots /\ RB!WindowInv
  BY DEF IInv, Ring
<1>2. ASSUME NEW fetched \in BOOLEAN, NEW instr \in AnyInstr, NEW ready \in BOOLEAN,
             Cycle(fetched, instr, ready)
      PROVE  IInv'
  <2>1. TypeOK'
    BY <1>1, <1>2, TypeStep, TailIsFree DEF Ring
  <2>2. Ring'
    BY <1>1, <1>2, RingStep
  <2>3. Travelling'
    BY <1>1, <1>2, TravelStep
  <2>4. StageResults'
    BY <1>1, <1>2, ResultStep
  <2>5. CleanInv'
    BY <1>1, <1>2, CleanStep
  <2>6. NothingLost'
    BY <1>1, <1>2, HeldStep
  <2>7. Order'
    BY <1>1, <1>2, OrderStep
  <2>8. SB!WindowInv'
    BY <1>1, <1>2, SlotWindowStep
  <2>9. StoreSlots'
    BY <1>1, <1>2, <2>1, StoreSlotsStep
  <2> QED
    BY <2>1, <2>2, <2>3, <2>4, <2>5, <2>6, <2>7, <2>8, <2>9 DEF IInv
<1>3. CASE Next
  <2>1. Instrs \subseteq AnyInstr
    BY DEF AnyInstr
  <2> QED
    BY <1>2, <1>3, <2>1, NopIsInstr DEF Next
<1>4. CASE UNCHANGED vars
  <2>1. TypeOK'
    BY <1>1, <1>4 DEF vars, rob_vars, sb_vars, TypeOK
  <2>2. Ring'
    BY <1>1, <1>4 DEF vars, rob_vars, Ring, RB!WindowInv, RB!InWindow, DecodeIds,
                      NextId, RingAges, RB!Dist, RingIds
  <2>3. Travelling'
    BY <1>1, <1>4 DEF vars, rob_vars, Travelling, Carried, Is, NextId
  <2>4. StageResults' /\ NothingLost'
    BY <1>1, <1>4 DEF vars, rob_vars, StageResults, NothingLost, Holds
  <2>5. CleanInv'
    BY <1>1, <1>4 DEF vars, rob_vars, CleanInv, EntryReused, NamesOther,
                      OwnResults, Doomed
  <2>6. Order'
    BY <1>1, <1>4 DEF vars, Order
  <2>7. SB!WindowInv'
    BY <1>1, <1>4 DEF vars, sb_vars, SB!WindowInv, SB!Dist, SB!Count
  <2>8. StoreSlots'
    BY <1>1, <1>4 DEF vars, rob_vars, sb_vars, StoreSlots, StoresInFlight, SlotOf,
                      WritesBack, is_store, SB!Speculative, SB!Dist
  <2> QED
    BY <2>1, <2>2, <2>3, <2>4, <2>5, <2>6, <2>7, <2>8 DEF IInv
<1> QED
  BY <1>3, <1>4

LEMMA InvariantHolds == Spec => []IInv
BY InitHolds, InvariantStep, PTL DEF Spec

(* The registers of every stage keep their types (datapath.sv, exe.sv,     *)
(* mem.sv, rob.sv and store_buffer.sv, the always_ff blocks).              *)
THEOREM TypeCorrect == Spec => []TypeOK
BY InvariantHolds, PTL DEF IInv

(* Inside the pipeline too the valid entries of the reorder buffer are the *)
(* window between its pointers (rob.sv, with the stalls of datapath.sv:200 *)
(* and :202 in front of it), and its order is the order of decode.         *)
THEOREM RingCorrect == Spec => [](RB!WindowInv /\ RingAges)
BY InvariantHolds, PTL DEF IInv, Ring

(* Every entry completes with its own result and outcome, until an entry   *)
(* is reused too early (rob.sv:94, datapath.sv:225-285).                   *)
THEOREM ResultCorrect == Spec => []OwnResultsWhileClean
<1>1. IInv => OwnResultsWhileClean
  BY DEF IInv, CleanInv, OwnResultsWhileClean
<1> QED
  BY <1>1, InvariantHolds, PTL

(* Nothing that was fetched past a taken branch commits, until then        *)
(* (rob.sv:136, datapath.sv:86).                                           *)
THEOREM CommitCorrect == Spec => []WrongPathNeverCommits
<1>1. IInv => WrongPathNeverCommits
  BY HeadOnPath DEF IInv, WrongPathNeverCommits, RB!commit_valid_o
<1> QED
  BY <1>1, InvariantHolds, PTL

(* No instruction is lost in a stall, until a multiplication leaves        *)
(* execute while memory stalls (exe.sv:30-44, datapath.sv:204-243).        *)
THEOREM LossCorrect == Spec => []NothingLost
BY InvariantHolds, PTL DEF IInv

----------------------------------------------------------------------------
(* Operands. *)

LEMMA BackLemma ==
  ASSUME rob_tail_ptr_q \in RB!Idx, NEW k \in 1 .. ROB_SIZE - 1
  PROVE  /\ RB!Back(k) = IF k <= rob_tail_ptr_q THEN rob_tail_ptr_q - k
                                                ELSE rob_tail_ptr_q - k + ROB_SIZE
         /\ RB!Back(k) \in RB!Idx
BY CoreSizeAssumption DEF RB!Back, RB!Idx

LEMMA LeastElement ==
  ASSUME NEW S, S \subseteq Nat, S # {}
  PROVE  \E k \in S : \A j \in S : k <= j
<1>1. PICK k \in S : \A j \in S : ~(<<j, k>> \in OpToRel(<, Nat))
  BY WFMin, NatLessThanWellFounded
<1>2. \A j \in S : ~(j < k)
  BY <1>1 DEF OpToRel
<1> QED
  BY <1>2

(* The search backwards from the tail meets every producer of a register,  *)
(* the youngest first.                                                     *)
LEMMA SearchFinds ==
  ASSUME TypeOK, Ring, NEW rs
  PROVE  /\ RB!hazard_o(rs) <=> \E i \in RB!Idx : RB!Writes(i, rs)
         /\ RB!hazard_o(rs) =>
              /\ RB!rob_entry_o(rs) \in RB!Idx
              /\ RB!Writes(RB!rob_entry_o(rs), rs)
              /\ \A i \in RB!Idx : RB!Writes(i, rs) =>
                   rob_q[i].kanata_id <= rob_q[RB!rob_entry_o(rs)].kanata_id
<1> DEFINE K    == 1 .. ROB_SIZE - 1
           Hits == {k \in K : RB!Writes(RB!Back(k), rs)}
           First(k) == /\ RB!Writes(RB!Back(k), rs)
                       /\ \A j \in 1 .. k - 1 : ~RB!Writes(RB!Back(j), rs)
<1>1. rob_head_ptr_q \in RB!Idx /\ rob_tail_ptr_q \in RB!Idx
  BY DEF TypeOK
<1>2. ASSUME NEW i \in RB!Idx, RB!Writes(i, rs)
      PROVE  \E k \in K : RB!Back(k) = i
  <2>1. i # rob_tail_ptr_q
    BY <1>2, TailIsFree DEF RB!Writes, Ring
  <2> DEFINE k == IF i < rob_tail_ptr_q THEN rob_tail_ptr_q - i
                                        ELSE rob_tail_ptr_q - i + ROB_SIZE
  <2>2. k \in K
    BY <1>1, <2>1, CoreSizeAssumption DEF RB!Idx
  <2>3. RB!Back(k) = i
    BY <1>1, <2>2, BackLemma, CoreSizeAssumption DEF RB!Idx
  <2> QED
    BY <2>2, <2>3
<1>3. RB!hazard_o(rs) <=> \E i \in RB!Idx : RB!Writes(i, rs)
  BY <1>1, <1>2, BackLemma DEF RB!hazard_o
<1>4. ASSUME RB!hazard_o(rs)
      PROVE  /\ RB!rob_entry_o(rs) \in RB!Idx
             /\ RB!Writes(RB!rob_entry_o(rs), rs)
             /\ \A i \in RB!Idx : RB!Writes(i, rs) =>
                  rob_q[i].kanata_id <= rob_q[RB!rob_entry_o(rs)].kanata_id
  <2>1. \E k \in K : First(k)
    <3>1. Hits # {} /\ Hits \subseteq Nat
      BY <1>4 DEF RB!hazard_o
    <3>2. PICK k \in Hits : \A j \in Hits : k <= j
      <4> HIDE DEF Hits
      <4> QED
        BY <3>1, LeastElement
    <3>3. \A j \in 1 .. k - 1 : j \in K /\ ~(k <= j)
      BY <3>2, CoreSizeAssumption
    <3> QED
      BY <3>2, <3>3
  <2> DEFINE c == CHOOSE k \in K : First(k)
  <2>2. c \in K /\ First(c)
    BY <2>1, Zenon
  <2>3. RB!rob_entry_o(rs) = RB!Back(c)
    BY DEF RB!rob_entry_o
  <2> HIDE DEF c
  <2>4. RB!Back(c) \in RB!Idx
    BY <1>1, <2>2, BackLemma
  <2>5. ASSUME NEW i \in RB!Idx, RB!Writes(i, rs)
        PROVE  rob_q[i].kanata_id <= rob_q[RB!Back(c)].kanata_id
    <3>1. PICK k \in K : RB!Back(k) = i
      BY <1>2, <2>5
    <3>2. k >= c
      BY <2>2, <2>5, <3>1, CoreSizeAssumption
    <3>3. rob_q[i].valid /\ rob_q[RB!Back(c)].valid
      BY <2>2, <2>5 DEF RB!Writes
    <3>4. RB!InWindow(i) /\ RB!InWindow(RB!Back(c))
      BY <2>4, <3>3 DEF Ring, RB!WindowInv
    <3>5. i = RB!Back(c) \/ RB!Dist(i) < RB!Dist(RB!Back(c))
      <4>1. /\ i = IF k <= rob_tail_ptr_q THEN rob_tail_ptr_q - k
                                          ELSE rob_tail_ptr_q - k + ROB_SIZE
            /\ RB!Back(c) = IF c <= rob_tail_ptr_q THEN rob_tail_ptr_q - c
                                          ELSE rob_tail_ptr_q - c + ROB_SIZE
        BY <1>1, <2>2, <3>1, BackLemma
      <4> QED
        BY <1>1, <2>2, <3>2, <3>4, <4>1, CoreSizeAssumption
           DEF RB!Dist, RB!InWindow, RB!Idx
    <3>6. rob_q[i].kanata_id \in Nat /\ rob_q[RB!Back(c)].kanata_id \in Nat
      BY <2>4 DEF TypeOK, RB!Entry
    <3> QED
      BY <2>4, <3>3, <3>5, <3>6 DEF Ring, RingAges
  <2> QED
    BY <2>2, <2>3, <2>4, <2>5
<1> QED
  BY <1>3, <1>4

(* What an entry stands for once it is solved.  An instruction that leaves *)
(* execute or memory and names the entry is the entry's own; a link        *)
(* register, which execute has not computed yet, is the exception, but the *)
(* jump that writes it has then doomed whoever asks.                       *)
LEMMA SolvedRight ==
  ASSUME TypeOK, Ring, Travelling, StageResults, CleanInv, clean,
         NEW ready \in BOOLEAN, NEW i \in RB!Idx,
         rob_q[i].valid, rob_q[i].kanata_id < NextId, rob_q[i].write_enable,
         ~Doomed(NextId)
  PROVE  /\ rob_q[i].completed => rob_q[i].result = Value(rob_q[i].kanata_id)
         /\ FromExe(i) => exe_to_mem_d.result = Value(rob_q[i].kanata_id)
         /\ FromMem(i, ready) => mem_result = Value(rob_q[i].kanata_id)
<1>1. /\ rob_q[i].kanata_id \in Nat /\ shadow_id \in Nat /\ NextId \in Nat
      /\ path_id \in Nat /\ path_id <= rob_q[i].kanata_id
  <2>1. /\ decode_q.kanata_id \in Ids /\ kanata_id_counter \in Ids
        /\ shadow_id \in Ids /\ path_id \in Ids /\ Ids \subseteq Nat
    BY CoreSizeAssumption DEF TypeOK, Ids
  <2>2. NextId \in Nat /\ shadow_id \in Nat /\ path_id \in Nat
    BY <2>1 DEF NextId
  <2>3. rob_q[i].kanata_id \in Nat
    BY DEF TypeOK, RB!Entry
  <2>4. path_id <= rob_q[i].kanata_id
    BY DEF Ring, RingIds
  <2> QED
    BY <2>2, <2>3, <2>4
<1>2. rob_q[i].completed => rob_q[i].result = Value(rob_q[i].kanata_id)
  BY DEF CleanInv, OwnResults
<1>3. ASSUME FromMem(i, ready)
      PROVE  mem_result = Value(rob_q[i].kanata_id)
  <2>1. exe_to_mem_q.valid /\ exe_to_mem_q.rob_idx = i
    BY <1>3, Finishes DEF FromMem
  <2>2. exe_to_mem_q.kanata_id = rob_q[i].kanata_id
    BY <2>1 DEF CleanInv, EntryReused, NamesOther
  <2> QED
    BY <2>1, <2>2 DEF mem_result, StageResults
<1>4. ASSUME FromExe(i)
      PROVE  exe_to_mem_d.result = Value(rob_q[i].kanata_id)
  <2>1. /\ exe_to_mem_d.valid /\ exe_to_mem_d.rob_idx = i
        /\ exe_to_mem_d.instr.wb_origin # "MEM"
    BY <1>4 DEF FromExe
  <2>2. MAX_EXE_STAGES - 2 \in PipeStages
    BY CoreSizeAssumption DEF PipeStages, MAX_EXE_STAGES
  <2>3. exe_to_mem_d.kanata_id = rob_q[i].kanata_id
    BY <2>1, <2>2, Leaves DEF CleanInv, EntryReused, NamesOther, Same, PipeStages
  <2>4. /\ Carried(exe_to_mem_d.instr, i, exe_to_mem_d.kanata_id)
        /\ exe_to_mem_d.instr \in AnyInstr /\ exe_to_mem_d.kanata_id \in Ids
    BY <2>1, <2>2, Leaves, HeldIsCarried DEF Same
  <2>5. ~exe_to_mem_d.instr.taken
    BY <1>1, <2>3, <2>4 DEF Travelling, Doomed
  <2>6. exe_to_mem_d.instr.wb_origin = "ALU"
    BY <2>1, <2>4, <2>5, InstrFacts DEF Instr
  <2> QED
    BY <2>1, <2>3, <2>6, LeavingResult
<1> QED
  BY <1>2, <1>3, <1>4

(* An instruction on the right path leaves decode with the operands of     *)
(* sequential execution, whichever of the four sources they come from      *)
(* (datapath.sv:139-198), until an entry is reused too early.  The last    *)
(* register, which regfile.sv:25 never writes, has them only while its     *)
(* producer is in the reorder buffer.                                      *)
THEOREM OperandCorrect == Spec => []OperandsRight
<1>1. IInv => OperandsRight
  <2> SUFFICES ASSUME IInv, clean, NEW ready \in BOOLEAN,
                      RobDecode(stall(TRUE, ready)).valid,
                      ~Doomed(decode_q.kanata_id),
                      NEW rs \in decode_q.instr.srcs,
                      rs # REG_COUNT - 1 \/ Producers(rs) # {}
               PROVE  Operand(rs, ready) = Expected(rs)
    BY DEF OperandsRight
  <2>1. TypeOK /\ Ring /\ Travelling /\ StageResults /\ CleanInv
    BY DEF IInv
  <2>2. ~stall(TRUE, ready) /\ decode_q.valid
    BY DEF RobDecode
  <2>3. Solved(rs, ready)
    BY <2>2 DEF stall
  <2>4. NextId = decode_q.kanata_id /\ rs \in Regs
    BY <2>1, <2>2, InstrFacts DEF NextId, TypeOK, Instr
  <2> DEFINE i == RB!rob_entry_o(rs)
  <2>5. CASE ~RB!hazard_o(rs)
    <3>1. Producers(rs) = {}
      BY <2>1, <2>5, SearchFinds DEF Producers
    <3>2. Expected(rs) = last_writer[rs]
      BY <3>1 DEF Expected
    <3>3. registers_q[rs] = last_writer[rs]
      BY <2>1, <2>4, <3>1 DEF CleanInv
    <3> QED
      BY <2>5, <3>2, <3>3 DEF Operand
  <2>6. CASE RB!hazard_o(rs)
    <3>1. /\ i \in RB!Idx /\ RB!Writes(i, rs)
          /\ \A j \in RB!Idx : RB!Writes(j, rs) => rob_q[j].kanata_id <= rob_q[i].kanata_id
      BY <2>1, <2>6, SearchFinds
    <3>2. \A j \in RB!Idx : rob_q[j].kanata_id \in Nat
      BY <2>1 DEF TypeOK, RB!Entry
    <3> HIDE DEF i
    <3>3. Expected(rs) = Value(rob_q[i].kanata_id)
      <4> DEFINE P == Producers(rs)
                 Last(id) == \A x \in P : x <= id
      <4>1. rob_q[i].kanata_id \in P /\ Last(rob_q[i].kanata_id)
        BY <3>1 DEF Producers
      <4>2. \A id \in P : id \in Nat
        BY <3>2 DEF Producers
      <4>3. \A id \in P : Last(id) => id = rob_q[i].kanata_id
        BY <3>1, <3>2, <4>1, <4>2
      <4>4. Expected(rs) = IF P = {} THEN last_writer[rs]
                                     ELSE Value(CHOOSE id \in P : Last(id))
        BY DEF Expected
      <4> HIDE DEF P
      <4>5. (CHOOSE id \in P : Last(id)) = rob_q[i].kanata_id
        BY <4>1, <4>3
      <4> QED
        BY <4>1, <4>4, <4>5
    <3>4. rob_q[i].valid /\ rob_q[i].write_enable
      BY <3>1 DEF RB!Writes
    <3>5. rob_q[i].kanata_id < NextId
      BY <2>1, <3>1, <3>4 DEF Ring, RingIds
    <3>6. /\ rob_q[i].completed => rob_q[i].result = Value(rob_q[i].kanata_id)
          /\ FromExe(i) => exe_to_mem_d.result = Value(rob_q[i].kanata_id)
          /\ FromMem(i, ready) => mem_result = Value(rob_q[i].kanata_id)
      BY <2>1, <2>4, <3>1, <3>4, <3>5, SolvedRight
    <3>7. rob_q[i].completed \/ FromExe(i) \/ FromMem(i, ready)
      BY <2>3, <2>6 DEF Solved, i
    <3>8. Operand(rs, ready) =
            IF rob_q[i].completed THEN rob_q[i].result
            ELSE IF FromExe(i) THEN exe_to_mem_d.result ELSE mem_result
      BY <2>6 DEF Operand, i
    <3> QED
      BY <3>3, <3>6, <3>7, <3>8
  <2> QED
    BY <2>5, <2>6
<1> QED
  BY <1>1, InvariantHolds, PTL

----------------------------------------------------------------------------
(* The two buffers together, and what a load sees. *)

(* The slots the reorder buffer will commit or discard are the undecided   *)
(* ones of the store buffer, in the same order, until an entry is reused   *)
(* too early (rob.sv:142-148, mem.sv:61-79, store_buffer.sv:71-116).       *)
THEOREM SlotsCorrect == Spec => []SlotsMatchStores
<1>1. IInv => SlotsMatchStores
  <2> SUFFICES ASSUME IInv
               PROVE  SlotsMatchStores
    OBVIOUS
  <2>1. TypeOK /\ Ring /\ SB!WindowInv /\ StoreSlots
    BY DEF IInv
  <2>2. ASSUME clean, NEW i \in StoresInFlight, NEW j \in StoresInFlight,
               RB!Dist(i) < RB!Dist(j)
        PROVE  SB!Dist(SlotOf(i)) < SB!Dist(SlotOf(j))
    <3>1. rob_q[i].kanata_id < rob_q[j].kanata_id
      BY <2>1, <2>2 DEF Ring, RingAges, StoresInFlight
    <3> QED
      BY <2>1, <2>2, <3>1 DEF StoreSlots
  <2> QED
    BY <2>1, <2>2 DEF SlotsMatchStores, StoreSlots
<1> QED
  BY <1>1, InvariantHolds, PTL

LEMMA SlotBackLemma ==
  ASSUME sb_tail_ptr_q \in SB!Idx, NEW k \in 1 .. STORE_BUFFER_SIZE - 1
  PROVE  /\ SB!Back(k) = IF k <= sb_tail_ptr_q THEN sb_tail_ptr_q - k
                                               ELSE sb_tail_ptr_q - k + STORE_BUFFER_SIZE
         /\ SB!Back(k) \in SB!Idx
BY CoreSizeAssumption DEF SB!Back, SB!Idx

(* While a slot is free the search meets every store of the buffer with    *)
(* the address, the youngest first.                                        *)
LEMMA BypassFinds ==
  ASSUME TypeOK, SB!WindowInv, SB!req_ready_o, NEW a
  PROVE  /\ SB!bypass_o(a) <=> \E i \in SB!Idx : SB!Matches(i, a)
         /\ SB!bypass_o(a) =>
              \A i \in SB!Idx :
                SB!Matches(i, a) => SB!Dist(i) <= SB!Dist(SB!bypass_slot(a))
<1> DEFINE K    == 1 .. STORE_BUFFER_SIZE - 1
           Hits == {k \in K : SB!Matches(SB!Back(k), a)}
           First(k) == /\ SB!Matches(SB!Back(k), a)
                       /\ \A j \in 1 .. k - 1 : ~SB!Matches(SB!Back(j), a)
<1>1. sb_head_ptr_q \in SB!Idx /\ sb_tail_ptr_q \in SB!Idx
  BY DEF TypeOK
<1>2. ASSUME NEW i \in SB!Idx, SB!Matches(i, a)
      PROVE  i # sb_tail_ptr_q /\ SB!Dist(i) < SB!Dist(sb_tail_ptr_q)
  <2>1. SB!Dist(i) < SB!Count
    BY <1>2 DEF SB!WindowInv, SB!Matches
  <2>2. sb_head_ptr_q # sb_tail_ptr_q
    BY <1>1, <2>1, CoreSizeAssumption DEF SB!req_ready_o, SB!Count, SB!Dist, SB!Idx
  <2> QED
    BY <1>1, <2>1, <2>2, CoreSizeAssumption DEF SB!Count, SB!Dist, SB!Idx
<1>3. ASSUME NEW i \in SB!Idx, SB!Matches(i, a)
      PROVE  \E k \in K : SB!Back(k) = i
  <2> DEFINE k == IF i < sb_tail_ptr_q THEN sb_tail_ptr_q - i
                                       ELSE sb_tail_ptr_q - i + STORE_BUFFER_SIZE
  <2>1. k \in K
    BY <1>1, <1>2, <1>3, CoreSizeAssumption DEF SB!Idx
  <2>2. SB!Back(k) = i
    BY <1>1, <2>1, SlotBackLemma, CoreSizeAssumption DEF SB!Idx
  <2> QED
    BY <2>1, <2>2
<1>4. SB!bypass_o(a) <=> \E i \in SB!Idx : SB!Matches(i, a)
  BY <1>1, <1>3, SlotBackLemma DEF SB!bypass_o
<1>5. ASSUME SB!bypass_o(a), NEW i \in SB!Idx, SB!Matches(i, a)
      PROVE  SB!Dist(i) <= SB!Dist(SB!bypass_slot(a))
  <2>1. \E k \in K : First(k)
    <3>1. Hits # {} /\ Hits \subseteq Nat
      BY <1>5 DEF SB!bypass_o
    <3>2. PICK k \in Hits : \A j \in Hits : k <= j
      <4> HIDE DEF Hits
      <4> QED
        BY <3>1, LeastElement
    <3>3. \A j \in 1 .. k - 1 : j \in K /\ ~(k <= j)
      BY <3>2, CoreSizeAssumption
    <3> QED
      BY <3>2, <3>3
  <2> DEFINE c == CHOOSE k \in K : First(k)
  <2>2. c \in K /\ First(c)
    BY <2>1, Zenon
  <2>3. SB!bypass_slot(a) = SB!Back(c)
    BY DEF SB!bypass_slot
  <2> HIDE DEF c
  <2>4. PICK k \in K : SB!Back(k) = i
    BY <1>3, <1>5
  <2>5. k >= c
    BY <1>5, <2>2, <2>4, CoreSizeAssumption
  <2>6. /\ i = IF k <= sb_tail_ptr_q THEN sb_tail_ptr_q - k
                                     ELSE sb_tail_ptr_q - k + STORE_BUFFER_SIZE
        /\ SB!Back(c) = IF c <= sb_tail_ptr_q THEN sb_tail_ptr_q - c
                                     ELSE sb_tail_ptr_q - c + STORE_BUFFER_SIZE
        /\ SB!Back(c) \in SB!Idx
    BY <1>1, <2>2, <2>4, SlotBackLemma
  <2>7. /\ SB!Dist(i) < SB!Dist(sb_tail_ptr_q)
        /\ SB!Dist(SB!Back(c)) < SB!Dist(sb_tail_ptr_q)
    BY <1>2, <1>5, <2>2, <2>6
  <2> HIDE DEF First
  <2> QED
    BY <1>1, <2>2, <2>3, <2>5, <2>6, <2>7, CoreSizeAssumption DEF SB!Dist, SB!Idx
<1> QED
  BY <1>4, <1>5

(* A load on the right path is given the youngest earlier store with its   *)
(* address, whenever a slot is free and no flushed store with the address  *)
(* is left in the buffer (mem.sv:54-59, store_buffer.sv:124-133).          *)
THEOREM LoadCorrect == Spec => []LoadRightOtherwise
<1>1. IInv => LoadRightOtherwise
  <2> DEFINE a == exe_to_mem_q.instr.addr
             V == {i \in SB!Idx : Visible(i)}
  <2> SUFFICES ASSUME IInv, SB!req_ready_o,
                      \A i \in SB!Idx : SB!Matches(i, a) => Visible(i)
               PROVE  LoadSeesYoungestStore
    BY DEF LoadRightOtherwise
  <2>1. TypeOK /\ SB!WindowInv
    BY DEF IInv
  <2>2. \A i \in SB!Idx : Visible(i) <=> SB!Matches(i, a)
    BY DEF Visible
  <2>3. bypass_from_sb <=> V # {}
    BY <2>1, <2>2, BypassFinds DEF bypass_from_sb
  <2>4. bypass_from_sb => \A i \in V : SB!Dist(i) <= SB!Dist(SB!bypass_slot(a))
    BY <2>1, <2>2, BypassFinds DEF bypass_from_sb
  <2> QED
    BY <2>3, <2>4 DEF LoadSeesYoungestStore
<1> QED
  BY <1>1, InvariantHolds, PTL

----------------------------------------------------------------------------
(* The commit log.  Ids are handed out without gaps, so the entries of the *)
(* reorder buffer and decode hold the successors of what commits next.     *)

Numbered ==
  /\ decode_q.valid => decode_q.kanata_id + 1 = kanata_id_counter
  /\ Due + RB!Dist(rob_tail_ptr_q) = NextId
  /\ \A i \in RB!Idx : rob_q[i].valid => rob_q[i].kanata_id = Due + RB!Dist(i)

Log ==
  /\ commit_file \in Seq(Ids)
  /\ \A n \in 1 .. Len(commit_file) : commit_file[n] < NextId
  /\ Numbered

LEMMA CommitsOldest ==
  ASSUME TypeOK, Ring, Log, Commit
  PROVE  /\ commit_id = rob_q[rob_head_ptr_q].kanata_id
         /\ commit_id = Due /\ path_id <= commit_id /\ commit_id < NextId
         /\ commit_id \in Ids
<1>1. /\ rob_head_ptr_q \in RB!Idx /\ rob_q[rob_head_ptr_q].valid
      /\ rob_q[rob_head_ptr_q].kanata_id \in Nat
  BY DEF Commit, RB!commit_valid_o, TypeOK, RB!Entry
<1>2. RB!Dist(rob_head_ptr_q) = 0
  BY <1>1 DEF RB!Dist, RB!Idx
<1>3. Due \in Int
  BY CoreSizeAssumption DEF Due, Log, TypeOK, Ids
<1>4. NextId \in Nat /\ NextId <= MaxId /\ MaxId \in Nat
  BY CoreSizeAssumption DEF NextId, TypeOK, Ids
<1> QED
  BY <1>1, <1>2, <1>3, <1>4 DEF commit_id, Commit, Log, Numbered, Ring, RingIds, Ids

(* What commits next, after an edge. *)
LEMMA DueStep ==
  ASSUME TypeOK, Ring, Log,
         NEW fetched \in BOOLEAN, NEW instr \in AnyInstr, NEW ready \in BOOLEAN,
         Cycle(fetched, instr, ready), print_commit
  PROVE  /\ commit_file' \in Seq(Ids)
         /\ Len(commit_file) \in Nat
         /\ \A n \in 1 .. Len(commit_file') :
              \/ n \in 1 .. Len(commit_file) /\ commit_file'[n] = commit_file[n]
              \/ Commit /\ commit_file'[n] = commit_id
         /\ \A n \in 1 .. Len(commit_file) :
              n \in 1 .. Len(commit_file') /\ commit_file'[n] = commit_file[n]
         /\ Due \in Int
         /\ Due' = CASE Flush -> NextId'
                     [] Commit /\ ~Flush -> Due + 1
                     [] OTHER -> Due
<1>1. /\ Flush => path_id' = NextId' /\ Commit
      /\ ~Flush => path_id' = path_id
      /\ NextId \in Int /\ NextId' \in Int /\ NextId <= NextId' /\ path_id \in Int
  BY IdStep, EdgeFacts, CoreSizeAssumption DEF Ring, Ids, TypeOK
<1>2. Due \in Int /\ commit_file \in Seq(Ids) /\ Ids \subseteq Int
  BY CoreSizeAssumption DEF Due, Log, TypeOK, Ids
<1>3. CASE Commit
  <2>1. commit_file' = Append(commit_file, commit_id)
    BY <1>3 DEF print_commit, Commit
  <2>2. commit_id \in Ids /\ commit_id = Due /\ path_id <= commit_id /\ commit_id < NextId
    BY <1>3, CommitsOldest
  <2>3. /\ commit_file' \in Seq(Ids) /\ commit_file' # << >>
        /\ Len(commit_file') = Len(commit_file) + 1
        /\ commit_file'[Len(commit_file')] = commit_id
        /\ \A n \in 1 .. Len(commit_file) : commit_file'[n] = commit_file[n]
    BY <1>2, <2>1, <2>2
  <2>4. Due' = IF commit_id >= path_id' THEN commit_id + 1 ELSE path_id'
    BY <2>3 DEF Due
  <2>5. Len(commit_file) \in Nat
    BY <1>2
  <2>6. Due' = IF Flush THEN NextId' ELSE Due + 1
    <3>1. commit_id \in Int /\ commit_id = Due /\ path_id <= commit_id /\ commit_id < NextId
      BY <1>2, <2>2
    <3>2. CASE Flush
      BY <1>1, <2>4, <3>1, <3>2
    <3>3. CASE ~Flush
      BY <1>1, <2>4, <3>1, <3>3
    <3> QED
      BY <3>2, <3>3
  <2> QED
    BY <1>2, <1>3, <2>2, <2>3, <2>5, <2>6
<1>4. CASE ~Commit
  <2>1. commit_file' = commit_file /\ ~Flush
    BY <1>1, <1>4 DEF print_commit, Commit
  <2>2. Due' = Due
    BY <1>1, <2>1 DEF Due
  <2> QED
    BY <1>2, <1>4, <2>1, <2>2
<1> QED
  BY <1>3, <1>4

LEMMA LogStep ==
  ASSUME TypeOK, TypeOK', Ring, Ring', Log,
         NEW fetched \in BOOLEAN, NEW instr \in AnyInstr, NEW ready \in BOOLEAN,
         Cycle(fetched, instr, ready), print_commit
  PROVE  Log'
<1> DEFINE stalled == stall(fetched, ready)
           issued == Offered(fetched, ready).valid
<1>1. /\ NextId \in Int /\ NextId' \in Int /\ NextId <= NextId'
      /\ issued => decode_q.kanata_id = NextId /\ NextId < NextId'
      /\ Ids \subseteq Int
  BY IdStep, CoreSizeAssumption DEF Ring, Ids
<1>2. /\ commit_file' \in Seq(Ids) /\ Due \in Int
      /\ Due' = CASE Flush -> NextId'
                  [] Commit /\ ~Flush -> Due + 1
                  [] OTHER -> Due
  BY DueStep
<1>3. \A n \in 1 .. Len(commit_file') : commit_file'[n] < NextId'
  <2>1. \A n \in 1 .. Len(commit_file) : commit_file[n] < NextId /\ commit_file[n] \in Int
    <3>1. commit_file \in Seq(Ids)
      BY DEF Log
    <3>2. \A n \in 1 .. Len(commit_file) : commit_file[n] \in Ids
      BY <3>1
    <3> QED
      BY <1>1, <3>2 DEF Log
  <2>2. Commit => commit_id < NextId /\ commit_id \in Int
    BY <1>1, CommitsOldest
  <2> QED
    BY <1>1, <2>1, <2>2, DueStep
<1>4. /\ (decode_q.valid => decode_q.kanata_id + 1 = kanata_id_counter)'
      /\ ~Flush => NextId' = IF issued THEN NextId + 1 ELSE NextId
  <2>1. /\ NextFetch(stalled) /\ NextDecode(stalled, instr)
        /\ issued <=> ~stalled /\ decode_q.valid /\ ~Flush
    BY EdgeFacts, RobInputs
  <2>2. /\ kanata_id_counter \in Int
        /\ decode_q.valid => decode_q.kanata_id + 1 = kanata_id_counter
        /\ decode_q.kanata_id \in Int
    BY <1>1 DEF TypeOK, Log, Numbered
  <2>3. CASE Flush
    BY <2>1, <2>3 DEF NextDecode, NoDecode, Flush
  <2>4. CASE ~Flush /\ stalled
    <3>1. kanata_id_counter' = kanata_id_counter /\ decode_q' = decode_q
      BY <2>1, <2>4 DEF NextFetch, NextDecode, Flush
    <3> QED
      BY <2>1, <2>2, <2>4, <3>1 DEF NextId
  <2>5. CASE ~Flush /\ ~stalled
    <3>1. /\ kanata_id_counter' = kanata_id_counter + 1
          /\ decode_q' = [valid |-> TRUE, instr |-> instr, kanata_id |-> kanata_id_counter]
      BY <2>1, <2>5 DEF NextFetch, NextDecode, Flush
    <3> QED
      BY <2>1, <2>2, <2>5, <3>1 DEF NextId
  <2> QED
    BY <2>3, <2>4, <2>5
<1>5. /\ rob_head_ptr_q \in RB!Idx /\ rob_tail_ptr_q \in RB!Idx
      /\ RB!WindowInv /\ RB!WindowInv'
      /\ rob_head_ptr_q' \in RB!Idx /\ rob_tail_ptr_q' \in RB!Idx
  BY DEF TypeOK, Ring
<1>6. CASE Flush
  <2>1. rob_head_ptr_q' = 0 /\ rob_tail_ptr_q' = 0
    BY <1>6, EdgeFacts
  <2>2. RB!Dist(rob_tail_ptr_q)' = 0
    BY <2>1 DEF RB!Dist
  <2>3. \A i \in RB!Idx : ~rob_q'[i].valid
    BY <1>5, <1>6, Entries
  <2>4. (Due + RB!Dist(rob_tail_ptr_q) = NextId)'
    BY <1>1, <1>2, <1>6, <2>2
  <2> QED
    BY <1>2, <1>3, <1>4, <2>3, <2>4 DEF Log, Numbered
<1>7. CASE ~Flush
  <2> DEFINE shift == IF Commit THEN 1 ELSE 0
  <2>1. Due' = Due + shift
    BY <1>2, <1>7
  <2>2. /\ Due + RB!Dist(rob_tail_ptr_q) = NextId
        /\ \A i \in RB!Idx : rob_q[i].valid => rob_q[i].kanata_id = Due + RB!Dist(i)
    BY DEF Log, Numbered
  (* Every distance shrinks by one when the head commits.                  *)
  <2>3. /\ RB!Dist(rob_tail_ptr_q)' =
             IF issued THEN RB!Dist(rob_tail_ptr_q) + 1 - shift
                       ELSE RB!Dist(rob_tail_ptr_q) - shift
        /\ \A i \in RB!Idx : ~(Commit /\ i = rob_head_ptr_q) =>
             RB!Dist(i)' = RB!Dist(i) - shift
        /\ \A i \in RB!Idx : RB!Dist(i) \in Int
    <3>1. /\ rob_tail_ptr_q' = IF issued THEN IF rob_tail_ptr_q = ROB_SIZE - 1
                                                THEN 0 ELSE rob_tail_ptr_q + 1
                                         ELSE rob_tail_ptr_q
          /\ rob_head_ptr_q' = IF Commit THEN IF rob_head_ptr_q = ROB_SIZE - 1
                                                THEN 0 ELSE rob_head_ptr_q + 1
                                         ELSE rob_head_ptr_q
          /\ Commit => RB!InWindow(rob_head_ptr_q)
          /\ issued => rob_head_ptr_q # IF rob_tail_ptr_q = ROB_SIZE - 1
                                          THEN 0 ELSE rob_tail_ptr_q + 1
      BY <1>5, <1>7, PointerStep
    <3> HIDE DEF issued
    <3>2. \A i \in RB!Idx : ~(Commit /\ i = rob_head_ptr_q) =>
             RB!Dist(i)' = RB!Dist(i) - shift
      BY <1>5, <3>1, CoreSizeAssumption DEF RB!Dist, RB!Idx
    <3>3. RB!Dist(rob_tail_ptr_q)' =
             IF issued THEN RB!Dist(rob_tail_ptr_q) + 1 - shift
                       ELSE RB!Dist(rob_tail_ptr_q) - shift
      BY <1>5, <3>1, CoreSizeAssumption DEF RB!Dist, RB!Idx, RB!InWindow
    <3>4. \A i \in RB!Idx : RB!Dist(i) \in Int
      BY <1>5, CoreSizeAssumption DEF RB!Dist, RB!Idx
    <3> QED
      BY <3>2, <3>3, <3>4
  <2>4. shift \in Int /\ RB!Dist(rob_tail_ptr_q) \in Int
    BY <1>5, <2>3
  <2> HIDE DEF shift, issued
  <2>5. (Due + RB!Dist(rob_tail_ptr_q) = NextId)'
    BY <1>1, <1>2, <1>4, <1>7, <2>1, <2>2, <2>3, <2>4
  <2>6. ASSUME NEW i \in RB!Idx, rob_q'[i].valid
        PROVE  rob_q'[i].kanata_id = Due' + RB!Dist(i)'
    <3>1. /\ ~(Commit /\ i = rob_head_ptr_q)
          /\ issued /\ i = rob_tail_ptr_q => rob_q'[i].kanata_id = decode_q.kanata_id
          /\ ~(issued /\ i = rob_tail_ptr_q) =>
               rob_q[i].valid /\ rob_q'[i].kanata_id = rob_q[i].kanata_id
      BY <1>5, <2>6, Entries DEF issued
    <3>2. RB!Dist(i) \in Int /\ RB!Dist(i)' = RB!Dist(i) - shift
      BY <2>3, <3>1
    <3>3. CASE issued /\ i = rob_tail_ptr_q
      BY <1>1, <1>2, <2>1, <2>2, <2>4, <3>1, <3>2, <3>3
    <3>4. CASE ~(issued /\ i = rob_tail_ptr_q)
      <4>1. rob_q'[i].kanata_id = Due + RB!Dist(i)
        BY <2>2, <3>1, <3>4
      <4> QED
        BY <1>2, <2>1, <2>4, <3>2, <4>1
    <3> QED
      BY <3>3, <3>4
  <2> QED
    BY <1>2, <1>3, <1>4, <2>5, <2>6 DEF Log, Numbered
<1> QED
  BY <1>6, <1>7

----------------------------------------------------------------------------
(* Until an entry is reused too early every slot of the store buffer holds *)
(* the value of its own store, in the log once the slot is committed.      *)

SlotValues ==
  clean =>
    /\ \A j \in StoresInFlight :
         store_buffer_q[SlotOf(j)].data = Value(rob_q[j].kanata_id)
    /\ \A s \in SB!Idx : (store_buffer_q[s].valid /\ store_buffer_q[s].committed) =>
         \E n \in 1 .. Len(commit_file) :
           Value(commit_file[n]) = store_buffer_q[s].data

LEMMA SlotValuesStep ==
  ASSUME TypeOK, TypeOK', Ring, Travelling, CleanInv, SB!WindowInv, StoreSlots, Log,
         SlotValues,
         NEW fetched \in BOOLEAN, NEW instr \in AnyInstr, NEW ready \in BOOLEAN,
         Cycle(fetched, instr, ready), print_commit
  PROVE  SlotValues'
<1> DEFINE in == SbIn(fetched, ready)
           acc == SB!Accepts(in)
<1> SUFFICES ASSUME clean'
             PROVE  /\ \A j \in StoresInFlight' :
                         store_buffer_q'[SlotOf(j)'].data = Value(rob_q'[j].kanata_id)
                    /\ \A s \in SB!Idx :
                         (store_buffer_q'[s].valid /\ store_buffer_q'[s].committed) =>
                           \E n \in 1 .. Len(commit_file') :
                             Value(commit_file'[n]) = store_buffer_q'[s].data
  BY DEF SlotValues, Value
<1>1. clean
  BY EdgeFacts DEF History
<1>2. /\ \A s \in SB!Idx :
           LET e == store_buffer_q[s]
               f == store_buffer_q'[s]
               taken == acc /\ s = sb_tail_ptr_q
           IN  /\ f.valid => taken \/ e.valid
               /\ f.committed <=> \/ ~taken /\ e.committed
                                  \/ in.commit /\ s = in.idx_commit
               /\ f.data = IF taken THEN Value(exe_to_mem_q.kanata_id) ELSE e.data
      /\ acc => ~store_buffer_q[sb_tail_ptr_q].valid
  <2>1. in.data = Value(exe_to_mem_q.kanata_id)
    BY DEF SbIn, SbInput
  <2>2. RB!WindowInv
    BY DEF Ring
  <2> HIDE DEF in
  <2> QED
    BY <2>1, <2>2, SlotEdge, SlotAges DEF in
<1>3. /\ \A j \in StoresInFlight :
           /\ SlotOf(j) \in SB!Idx /\ SB!Speculative(SlotOf(j))
           /\ store_buffer_q[SlotOf(j)].data = Value(rob_q[j].kanata_id)
           /\ rob_q[j].completed => ~rob_q[j].branch_taken
      /\ \A s \in SB!Idx : (store_buffer_q[s].valid /\ store_buffer_q[s].committed) =>
           \E n \in 1 .. Len(commit_file) : Value(commit_file[n]) = store_buffer_q[s].data
  <2>1. \A j \in StoresInFlight : SlotOf(j) \in SB!Idx
    BY DEF StoresInFlight, SlotOf, TypeOK, RB!Entry, WbOp, SB!Idx
  <2> QED
    BY <1>1, <2>1 DEF SlotValues, StoreSlots
<1>4. in.commit => /\ Commit /\ rob_head_ptr_q \in StoresInFlight /\ ~Flush
                   /\ in.idx_commit = SlotOf(rob_head_ptr_q)
  <2>1. /\ in.commit <=> Commit /\ rob_q[rob_head_ptr_q].store_to_mem
        /\ in.commit => in.idx_commit = rob_q[rob_head_ptr_q].store_buffer_idx
    BY DEF SbIn, SbInput, Commit
  <2>2. Commit => /\ rob_q[rob_head_ptr_q].valid /\ rob_q[rob_head_ptr_q].completed
                  /\ rob_head_ptr_q \in RB!Idx
    BY DEF Commit, RB!commit_valid_o, TypeOK
  <2> QED
    BY <1>3, <2>1, <2>2 DEF StoresInFlight, SlotOf, Flush, RB!commit_branch_taken_o
<1> HIDE DEF in, acc
<1>5. ASSUME NEW j \in StoresInFlight'
      PROVE  store_buffer_q'[SlotOf(j)'].data = Value(rob_q'[j].kanata_id)
  <2>1. ~Flush
    BY <1>1, FlushStep
  <2>2. CASE j \in StoresInFlight /\ ~(Commit /\ j = rob_head_ptr_q)
    <3>1. SlotOf(j)' = SlotOf(j) /\ rob_q'[j].kanata_id = rob_q[j].kanata_id
      BY <2>1, <2>2, FlightStep
    <3>2. store_buffer_q[SlotOf(j)].valid
      BY <1>3, <2>2 DEF SB!Speculative
    <3> QED
      BY <1>2, <1>3, <2>2, <3>1, <3>2
  <2>3. CASE /\ acc /\ SlotOf(j)' = sb_tail_ptr_q
             /\ rob_q'[j].kanata_id = exe_to_mem_q.kanata_id
    <3>1. sb_tail_ptr_q \in SB!Idx
      BY DEF TypeOK
    <3> QED
      BY <1>2, <2>3, <3>1
  <2> QED
    BY <2>1, <2>2, <2>3, FlightStep DEF acc, in
<1>6. ASSUME NEW s \in SB!Idx, store_buffer_q'[s].valid, store_buffer_q'[s].committed
      PROVE  \E n \in 1 .. Len(commit_file') :
               Value(commit_file'[n]) = store_buffer_q'[s].data
  <2>1. CASE store_buffer_q[s].committed /\ ~(acc /\ s = sb_tail_ptr_q)
    <3>1. PICK n \in 1 .. Len(commit_file) :
            Value(commit_file[n]) = store_buffer_q[s].data
      BY <1>2, <1>3, <1>6, <2>1
    <3>2. n \in 1 .. Len(commit_file') /\ commit_file'[n] = commit_file[n]
      BY DueStep
    <3> QED
      BY <1>2, <2>1, <3>1, <3>2
  (* The store that commits now: its line is the last of the log.          *)
  <2>2. CASE in.commit /\ s = in.idx_commit
    <3>1. store_buffer_q[s].valid
      BY <1>3, <1>4, <2>2 DEF SB!Speculative
    <3>2. store_buffer_q'[s].data = Value(rob_q[rob_head_ptr_q].kanata_id)
      BY <1>2, <1>3, <1>4, <2>2, <3>1
    <3>3. commit_file \in Seq(Ids) /\ commit_id = rob_q[rob_head_ptr_q].kanata_id
      BY <1>4, <2>2, CommitsOldest DEF Log
    <3>4. commit_file' = Append(commit_file, commit_id)
      BY <1>4, <2>2 DEF print_commit, Commit
    <3>5. /\ Len(commit_file') \in 1 .. Len(commit_file')
          /\ commit_file'[Len(commit_file')] = commit_id
      BY <3>3, <3>4
    <3> QED
      BY <3>2, <3>3, <3>5
  <2> QED
    BY <1>2, <1>6, <2>1, <2>2
<1> QED
  BY <1>5, <1>6

----------------------------------------------------------------------------
(* The pipeline trace.  First what a reader makes of the lines of one call *)
(* about one instruction: Shown is its lane in its n-th stage, Done after  *)
(* it has committed.                                                       *)

Shown(n) ==
  [open |-> Stages[n], passed |-> [k \in 1 .. n |-> Stages[k]], retired |-> "", bad |-> FALSE]
Done == [open |-> "WRITEBACK", passed |-> Stages, retired |-> "commit", bad |-> FALSE]
Move(k) == << << "E", Stages[k - 1] >>, << "S", Stages[k] >> >>

(* ReadLines and Read, for the lines that print_kanata prints.             *)
LEMMA ReadTwo ==
  ASSUME NEW l, NEW a, NEW b
  PROVE  ReadLines(l, << a, b >>) = Read(Read(l, a), b)
BY DEF ReadLines

LEMMA ReadNone ==
  ASSUME NEW l
  PROVE  ReadLines(l, << >>) = l
BY DEF ReadLines

LEMMA ReadFetch ==
  ASSUME NEW l
  PROVE  ReadLines(l, << << "I", "" >>, << "S", "FETCH" >> >>) = Shown(1)
<1> DEFINE a == << "I", "" >>
           b == << "S", "FETCH" >>
<1>1. ReadLines(l, << a, b >>) = Read(Read(l, a), b)
  <2> HIDE DEF a, b
  <2> QED
    BY ReadTwo
<1>2. Read(l, a) = NoLane
  BY DEF Read, Ignored
<1>3. ~Ignored(NoLane, "S")
  <2>1. Len(Stages) = 5 /\ Len(<< >>) = 0
    BY DEF Stages
  <2> QED
    BY <2>1 DEF Ignored, NoLane
<1>4. Read(NoLane, b) =
        [open |-> "FETCH", passed |-> Append(<< >>, "FETCH"), retired |-> "", bad |-> FALSE]
  BY <1>3 DEF Read, NoLane
<1>5. Append(<< >>, "FETCH") = [k \in 1 .. 1 |-> Stages[k]]
  BY DEF Stages
<1> QED
  BY <1>1, <1>2, <1>4, <1>5 DEF Shown, Stages

LEMMA ReadMove ==
  ASSUME NEW n \in 1 .. 4
  PROVE  ReadLines(Shown(n), << << "E", Stages[n] >>, << "S", Stages[n + 1] >> >>) =
           Shown(n + 1)
<1> DEFINE a == << "E", Stages[n] >>
           b == << "S", Stages[n + 1] >>
           S == {Stages[k] : k \in 1 .. 5}
           p == [k \in 1 .. n |-> Stages[k]]
           between == [open |-> "", passed |-> p, retired |-> "", bad |-> FALSE]
<1>0. p \in Seq(S) /\ Len(p) = n /\ p # Stages
  <2>1. p \in [1 .. n -> S]
    OBVIOUS
  <2>3. p \in Seq(S) /\ Len(p) = n
    BY <2>1
  <2> QED
    BY <2>3 DEF Stages
<1>1. ReadLines(Shown(n), << a, b >>) = Read(Read(Shown(n), a), b)
  BY ReadTwo
<1>2. Read(Shown(n), a) = between
  <2>1. ~Ignored(Shown(n), "E")
    BY <1>0 DEF Ignored, Shown
  <2> QED
    BY <2>1 DEF Read, Shown
<1>3. Append(p, Stages[n + 1]) = [k \in 1 .. n + 1 |-> Stages[k]]
  BY <1>0
<1>4. Read(between, b) = [open |-> Stages[n + 1], passed |-> Append(p, Stages[n + 1]),
                          retired |-> "", bad |-> FALSE]
  <2>1. ~Ignored(between, "S")
    BY <1>0 DEF Ignored
  <2> QED
    BY <2>1 DEF Read
<1> QED
  BY <1>1, <1>2, <1>3, <1>4 DEF Shown

LEMMA ReadIgnored ==
  ASSUME NEW l, NEW a, NEW b, Ignored(l, a[1]), Ignored(l, b[1])
  PROVE  ReadLines(l, << a, b >>) = l
BY ReadTwo DEF Read

LEMMA ShownAll ==
  /\ Shown(5).passed = Stages /\ Shown(5).open = "WRITEBACK"
  /\ Shown(5).retired = "" /\ Shown(5).bad = FALSE
BY DEF Shown, Stages

LEMMA ReadRetired ==
  ASSUME NEW o, NEW p, NEW r, NEW t, NEW l, ~Ignored(l, "R"),
         l = [open |-> o, passed |-> p, retired |-> r, bad |-> FALSE]
  PROVE  Read(l, << "R", t >>) = [open |-> o, passed |-> p, retired |-> t, bad |-> FALSE]
<1> DEFINE A == {o}
           B == {p}
           C == {r, t}
<1>1. o \in A /\ p \in B /\ r \in C /\ t \in C
  OBVIOUS
<1> HIDE DEF A, B, C
<1>2. PICK x : x = l
  OBVIOUS
<1>3. x \in [open : A, passed : B, retired : C, bad : BOOLEAN]
  BY <1>1, <1>2
<1>4. [x EXCEPT !.retired = t] =
        [open |-> x.open, passed |-> x.passed, retired |-> t, bad |-> x.bad]
  BY <1>1, <1>3
<1>6. Read(l, << "R", t >>) = [l EXCEPT !.retired = t]
  BY DEF Read
<1> QED
  BY <1>2, <1>4, <1>6

LEMMA ReadLast ==
  ASSUME NEW l, NEW t, ~Ignored(l, "R"),
         l = [open |-> l.open, passed |-> l.passed, retired |-> l.retired, bad |-> FALSE]
  PROVE  Read(l, << "R", t >>) =
           [open |-> l.open, passed |-> l.passed, retired |-> t, bad |-> FALSE]
<1>1. PICK o, p, r : l = [open |-> o, passed |-> p, retired |-> r, bad |-> FALSE]
  OBVIOUS
<1>2. Read(l, << "R", t >>) = [open |-> o, passed |-> p, retired |-> t, bad |-> FALSE]
  BY <1>1, ReadRetired
<1>3. l.open = o /\ l.passed = p
  BY <1>1
<1> QED
  BY <1>2, <1>3

LEMMA ReadCommit ==
  ASSUME NEW s
  PROVE  ReadLines(Shown(5), << << "E", s >>, << "R", "commit" >> >>) = Done
<1>1. Shown(5) = [open |-> Shown(5).open, passed |-> Shown(5).passed,
                  retired |-> Shown(5).retired, bad |-> FALSE]
  BY DEF Shown
<1>2. Read(Shown(5), << "R", "commit" >>) = Done
  <2>1. ~Ignored(Shown(5), "R")
    BY ShownAll DEF Ignored
  <2>2. Read(Shown(5), << "R", "commit" >>) =
           [open |-> Shown(5).open, passed |-> Shown(5).passed,
            retired |-> "commit", bad |-> FALSE]
    BY <1>1, <2>1, ReadLast
  <2> QED
    BY <2>2, ShownAll DEF Done
<1>3. Ignored(Shown(5), "E")
  BY ShownAll DEF Ignored
<1>4. Read(Shown(5), << "E", s >>) = Shown(5)
  BY <1>3 DEF Read
<1> QED
  BY <1>2, <1>4, ReadTwo

LEMMA OneShown ==
  ASSUME NEW n \in 1 .. 5, NEW m \in 1 .. 5, Shown(n) = Shown(m)
  PROVE  n = m
<1>1. Stages[n] = Stages[m]
  BY DEF Shown
<1> QED
  BY <1>1 DEF Stages

----------------------------------------------------------------------------
(* The entries of instruction_stage, and one call of print_kanata.         *)

StageNames == {"ABSENT", "NONE", "FETCH", "DECODE", "EXECUTE", "MEMORY", "WRITEBACK"}

(* The valid register whose stage is Stages[k] holds the instruction id.   *)
Sees(k, id) == Seen(Stages[k]).valid /\ Seen(Stages[k]).id = id

(* The reader and kanata.cpp both have the instruction in its n-th stage,  *)
(* or, once it has been in write-back, kanata.cpp has it in any.           *)
At(id, n) ==
  /\ lane[id] = Shown(n)
  /\ instruction_stage[id] \notin {"ABSENT", "NONE"}
  /\ n # 5 => instruction_stage[id] = Stages[n]

LEMMA SeenFacts ==
  ASSUME TypeOK
  PROVE  /\ \A k \in 2 .. 5 : Seen(Stages[k]).id \in Ids /\ Stages[k] \in StageNames
         /\ \A id : /\ Sees(2, id) <=> decode_q.valid /\ decode_q.kanata_id = id
                    /\ Sees(3, id) <=> decode_to_exe_q.valid /\ decode_to_exe_q.kanata_id = id
                    /\ Sees(4, id) <=> exe_to_mem_q.valid /\ exe_to_mem_q.kanata_id = id
                    /\ Sees(5, id) <=> mem_to_wb_q.valid /\ mem_to_wb_q.kanata_id = id
<1>1. /\ Stages[2] = "DECODE" /\ Stages[3] = "EXECUTE" /\ Stages[4] = "MEMORY"
      /\ Stages[5] = "WRITEBACK"
  BY DEF Stages
<1>2. /\ Seen("DECODE") = [id |-> decode_q.kanata_id, valid |-> decode_q.valid]
      /\ Seen("EXECUTE") = [id |-> decode_to_exe_q.kanata_id, valid |-> decode_to_exe_q.valid]
      /\ Seen("MEMORY") = [id |-> exe_to_mem_q.kanata_id, valid |-> exe_to_mem_q.valid]
      /\ Seen("WRITEBACK") = [id |-> mem_to_wb_q.kanata_id, valid |-> mem_to_wb_q.valid]
  BY DEF Seen
<1>3. /\ decode_q.kanata_id \in Ids /\ decode_to_exe_q.kanata_id \in Ids
      /\ exe_to_mem_q.kanata_id \in Ids /\ mem_to_wb_q.kanata_id \in Ids
  BY DEF TypeOK, Op, MemOp, WbOp
<1>4. \A k \in 2 .. 5 : k = 2 \/ k = 3 \/ k = 4 \/ k = 5
  OBVIOUS
<1>5. \A k \in 2 .. 5 : Seen(Stages[k]).id \in Ids /\ Stages[k] \in StageNames
  BY <1>1, <1>2, <1>3, <1>4 DEF StageNames
<1> QED
  BY <1>1, <1>2, <1>5 DEF Sees

(* One of the four assignments, unless it is to the entry of an id NONE.   *)
LEMMA AssignedAt ==
  ASSUME TypeOK, NEW m \in [Ids -> StageNames], NEW k \in 2 .. 5
  PROVE  /\ Assigned(m, Stages[k]) \in [Ids -> StageNames]
         /\ \A id \in Ids :
              (prev(id) # "NONE" \/ Seen(Stages[k]).id # id) =>
                Assigned(m, Stages[k])[id] = IF Sees(k, id) /\ prev(id) # "NONE"
                                               THEN Stages[k] ELSE m[id]
<1> DEFINE s == Seen(Stages[k])
           a == Assigned(m, Stages[k])
<1>1. s.id \in Ids /\ Stages[k] \in StageNames /\ "NONE" \in StageNames
  BY SeenFacts DEF StageNames
<1>2. \A id : Sees(k, id) <=> s.valid /\ s.id = id
  BY DEF Sees
<1>3. CASE s.valid /\ prev(s.id) # "NONE"
  <2>1. a = [m EXCEPT ![s.id] = Stages[k]]
    BY <1>3 DEF Assigned
  <2> HIDE DEF a, s
  <2> QED
    BY <1>1, <1>2, <1>3, <2>1 DEF a, s
<1>4. CASE prev(s.id) = "NONE"
  <2>1. a = [m EXCEPT ![s.id] = "NONE"]
    BY <1>4 DEF Assigned
  <2> HIDE DEF a, s
  <2> QED
    BY <1>1, <1>2, <1>4, <2>1 DEF a, s
<1>5. CASE ~s.valid /\ prev(s.id) # "NONE"
  <2>1. a = m
    BY <1>5 DEF Assigned
  <2> HIDE DEF a, s
  <2> QED
    BY <1>1, <1>2, <1>5, <2>1 DEF a, s
<1> QED
  BY <1>3, <1>4, <1>5

(* The entry of an id after a call without a flush.                        *)
LEMMA StageAfter ==
  ASSUME TypeOK, instruction_stage \in [Ids -> StageNames], commit_id \in Ids
  PROVE  /\ NextStages \in [Ids -> StageNames]
         /\ \A id \in Ids :
              (prev(id) # "NONE" \/ \A k \in 2 .. 5 : Seen(Stages[k]).id # id) =>
                NextStages[id] =
                  IF \E k \in 2 .. 5 : Sees(k, id)
                    THEN IF Sees(5, id) THEN Stages[5] ELSE
                         IF Sees(4, id) THEN Stages[4] ELSE
                         IF Sees(3, id) THEN Stages[3] ELSE Stages[2]
                    ELSE IF id = kanata_id_counter THEN "FETCH" ELSE
                         IF Commits /\ id = commit_id THEN "ABSENT" ELSE instruction_stage[id]
<1> DEFINE erased == IF Commits THEN [instruction_stage EXCEPT ![commit_id] = "ABSENT"]
                                ELSE instruction_stage
           fetched == [erased EXCEPT ![kanata_id_counter] = "FETCH"]
           m2 == Assigned(fetched, Stages[2])
           m3 == Assigned(m2, Stages[3])
           m4 == Assigned(m3, Stages[4])
           m5 == Assigned(m4, Stages[5])
<1> DEFINE skip(id) == prev(id) # "NONE" \/ \A k \in 2 .. 5 : Seen(Stages[k]).id # id
           has(k, id) == Sees(k, id) /\ prev(id) # "NONE"
<1>1. NextStages = m5
  BY DEF NextStages, Stages
<1>2. "ABSENT" \in StageNames /\ "FETCH" \in StageNames /\ kanata_id_counter \in Ids
  BY DEF StageNames, TypeOK
<1>3. /\ erased \in [Ids -> StageNames]
      /\ \A id \in Ids : erased[id] = IF Commits /\ id = commit_id THEN "ABSENT"
                                                                 ELSE instruction_stage[id]
  BY <1>2
<1> HIDE DEF erased
<1>4. /\ fetched \in [Ids -> StageNames]
      /\ \A id \in Ids : fetched[id] = IF id = kanata_id_counter THEN "FETCH" ELSE erased[id]
  BY <1>2, <1>3
<1>5. \A k \in 2 .. 5 : \A id : Sees(k, id) => Seen(Stages[k]).id = id
  BY DEF Sees
<1> HIDE DEF fetched
<1>6. /\ m2 \in [Ids -> StageNames]
      /\ \A id \in Ids : skip(id) => m2[id] = IF has(2, id) THEN Stages[2] ELSE fetched[id]
  BY <1>4, AssignedAt
<1> HIDE DEF m2
<1>7. /\ m3 \in [Ids -> StageNames]
      /\ \A id \in Ids : skip(id) => m3[id] = IF has(3, id) THEN Stages[3] ELSE m2[id]
  BY <1>6, AssignedAt
<1> HIDE DEF m3
<1>8. /\ m4 \in [Ids -> StageNames]
      /\ \A id \in Ids : skip(id) => m4[id] = IF has(4, id) THEN Stages[4] ELSE m3[id]
  BY <1>7, AssignedAt
<1> HIDE DEF m4
<1>9. /\ m5 \in [Ids -> StageNames]
      /\ \A id \in Ids : skip(id) => m5[id] = IF has(5, id) THEN Stages[5] ELSE m4[id]
  BY <1>8, AssignedAt
<1> HIDE DEF m5
<1>10. ASSUME NEW id \in Ids, skip(id), NEW k \in 2 .. 5
       PROVE  has(k, id) <=> Sees(k, id)
  BY <1>5, <1>10
<1>11. 2 \in 2 .. 5 /\ 3 \in 2 .. 5 /\ 4 \in 2 .. 5 /\ 5 \in 2 .. 5
  OBVIOUS
<1>12. \A k \in 2 .. 5 : k = 2 \/ k = 3 \/ k = 4 \/ k = 5
  OBVIOUS
<1> HIDE DEF has
<1>13. ASSUME NEW id \in Ids, skip(id)
       PROVE  NextStages[id] =
                  IF \E k \in 2 .. 5 : Sees(k, id)
                    THEN IF Sees(5, id) THEN Stages[5] ELSE
                         IF Sees(4, id) THEN Stages[4] ELSE
                         IF Sees(3, id) THEN Stages[3] ELSE Stages[2]
                    ELSE IF id = kanata_id_counter THEN "FETCH" ELSE
                         IF Commits /\ id = commit_id THEN "ABSENT" ELSE instruction_stage[id]
  <2>1. /\ has(2, id) <=> Sees(2, id)
        /\ has(3, id) <=> Sees(3, id)
        /\ has(4, id) <=> Sees(4, id)
        /\ has(5, id) <=> Sees(5, id)
    BY <1>10, <1>11, <1>13
  <2>2. (\E k \in 2 .. 5 : Sees(k, id)) <=>
          Sees(2, id) \/ Sees(3, id) \/ Sees(4, id) \/ Sees(5, id)
    BY <1>11, <1>12
  <2> HIDE DEF skip
  <2> QED
    BY <1>1, <1>3, <1>4, <1>6, <1>7, <1>8, <1>9, <1>13, <2>1, <2>2
<1> QED
  BY <1>1, <1>9, <1>13

LEMMA StageOrder ==
  /\ \A n \in 1 .. 5, k \in 1 .. 5 : Stages[n] = Stages[k] => n = k
  /\ \A k \in 1 .. 5 : Stages[k] \notin {"ABSENT", "NONE"}
BY DEF Stages

LEMMA MoveFacts ==
  ASSUME NEW id, NEW k \in 2 .. 5, instruction_stage[id] \notin {"ABSENT", "NONE"}
  PROVE  MoveLines(k, id) = IF Sees(k, id) /\ instruction_stage[id] # Stages[k]
                              THEN Move(k) ELSE << >>
<1>1. prev(id) = instruction_stage[id] /\ prev(id) # "NONE"
  BY DEF prev
<1>2. Seen(Stages[k]).id = id =>
        (Moves(Stages[k]) <=> Seen(Stages[k]).valid /\ instruction_stage[id] # Stages[k])
  BY <1>1 DEF Moves
<1> QED
  BY <1>2 DEF MoveLines, Move, Sees

(* One call without a flush: the instruction is shown in the stage it was  *)
(* in, or in the next one if it is seen there.                             *)
LEMMA LaneStep ==
  ASSUME TypeOK, instruction_stage \in [Ids -> StageNames], commit_id \in Ids,
         ~Flush, print_kanata, ReadTrace,
         NEW id \in Ids, id # kanata_id_counter, ~(Commit /\ id = commit_id),
         NEW n \in 1 .. 5, At(id, n),
         \A k \in 2 .. 5 : Sees(k, id) => n = k - 1 \/ n = k \/ n = 5
  PROVE  \E m \in n .. 5 : /\ At(id, m)'
                           /\ m = n \/ (m = n + 1 /\ Sees(m, id))
                           /\ \A k \in 2 .. 5 : Sees(k, id) => m >= k
<1> DEFINE m == IF n # 5 /\ Sees(n + 1, id) THEN n + 1 ELSE n
           at(k) == IF k > n + 1 THEN m ELSE n
<1>1. /\ m \in n .. 5 /\ m \in 1 .. 5
      /\ m = n \/ (m = n + 1 /\ Sees(m, id))
      /\ \A k \in 2 .. 5 : Sees(k, id) => m >= k
  OBVIOUS
<1>2. /\ lane[id] = Shown(n) /\ instruction_stage[id] \notin {"ABSENT", "NONE"}
      /\ n # 5 => instruction_stage[id] = Stages[n]
  BY DEF At
<1>3. ASSUME NEW k \in 2 .. 5
      PROVE  ReadLines(Shown(at(k)), MoveLines(k, id)) = Shown(at(k + 1))
  <2>1. MoveLines(k, id) = IF Sees(k, id) /\ instruction_stage[id] # Stages[k]
                             THEN Move(k) ELSE << >>
    BY <1>2, MoveFacts
  <2>2. CASE n = 5
    <3>1. ReadLines(Shown(5), Move(k)) = Shown(5)
      <4> DEFINE a == << "E", Stages[k - 1] >>
                 b == << "S", Stages[k] >>
      <4>1. Ignored(Shown(5), a[1]) /\ Ignored(Shown(5), b[1])
        BY ShownAll DEF Ignored
      <4> HIDE DEF a, b
      <4>2. ReadLines(Shown(5), << a, b >>) = Shown(5)
        BY <4>1, ReadIgnored
      <4> QED
        BY <4>2 DEF Move, a, b
    <3> QED
      BY <2>1, <2>2, <3>1, ReadNone
  <2>3. CASE n # 5 /\ k = n + 1
    <3>1. n \in 1 .. 4 /\ k - 1 = n /\ at(k) = n /\ at(k + 1) = m
      BY <2>3
    <3>2. Stages[n] # Stages[k]
      BY <2>3, StageOrder
    <3>3. ReadLines(Shown(n), Move(n + 1)) = Shown(n + 1)
      BY <3>1, ReadMove DEF Move
    <3> QED
      BY <1>2, <2>1, <2>3, <3>1, <3>2, <3>3, ReadNone
  <2>4. CASE n # 5 /\ k # n + 1
    <3>1. Sees(k, id) => k = n
      BY <2>4
    <3>2. MoveLines(k, id) = << >> /\ at(k) = at(k + 1)
      BY <1>2, <2>1, <2>4, <3>1
    <3> QED
      BY <3>2, ReadNone
  <2> QED
    BY <2>2, <2>3, <2>4
<1>4. lane'[id] = Shown(m)
  <2>1. FetchLines(id) = << >> /\ CommitLines(id) = << >>
    BY DEF FetchLines, CommitLines, Commits, Commit
  <2>2. lane'[id] =
          ReadLines(ReadLines(ReadLines(ReadLines(ReadLines(ReadLines(lane[id],
            FetchLines(id)), MoveLines(2, id)), MoveLines(3, id)), MoveLines(4, id)),
            MoveLines(5, id)), CommitLines(id))
    BY DEF ReadTrace, Flush
  <2>3. at(2) = n /\ at(6) = m
    BY <1>1
  <2> HIDE DEF at, m
  <2>4. lane'[id] = ReadLines(ReadLines(ReadLines(ReadLines(Shown(at(2)),
            MoveLines(2, id)), MoveLines(3, id)), MoveLines(4, id)), MoveLines(5, id))
    BY <1>2, <2>1, <2>2, <2>3, ReadNone
  <2>5. /\ ReadLines(Shown(at(2)), MoveLines(2, id)) = Shown(at(2 + 1))
        /\ ReadLines(Shown(at(3)), MoveLines(3, id)) = Shown(at(3 + 1))
        /\ ReadLines(Shown(at(4)), MoveLines(4, id)) = Shown(at(4 + 1))
        /\ ReadLines(Shown(at(5)), MoveLines(5, id)) = Shown(at(5 + 1))
    BY <1>3
  <2>6. 2 + 1 = 3 /\ 3 + 1 = 4 /\ 4 + 1 = 5 /\ 5 + 1 = 6
    OBVIOUS
  <2> QED
    BY <2>3, <2>4, <2>5, <2>6
<1>5. /\ instruction_stage'[id] \notin {"ABSENT", "NONE"}
      /\ m # 5 => instruction_stage'[id] = Stages[m]
  <2>1. instruction_stage'[id] =
          IF \E k \in 2 .. 5 : Sees(k, id)
            THEN IF Sees(5, id) THEN Stages[5] ELSE
                 IF Sees(4, id) THEN Stages[4] ELSE
                 IF Sees(3, id) THEN Stages[3] ELSE Stages[2]
            ELSE instruction_stage[id]
    <3>1. prev(id) # "NONE"
      BY <1>2 DEF prev
    <3>2. ~(Commits /\ id = commit_id)
      BY DEF Commits, Commit
    <3>3. instruction_stage' = NextStages
      BY DEF print_kanata, Flush
    <3> QED
      BY <3>1, <3>2, <3>3, StageAfter
  <2>2. \A k \in 1 .. 5 : Stages[k] \notin {"ABSENT", "NONE"}
    BY StageOrder
  <2>3. 2 \in 2 .. 5 /\ 3 \in 2 .. 5 /\ 4 \in 2 .. 5 /\ 5 \in 2 .. 5
    OBVIOUS
  <2>4. ASSUME m # 5, \E k \in 2 .. 5 : Sees(k, id)
        PROVE  instruction_stage'[id] = Stages[m]
    <3>1. n # 5 /\ \A k \in 2 .. 5 : Sees(k, id) => n = k - 1 \/ n = k
      BY <1>1, <2>4
    <3>2. PICK k \in 2 .. 5 : Sees(k, id)
      BY <2>4
    <3>3. \A j \in 2 .. 5 : j > m => ~Sees(j, id)
      BY <3>1
    <3>4. Sees(m, id) /\ m \in 2 .. 4
      BY <1>1, <2>4, <3>1, <3>2
    <3> HIDE DEF m
    <3>5. m = 2 \/ m = 3 \/ m = 4
      BY <3>4
    <3> QED
      BY <2>1, <2>3, <2>4, <3>3, <3>4, <3>5
  <2>5. ASSUME m # 5, ~\E k \in 2 .. 5 : Sees(k, id)
        PROVE  instruction_stage'[id] = Stages[m]
    <3>1. m = n
      BY <1>1, <2>5
    <3> QED
      BY <1>2, <2>1, <2>5, <3>1
  <2> HIDE DEF m
  <2> QED
    BY <1>2, <2>1, <2>2, <2>4, <2>5
<1> HIDE DEF m
<1> QED
  BY <1>1, <1>4, <1>5 DEF At

----------------------------------------------------------------------------
(* Where the instructions are, and where the trace has them.  Followed are *)
(* the lanes of what has not committed nor been flushed, but id 0.         *)

Live(id) == id # 0 /\ id >= Due

From(id, N) == Live(id) => \E n \in N : At(id, n)

(* What a register names, valid or not, was fetched before.                *)
OldId(id) == id = 0 \/ id < kanata_id_counter

(* An id that is new to the trace is new to the pipeline, and the one that *)
(* is being fetched has its I line.                                        *)
TraceIds ==
  /\ instruction_stage \in [Ids -> StageNames]
  /\ OldId(decode_q.kanata_id) /\ OldId(decode_to_exe_q.kanata_id)
  /\ \A k \in PipeStages : OldId(exe_pipe_q[k].kanata_id)
  /\ OldId(exe_to_mem_q.kanata_id) /\ OldId(mem_to_wb_q.kanata_id)
  /\ \A id \in Ids : id > kanata_id_counter => instruction_stage[id] # "FETCH"
  /\ (kanata_id_counter # 0 /\ instruction_stage[kanata_id_counter] = "FETCH") =>
       lane[kanata_id_counter] = Shown(1)

(* The stages in which an instruction can be shown, register by register:  *)
(* the trace is a cycle behind, and a multiplication held in front of      *)
(* execute is also in its pipe.                                            *)
TraceStages ==
  /\ decode_q.valid => From(decode_q.kanata_id, 1 .. 2)
  /\ decode_to_exe_q.valid => From(decode_to_exe_q.kanata_id, 2 .. 3)
  /\ \A k \in PipeStages : exe_pipe_q[k].valid => From(exe_pipe_q[k].kanata_id, 3 .. 5)
  /\ exe_to_mem_q.valid => From(exe_to_mem_q.kanata_id, 3 .. 5)
  /\ mem_to_wb_q.valid => From(mem_to_wb_q.kanata_id, 4 .. 5)
  /\ clean => \A i \in RB!Idx :
       (rob_q[i].valid /\ rob_q[i].completed) => From(rob_q[i].kanata_id, {5})

LEMMA CommitId ==
  ASSUME TypeOK, Ring, Log
  PROVE  commit_id \in Ids
<1>1. CASE Commit
  BY <1>1, CommitsOldest
<1>2. CASE ~Commit
  BY <1>2, CoreSizeAssumption DEF commit_id, Commit, Ids
<1> QED
  BY <1>1, <1>2

(* The ids in the registers, valid or not, are old ones.                   *)
LEMMA OldIdsStep ==
  ASSUME TypeOK, TraceIds,
         NEW fetched \in BOOLEAN, NEW instr \in AnyInstr, NEW ready \in BOOLEAN,
         Cycle(fetched, instr, ready)
  PROVE  /\ kanata_id_counter <= kanata_id_counter'
         /\ OldId(decode_q.kanata_id)' /\ OldId(decode_to_exe_q.kanata_id)'
         /\ \A k \in PipeStages : OldId(exe_pipe_q[k].kanata_id)'
         /\ OldId(exe_to_mem_q.kanata_id)' /\ OldId(mem_to_wb_q.kanata_id)'
<1> DEFINE c == kanata_id_counter
           d == kanata_id_counter'
           stalled == stall(fetched, ready)
           old(id) == id = 0 \/ id < c
           new(id) == id = 0 \/ id < d
<1>1. /\ NextFetch(stalled) /\ NextDecode(stalled, instr)
      /\ NextExe(stalled, stall_from_exe \/ stall_from_mem(ready), Offered(fetched, ready))
      /\ Execute(stall_from_mem(ready)) /\ mem_to_wb_q' = mem_to_wb_d(ready)
  BY EdgeFacts
<1>2. /\ c \in Int /\ d \in Int /\ c <= d
      /\ ~stalled /\ ~Flush => d = c + 1
  BY <1>1, CoreSizeAssumption DEF NextFetch, Flush, TypeOK, Ids
<1>3. /\ decode_q.kanata_id \in Int /\ decode_to_exe_q.kanata_id \in Int
      /\ \A k \in PipeStages : exe_pipe_q[k].kanata_id \in Int
      /\ exe_to_mem_q.kanata_id \in Int
  <2>1. /\ decode_to_exe_q \in Op /\ exe_to_mem_q \in MemOp /\ decode_q.kanata_id \in Ids
        /\ \A k \in PipeStages : exe_pipe_q[k] \in Op
    BY DEF TypeOK, PipeStages
  <2>2. Ids \subseteq Int
    BY DEF Ids
  <2> QED
    BY <2>1, <2>2 DEF Op, MemOp
<1>4. /\ old(decode_q.kanata_id) /\ old(decode_to_exe_q.kanata_id)
      /\ \A k \in PipeStages : old(exe_pipe_q[k].kanata_id)
      /\ old(exe_to_mem_q.kanata_id)
  BY DEF TraceIds, OldId
<1>5. \A id \in Int : old(id) => new(id)
  BY <1>2
<1>6. new(decode_q'.kanata_id)
  <2>1. \/ decode_q' = NoDecode
        \/ decode_q' = decode_q
        \/ ~stalled /\ ~Flush /\ decode_q'.kanata_id = c
    BY <1>1 DEF NextDecode, Flush
  <2> QED
    BY <1>2, <1>3, <1>4, <1>5, <2>1 DEF NoDecode
<1> HIDE DEF old
<1>7. new(decode_to_exe_q'.kanata_id)
  <2>1. \/ decode_to_exe_q'.kanata_id = decode_q.kanata_id
        \/ decode_to_exe_q'.kanata_id = 0
        \/ decode_to_exe_q' = decode_to_exe_q
    BY <1>1 DEF NextExe, NOP_INSTR
  <2> QED
    BY <1>3, <1>4, <1>5, <2>1
<1>8. \A k \in PipeStages : new(exe_pipe_q'[k].kanata_id)
  <2> SUFFICES ASSUME NEW k \in PipeStages
               PROVE  new(exe_pipe_q'[k].kanata_id)
    OBVIOUS
  <2>1. exe_pipe_q'[k] = exe_pipe_d(k) /\ NOP_INSTR.kanata_id = 0
    BY <1>1 DEF Execute, PipeStages, NOP_INSTR
  <2>2. CASE k = 0
    BY <1>3, <1>4, <1>5, <2>1, <2>2, PipeNext
  <2>3. CASE k # 0
    BY <1>3, <1>4, <1>5, <2>1, <2>3, PipeNext
  <2> QED
    BY <2>2, <2>3
<1>9. new(exe_to_mem_q'.kanata_id)
  <2> DEFINE out == exe_pipe_d(MAX_EXE_STAGES - 1)
             last == MAX_EXE_STAGES - 2
  <2>1. MAX_EXE_STAGES - 1 # 0 /\ MAX_EXE_STAGES - 1 - 1 = last /\ last \in PipeStages
    BY CoreSizeAssumption DEF PipeStages, MAX_EXE_STAGES
  <2>2. out = decode_to_exe_q \/ out = exe_pipe_q[last]
    BY <2>1 DEF exe_pipe_d, Shifted
  <2> HIDE DEF out
  <2>3. exe_to_mem_d.kanata_id = out.kanata_id
    BY DEF exe_to_mem_d, ToMem, out
  <2>4. exe_to_mem_q' = exe_to_mem_q \/ exe_to_mem_q' = exe_to_mem_d
    BY <1>1 DEF Execute
  <2> QED
    BY <1>3, <1>4, <1>5, <2>1, <2>2, <2>3, <2>4
<1>10. new(mem_to_wb_q'.kanata_id)
  <2>1. mem_to_wb_q'.kanata_id = exe_to_mem_q.kanata_id
    BY <1>1, Finishes DEF Same
  <2> QED
    BY <1>3, <1>4, <1>5, <2>1
<1> QED
  BY <1>2, <1>6, <1>7, <1>8, <1>9, <1>10 DEF OldId

LEMMA OldIdsSeen ==
  ASSUME TypeOK, TraceIds, NEW id \in Ids, id # 0, id >= kanata_id_counter
  PROVE  \A k \in 2 .. 5 : Seen(Stages[k]).id # id /\ ~Sees(k, id)
<1>1. /\ Stages[2] = "DECODE" /\ Stages[3] = "EXECUTE" /\ Stages[4] = "MEMORY"
      /\ Stages[5] = "WRITEBACK"
  BY DEF Stages
<1>2. /\ Seen("DECODE").id = decode_q.kanata_id
      /\ Seen("EXECUTE").id = decode_to_exe_q.kanata_id
      /\ Seen("MEMORY").id = exe_to_mem_q.kanata_id
      /\ Seen("WRITEBACK").id = mem_to_wb_q.kanata_id
  BY DEF Seen
<1>3. id \in Int /\ kanata_id_counter \in Int
  BY DEF Ids, TypeOK
<1>4. /\ decode_q.kanata_id # id /\ decode_to_exe_q.kanata_id # id
      /\ exe_to_mem_q.kanata_id # id /\ mem_to_wb_q.kanata_id # id
  BY <1>3 DEF TraceIds, OldId
<1>5. \A k \in 2 .. 5 : k = 2 \/ k = 3 \/ k = 4 \/ k = 5
  OBVIOUS
<1> QED
  BY <1>1, <1>2, <1>4, <1>5 DEF Sees

(* The lane of the instruction that is being fetched.                      *)
LEMMA FetchLane ==
  ASSUME TypeOK, Ring, Log, TraceIds, ~Flush, print_kanata, ReadTrace,
         kanata_id_counter # 0
  PROVE  /\ lane'[kanata_id_counter] = Shown(1)
         /\ instruction_stage'[kanata_id_counter] = "FETCH"
<1> DEFINE c == kanata_id_counter
<1>1. c \in Ids /\ c \in Int /\ NextId <= c /\ NextId \in Int
  BY DEF TypeOK, Ids, NextId, Ring, DecodeIds
<1>2. \A k \in 2 .. 5 : Seen(Stages[k]).id # c /\ ~Sees(k, c)
  BY <1>1, OldIdsSeen
<1>3. Commits => commit_id # c
  <2>1. Commits => Commit
    BY DEF Commits, Commit
  <2> QED
    BY <1>1, <2>1, CommitsOldest DEF Ids
<1>4. instruction_stage'[c] = "FETCH"
  BY <1>1, <1>2, CommitId, StageAfter DEF print_kanata, Flush, TraceIds
<1>5. ReadLines(lane[c], FetchLines(c)) = Shown(1)
  <2>1. CASE prev(c) = "FETCH"
    <3>1. instruction_stage[c] = "FETCH"
      BY <2>1 DEF prev
    <3>2. FetchLines(c) = << >>
      BY <2>1 DEF FetchLines
    <3> QED
      BY <3>1, <3>2, ReadNone DEF TraceIds
  <2>2. CASE prev(c) # "FETCH"
    <3>1. FetchLines(c) = << << "I", "" >>, << "S", "FETCH" >> >>
      BY <2>2 DEF FetchLines
    <3> QED
      BY <3>1, ReadFetch
  <2> QED
    BY <2>1, <2>2
<1>6. /\ MoveLines(2, c) = << >> /\ MoveLines(3, c) = << >> /\ MoveLines(4, c) = << >>
      /\ MoveLines(5, c) = << >> /\ CommitLines(c) = << >>
  BY <1>2, <1>3 DEF MoveLines, CommitLines
<1>7. lane'[c] =
        ReadLines(ReadLines(ReadLines(ReadLines(ReadLines(ReadLines(lane[c],
          FetchLines(c)), MoveLines(2, c)), MoveLines(3, c)), MoveLines(4, c)),
          MoveLines(5, c)), CommitLines(c))
  BY <1>1 DEF ReadTrace, Flush
<1> QED
  BY <1>4, <1>5, <1>6, <1>7, ReadNone

LEMMA TraceIdsStep ==
  ASSUME TypeOK, TypeOK', Ring, Log, TraceIds,
         NEW fetched \in BOOLEAN, NEW instr \in AnyInstr, NEW ready \in BOOLEAN,
         Cycle(fetched, instr, ready), print_kanata, ReadTrace
  PROVE  TraceIds'
<1> DEFINE c == kanata_id_counter
           d == kanata_id_counter'
<1>1. c \in Int /\ d \in Int /\ c \in Ids /\ d \in Ids /\ c <= d /\ Ids \subseteq Int
  BY OldIdsStep DEF TypeOK, Ids
<1>2. CASE Flush
  <2>1. instruction_stage' = [id \in Ids |-> "ABSENT"]
    BY <1>2 DEF print_kanata, Flush
  <2>2. /\ instruction_stage' \in [Ids -> StageNames]
        /\ \A id \in Ids : instruction_stage'[id] # "FETCH"
    BY <2>1 DEF StageNames
  <2> QED
    BY <1>1, <2>2, OldIdsStep DEF TraceIds
<1>3. CASE ~Flush
  <2>1. /\ instruction_stage' \in [Ids -> StageNames]
        /\ \A id \in Ids :
              (\A k \in 2 .. 5 : Seen(Stages[k]).id # id /\ ~Sees(k, id)) =>
                instruction_stage'[id] = IF id = c THEN "FETCH" ELSE
                         IF Commits /\ id = commit_id THEN "ABSENT" ELSE instruction_stage[id]
    BY <1>3, CommitId, StageAfter DEF print_kanata, Flush, TraceIds
  <2>2. \A id \in Ids : id > c => instruction_stage'[id] # "FETCH"
    <3> SUFFICES ASSUME NEW id \in Ids, id > c
                 PROVE  instruction_stage'[id] # "FETCH"
      OBVIOUS
    <3>1. id # 0 /\ id >= c /\ id # c
      BY <1>1, CoreSizeAssumption DEF Ids
    <3> QED
      BY <2>1, <3>1, OldIdsSeen DEF TraceIds
  <2>3. (d # 0 /\ instruction_stage'[d] = "FETCH") => lane'[d] = Shown(1)
    <3>1. d = c \/ d > c
      BY <1>1
    <3> QED
      BY <1>1, <1>3, <2>2, <3>1, FetchLane
  <2>4. \A id \in Ids : id > d => instruction_stage'[id] # "FETCH"
    BY <1>1, <2>2
  <2> QED
    BY <2>1, <2>3, <2>4, OldIdsStep DEF TraceIds, Shown
<1> QED
  BY <1>2, <1>3

(* A lane that is still followed after an edge was followed before it, and *)
(* its instruction does not commit at the edge.                            *)
LEMMA LiveStep ==
  ASSUME TypeOK, Ring, Log,
         NEW fetched \in BOOLEAN, NEW instr \in AnyInstr, NEW ready \in BOOLEAN,
         Cycle(fetched, instr, ready), print_commit,
         ~Flush, NEW id \in Ids, Live(id)'
  PROVE  Live(id) /\ ~(Commit /\ id = commit_id)
<1>1. /\ Due \in Int /\ id \in Int
      /\ Due' = CASE Flush -> NextId'
                  [] Commit /\ ~Flush -> Due + 1
                  [] OTHER -> Due
  BY DueStep DEF Ids
<1>2. Due' = IF Commit THEN Due + 1 ELSE Due
  BY <1>1
<1>3. id # 0 /\ id >= Due'
  BY DEF Live
<1>4. Commit => commit_id = Due
  BY CommitsOldest
<1> QED
  BY <1>1, <1>2, <1>3, <1>4 DEF Live

(* After a flush no lane of an instruction fetched before it is followed.  *)
LEMMA FlushedLanes ==
  ASSUME TypeOK, Ring, Log,
         NEW fetched \in BOOLEAN, NEW instr \in AnyInstr, NEW ready \in BOOLEAN,
         Cycle(fetched, instr, ready), print_commit,
         NEW id \in Ids, id < kanata_id_counter, Live(id)'
  PROVE  ~Flush
<1> SUFFICES ASSUME Flush
             PROVE  FALSE
  OBVIOUS
<1>1. kanata_id_counter' = kanata_id_counter /\ decode_q' = NoDecode
  BY EdgeFacts DEF NextFetch, NextDecode, Flush
<1>2. Due' = kanata_id_counter
  BY <1>1, DueStep DEF NextId, NoDecode
<1>3. kanata_id_counter \in Int /\ id \in Int
  BY DEF TypeOK, Ids
<1> QED
  BY <1>2, <1>3 DEF Live

LEMMA OneStage ==
  ASSUME NEW id, NEW n \in 1 .. 5, NEW m \in 1 .. 5, At(id, n), At(id, m)
  PROVE  n = m
BY OneShown DEF At

(* LaneStep for an instruction that is in the pipeline.                    *)
LEMMA LaneMoves ==
  ASSUME TypeOK, Ring, Log, TraceIds, TraceStages,
         NEW fetched \in BOOLEAN, NEW instr \in AnyInstr, NEW ready \in BOOLEAN,
         Cycle(fetched, instr, ready), print_commit, print_kanata, ReadTrace,
         NEW id \in Ids, id < kanata_id_counter, Live(id)',
         NEW n \in 1 .. 5, At(id, n)
  PROVE  \E m \in n .. 5 : /\ At(id, m)'
                           /\ m = n \/ (m = n + 1 /\ Sees(m, id))
                           /\ \A k \in 2 .. 5 : Sees(k, id) => m >= k
<1>1. ~Flush
  BY FlushedLanes
<1>2. Live(id) /\ ~(Commit /\ id = commit_id)
  BY <1>1, LiveStep
<1>3. id # kanata_id_counter
  BY DEF TypeOK, Ids
<1>4. \A k \in 2 .. 5 : Sees(k, id) => n = k - 1 \/ n = k \/ n = 5
  <2> SUFFICES ASSUME NEW k \in 2 .. 5, Sees(k, id)
               PROVE  n = k - 1 \/ n = k \/ n = 5
    OBVIOUS
  <2>1. /\ Sees(2, id) => \E m \in 1 .. 2 : At(id, m)
        /\ Sees(3, id) => \E m \in 2 .. 3 : At(id, m)
        /\ Sees(4, id) => \E m \in 3 .. 5 : At(id, m)
        /\ Sees(5, id) => \E m \in 4 .. 5 : At(id, m)
    BY <1>2, SeenFacts DEF TraceStages, From
  <2>2. k = 2 \/ k = 3 \/ k = 4 \/ k = 5
    OBVIOUS
  <2>3. PICK m \in 1 .. 5 : At(id, m) /\ (m = k - 1 \/ m = k \/ m = 5)
    <3>1. CASE k = 2
      BY <2>1, <3>1
    <3>2. CASE k = 3
      BY <2>1, <3>2
    <3>3. CASE k = 4
      BY <2>1, <3>3
    <3>4. CASE k = 5
      BY <2>1, <3>4
    <3> QED
      BY <2>2, <3>1, <3>2, <3>3, <3>4
  <2> QED
    BY <2>3, OneStage
<1> QED
  BY <1>1, <1>2, <1>3, <1>4, CommitId, LaneStep DEF TraceIds

LEMMA TraceStagesStep ==
  ASSUME TypeOK, TypeOK', Ring, Travelling, StageResults, CleanInv, Order, Log,
         TraceIds, TraceStages,
         NEW fetched \in BOOLEAN, NEW instr \in AnyInstr, NEW ready \in BOOLEAN,
         Cycle(fetched, instr, ready), print_commit, print_kanata, ReadTrace
  PROVE  TraceStages'
<1> DEFINE stalled == stall(fetched, ready)
           frozen == stall_from_mem(ready)
           c == kanata_id_counter
           last == exe_pipe_q[MAX_EXE_STAGES - 2]
<1>1. /\ NextFetch(stalled) /\ NextDecode(stalled, instr)
      /\ NextExe(stalled, stall_from_exe \/ frozen, Offered(fetched, ready))
      /\ Execute(frozen) /\ mem_to_wb_q' = mem_to_wb_d(ready)
      /\ Offered(fetched, ready).valid => ~stalled /\ decode_q.valid
      /\ clean' => clean
  BY EdgeFacts, RobInputs DEF History
<1>2. /\ c \in Int /\ NextId \in Int /\ Ids \subseteq Int /\ NextId <= c
      /\ decode_q.valid => decode_q.kanata_id < c
      /\ decode_q.valid => decode_q.kanata_id = NextId
  BY DEF NextId, Ring, DecodeIds, TypeOK, Ids
<1>3. /\ decode_to_exe_q.valid => decode_to_exe_q.kanata_id < NextId
      /\ \A k \in PipeStages : exe_pipe_q[k].valid => exe_pipe_q[k].kanata_id < NextId
      /\ exe_to_mem_q.valid => exe_to_mem_q.kanata_id < NextId
      /\ mem_to_wb_q.valid => mem_to_wb_q.kanata_id < NextId
  BY HeldIsCarried DEF Travelling
<1>4. /\ exe_to_mem_q' = IF frozen THEN exe_to_mem_q ELSE exe_to_mem_d
      /\ \A k \in PipeStages : exe_pipe_q'[k] = exe_pipe_d(k)
      /\ ~NOP_INSTR.valid
  BY <1>1 DEF Execute, PipeStages, NOP_INSTR
(* A lane from the stages N is shown after the edge in one of M.           *)
<1>5. ASSUME NEW id \in Ids, id < c, Live(id)',
             NEW N \in SUBSET (1 .. 5), Live(id) => \E n \in N : At(id, n)
      PROVE  \E n \in N, m \in 1 .. 5 :
               /\ At(id, m)'
               /\ m = n \/ (m = n + 1 /\ Sees(m, id))
               /\ \A k \in 2 .. 5 : Sees(k, id) => m >= k
  <2>1. ~Flush
    BY <1>5, FlushedLanes
  <2>2. Live(id)
    BY <1>5, <2>1, LiveStep
  <2>3. PICK n \in N : At(id, n)
    BY <1>5, <2>2
  <2>4. n \in 1 .. 5
    BY <1>5
  <2>5. \E m \in n .. 5 : /\ At(id, m)'
                          /\ m = n \/ (m = n + 1 /\ Sees(m, id))
                          /\ \A k \in 2 .. 5 : Sees(k, id) => m >= k
    BY <1>5, <2>3, <2>4, LaneMoves
  <2> QED
    BY <2>4, <2>5
<1>6. /\ \A id : /\ Sees(2, id) <=> decode_q.valid /\ decode_q.kanata_id = id
                 /\ Sees(3, id) <=> decode_to_exe_q.valid /\ decode_to_exe_q.kanata_id = id
                 /\ Sees(4, id) <=> exe_to_mem_q.valid /\ exe_to_mem_q.kanata_id = id
                 /\ Sees(5, id) <=> mem_to_wb_q.valid /\ mem_to_wb_q.kanata_id = id
      /\ 2 \in 2 .. 5 /\ 3 \in 2 .. 5 /\ 4 \in 2 .. 5 /\ 5 \in 2 .. 5
      /\ 1 .. 2 \in SUBSET (1 .. 5) /\ 2 .. 3 \in SUBSET (1 .. 5)
      /\ 3 .. 5 \in SUBSET (1 .. 5) /\ 4 .. 5 \in SUBSET (1 .. 5) /\ {5} \in SUBSET (1 .. 5)
  BY SeenFacts
<1>7. ASSUME NEW id \in Ids, decode_q'.valid, decode_q'.kanata_id = id, Live(id)'
      PROVE  \E n \in 1 .. 2 : At(id, n)'
  <2>1. ~Flush
    BY <1>1, <1>7 DEF NextDecode, NoDecode, Flush
  <2>2. CASE id = c
    <3>1. c # 0
      BY <1>7, <2>2 DEF Live
    <3>2. lane'[id] = Shown(1) /\ instruction_stage'[id] = "FETCH"
      BY <2>1, <2>2, <3>1, FetchLane
    <3>3. At(id, 1)'
      BY <3>2 DEF At, Stages, Shown
    <3> QED
      BY <3>3
  <2>3. CASE decode_q' = decode_q
    <3>1. id < c /\ decode_q.valid /\ decode_q.kanata_id = id
      BY <1>2, <1>7, <2>3
    <3>2. Live(id) => \E n \in 1 .. 2 : At(id, n)
      BY <3>1 DEF TraceStages, From
    <3>3. PICK n \in 1 .. 2, m \in 1 .. 5 :
             /\ At(id, m)'
             /\ m = n \/ (m = n + 1 /\ Sees(m, id))
             /\ \A k \in 2 .. 5 : Sees(k, id) => m >= k
      BY <1>5, <1>6, <1>7, <3>1, <3>2
    <3>4. ~Sees(3, id)
      BY <1>2, <1>3, <1>6, <3>1
    <3>5. m \in 1 .. 2
      BY <3>3, <3>4
    <3> QED
      BY <3>3, <3>5
  <2> QED
    BY <1>1, <1>7, <2>1, <2>2, <2>3 DEF NextDecode, Flush
<1>8. ASSUME NEW id \in Ids, decode_to_exe_q'.valid, decode_to_exe_q'.kanata_id = id,
             Live(id)'
      PROVE  \E n \in 2 .. 3 : At(id, n)'
  <2>1. \/ decode_q.valid /\ decode_q.kanata_id = id
        \/ decode_to_exe_q.valid /\ decode_to_exe_q.kanata_id = id
    BY <1>1, <1>4, <1>8 DEF NextExe
  <2>2. CASE decode_q.valid /\ decode_q.kanata_id = id
    <3>1. id < c
      BY <1>2, <2>2
    <3>2. Live(id) => \E n \in 1 .. 2 : At(id, n)
      BY <2>2 DEF TraceStages, From
    <3>3. PICK n \in 1 .. 2, m \in 1 .. 5 :
             /\ At(id, m)'
             /\ m = n \/ (m = n + 1 /\ Sees(m, id))
             /\ \A k \in 2 .. 5 : Sees(k, id) => m >= k
      BY <1>5, <1>6, <1>8, <3>1, <3>2
    <3>4. m >= 2 /\ m <= 3
      BY <1>6, <2>2, <3>3
    <3> QED
      BY <3>3, <3>4
  <2>3. CASE decode_to_exe_q.valid /\ decode_to_exe_q.kanata_id = id
    <3>1. id < c
      BY <1>2, <1>3, <2>3
    <3>2. Live(id) => \E n \in 2 .. 3 : At(id, n)
      BY <2>3 DEF TraceStages, From
    <3>3. PICK n \in 2 .. 3, m \in 1 .. 5 :
             /\ At(id, m)'
             /\ m = n \/ (m = n + 1 /\ Sees(m, id))
             /\ \A k \in 2 .. 5 : Sees(k, id) => m >= k
      BY <1>5, <1>6, <1>8, <3>1, <3>2
    <3>4. ~Sees(4, id)
      BY <1>2, <1>6, <2>3 DEF Order
    <3>5. m \in 2 .. 3
      BY <3>3, <3>4
    <3> QED
      BY <3>3, <3>5
  <2> QED
    BY <2>1, <2>2, <2>3
(* Whatever execute hands on comes from decode_to_exe_q or from the pipe.  *)
<1>9. ASSUME NEW id \in Ids, Live(id)',
             \/ decode_to_exe_q.valid /\ decode_to_exe_q.kanata_id = id
             \/ \E k \in PipeStages : exe_pipe_q[k].valid /\ exe_pipe_q[k].kanata_id = id
             \/ exe_to_mem_q.valid /\ exe_to_mem_q.kanata_id = id
      PROVE  \E n \in 3 .. 5 : At(id, n)'
  <2>1. id < c
    BY <1>2, <1>3, <1>9
  <2>2. CASE decode_to_exe_q.valid /\ decode_to_exe_q.kanata_id = id
    <3>2. Live(id) => \E n \in 2 .. 3 : At(id, n)
      BY <2>2 DEF TraceStages, From
    <3>3. PICK n \in 2 .. 3, m \in 1 .. 5 :
             /\ At(id, m)'
             /\ m = n \/ (m = n + 1 /\ Sees(m, id))
             /\ \A k \in 2 .. 5 : Sees(k, id) => m >= k
      BY <1>5, <1>6, <1>9, <2>1, <3>2
    <3>4. m >= 3
      BY <1>6, <2>2, <3>3
    <3> QED
      BY <3>3, <3>4
  <2>3. CASE \/ \E k \in PipeStages : exe_pipe_q[k].valid /\ exe_pipe_q[k].kanata_id = id
             \/ exe_to_mem_q.valid /\ exe_to_mem_q.kanata_id = id
    <3>2. Live(id) => \E n \in 3 .. 5 : At(id, n)
      BY <2>3 DEF TraceStages, From
    <3>3. PICK n \in 3 .. 5, m \in 1 .. 5 :
             /\ At(id, m)'
             /\ m = n \/ (m = n + 1 /\ Sees(m, id))
             /\ \A k \in 2 .. 5 : Sees(k, id) => m >= k
      BY <1>5, <1>6, <1>9, <2>1, <3>2
    <3>4. m \in 3 .. 5
      BY <3>3
    <3> QED
      BY <3>3, <3>4
  <2> QED
    BY <1>9, <2>2, <2>3
<1>10. ASSUME NEW id \in Ids, NEW k \in PipeStages, exe_pipe_q'[k].valid,
              exe_pipe_q'[k].kanata_id = id, Live(id)'
       PROVE  \E n \in 3 .. 5 : At(id, n)'
  <2>1. exe_pipe_d(k).valid /\ exe_pipe_d(k).kanata_id = id
    BY <1>4, <1>10
  <2>2. \/ decode_to_exe_q.valid /\ decode_to_exe_q.kanata_id = id
        \/ \E j \in PipeStages : exe_pipe_q[j].valid /\ exe_pipe_q[j].kanata_id = id
    BY <1>4, <2>1, PipeNext
  <2> QED
    BY <1>9, <1>10, <2>2
<1>11. ASSUME NEW id \in Ids, exe_to_mem_q'.valid, exe_to_mem_q'.kanata_id = id, Live(id)'
       PROVE  \E n \in 3 .. 5 : At(id, n)'
  <2>1. MAX_EXE_STAGES - 2 \in PipeStages
    BY CoreSizeAssumption DEF PipeStages, MAX_EXE_STAGES
  <2>2. exe_to_mem_q' = exe_to_mem_q \/ exe_to_mem_q' = exe_to_mem_d
    BY <1>4
  <2>3. \/ decode_to_exe_q.valid /\ decode_to_exe_q.kanata_id = id
        \/ \E j \in PipeStages : exe_pipe_q[j].valid /\ exe_pipe_q[j].kanata_id = id
        \/ exe_to_mem_q.valid /\ exe_to_mem_q.kanata_id = id
    BY <1>11, <2>1, <2>2, Leaves DEF Same
  <2> QED
    BY <1>9, <1>11, <2>3
<1>12. ASSUME NEW id \in Ids, mem_to_wb_q'.valid, mem_to_wb_q'.kanata_id = id, Live(id)'
       PROVE  \E n \in 4 .. 5 : At(id, n)'
  <2>1. exe_to_mem_q.valid /\ exe_to_mem_q.kanata_id = id
    BY <1>1, <1>12, Finishes DEF Same
  <2>2. id < c
    BY <1>2, <1>3, <2>1
  <2>3. Live(id) => \E n \in 3 .. 5 : At(id, n)
    BY <2>1 DEF TraceStages, From
  <2>4. PICK n \in 3 .. 5, m \in 1 .. 5 :
             /\ At(id, m)'
             /\ m = n \/ (m = n + 1 /\ Sees(m, id))
             /\ \A k \in 2 .. 5 : Sees(k, id) => m >= k
    BY <1>5, <1>6, <1>12, <2>2, <2>3
  <2>5. m >= 4
    BY <1>6, <2>1, <2>4
  <2> QED
    BY <2>4, <2>5
<1>13. ASSUME clean', NEW i \in RB!Idx, rob_q'[i].valid, rob_q'[i].completed,
              NEW id \in Ids, rob_q'[i].kanata_id = id, Live(id)'
       PROVE  \E n \in {5} : At(id, n)'
  <2>1. /\ clean /\ rob_q[i].valid /\ rob_q[i].kanata_id = id
        /\ \/ rob_q[i].completed
           \/ mem_to_wb_q.valid /\ mem_to_wb_q.rob_idx = i
    BY <1>1, <1>13, Entries DEF SameBut, Ring
  <2>2. id < c
    BY <1>2, <2>1 DEF Ring, RingIds
  <2>3. CASE rob_q[i].completed
    <3> DEFINE N == {5}
    <3>1. /\ N \in SUBSET (1 .. 5)
          /\ Live(id) => \E n \in N : At(id, n)
      BY <2>1, <2>3 DEF TraceStages, From
    <3> HIDE DEF N
    <3>2. \E n \in N, m \in 1 .. 5 :
             /\ At(id, m)'
             /\ m = n \/ (m = n + 1 /\ Sees(m, id))
             /\ \A k \in 2 .. 5 : Sees(k, id) => m >= k
      BY <1>5, <1>13, <2>2, <3>1
    <3> QED
      BY <3>2 DEF N
  <2>4. CASE mem_to_wb_q.valid /\ mem_to_wb_q.rob_idx = i
    <3>1. mem_to_wb_q.kanata_id = id
      BY <2>1, <2>4 DEF CleanInv, EntryReused, NamesOther
    <3>2. Live(id) => \E n \in 4 .. 5 : At(id, n)
      BY <2>4, <3>1 DEF TraceStages, From
    <3>3. PICK n \in 4 .. 5, m \in 1 .. 5 :
             /\ At(id, m)'
             /\ m = n \/ (m = n + 1 /\ Sees(m, id))
             /\ \A k \in 2 .. 5 : Sees(k, id) => m >= k
      BY <1>5, <1>6, <1>13, <2>2, <3>2
    <3>4. m = 5
      BY <1>6, <2>4, <3>1, <3>3
    <3> QED
      BY <3>3, <3>4
  <2> QED
    BY <2>1, <2>3, <2>4
<1>14. /\ decode_q'.kanata_id \in Ids /\ decode_to_exe_q'.kanata_id \in Ids
       /\ \A k \in PipeStages : exe_pipe_q'[k].kanata_id \in Ids
       /\ exe_to_mem_q'.kanata_id \in Ids /\ mem_to_wb_q'.kanata_id \in Ids
  <2>1. /\ decode_to_exe_q' \in Op /\ exe_to_mem_q' \in MemOp /\ mem_to_wb_q' \in WbOp
        /\ decode_q'.kanata_id \in Ids
        /\ \A k \in PipeStages : exe_pipe_q'[k] \in Op
    BY DEF TypeOK, PipeStages
  <2> QED
    BY <2>1 DEF Op, MemOp, WbOp
<1>15. \A i \in RB!Idx : rob_q'[i].valid => rob_q'[i].kanata_id \in Ids
  <2>1. \A i \in RB!Idx : rob_q'[i].valid => \/ rob_q'[i].kanata_id = decode_q.kanata_id
                                             \/ /\ rob_q[i].valid
                                                /\ rob_q'[i].kanata_id = rob_q[i].kanata_id
    BY Entries DEF Ring
  <2>2. NextId \in Ids
    BY DEF NextId, TypeOK
  <2>3. \A i \in RB!Idx : rob_q[i].valid => rob_q[i].kanata_id \in Ids
    <3>1. \A i \in RB!Idx : rob_q[i].kanata_id \in Nat
      BY DEF TypeOK, RB!Entry
    <3> QED
      BY <2>2, <3>1, CoreSizeAssumption DEF Ring, RingIds, Ids
  <2>4. decode_q.kanata_id \in Ids
    BY DEF TypeOK
  <2> QED
    BY <2>1, <2>3, <2>4
<1> QED
  BY <1>7, <1>8, <1>10, <1>11, <1>12, <1>13, <1>14, <1>15 DEF TraceStages, From

----------------------------------------------------------------------------
(* A flush prints the commit of its branch only if it finds the branch in  *)
(* write-back: nothing above it may hold the branch any more.              *)

Above(id) ==
  \/ decode_to_exe_q.valid /\ decode_to_exe_q.kanata_id = id
  \/ \E k \in PipeStages : exe_pipe_q[k].valid /\ exe_pipe_q[k].kanata_id = id
  \/ exe_to_mem_q.valid /\ exe_to_mem_q.kanata_id = id

(* Only a multiplication is in two registers at once.                      *)
Alone ==
  /\ (exe_to_mem_q.valid /\ ~exe_to_mem_q.instr.is_mul) =>
       \A k \in PipeStages : exe_pipe_q[k].valid =>
         exe_pipe_q[k].kanata_id # exe_to_mem_q.kanata_id
  /\ (mem_to_wb_q.valid /\ mem_to_wb_q.instr.jump) => ~Above(mem_to_wb_q.kanata_id)

(* The completed entry of a taken branch has left the pipeline, and the    *)
(* trace shows it where it left.                                           *)
TraceBranches ==
  clean => \A i \in RB!Idx :
    (rob_q[i].valid /\ rob_q[i].completed /\ rob_q[i].branch_taken) =>
      /\ ~Above(rob_q[i].kanata_id)
      /\ ~(mem_to_wb_q.valid /\ mem_to_wb_q.kanata_id = rob_q[i].kanata_id)
      /\ Live(rob_q[i].kanata_id) => instruction_stage[rob_q[i].kanata_id] = "WRITEBACK"

(* What is not above does not come back.                                   *)
LEMMA AboveStep ==
  ASSUME TypeOK, NEW fetched \in BOOLEAN, NEW instr \in AnyInstr, NEW ready \in BOOLEAN,
         Cycle(fetched, instr, ready),
         NEW id, ~Above(id), id # NextId
  PROVE  ~Above(id)' /\ ~(mem_to_wb_q'.valid /\ mem_to_wb_q'.kanata_id = id)
<1>1. /\ NextExe(stall(fetched, ready), stall_from_exe \/ stall_from_mem(ready),
                 Offered(fetched, ready))
      /\ Execute(stall_from_mem(ready)) /\ mem_to_wb_q' = mem_to_wb_d(ready)
      /\ Offered(fetched, ready).valid => decode_q.valid
      /\ ~NOP_INSTR.valid
  BY EdgeFacts, RobInputs DEF NOP_INSTR
<1>2. decode_to_exe_q'.valid =>
        \/ decode_q.valid /\ decode_to_exe_q'.kanata_id = decode_q.kanata_id
        \/ decode_to_exe_q' = decode_to_exe_q
  BY <1>1 DEF NextExe
<1>3. ~(decode_to_exe_q'.valid /\ decode_to_exe_q'.kanata_id = id)
  BY <1>2 DEF NextId, Above
<1>4. ASSUME NEW k \in PipeStages
      PROVE  ~(exe_pipe_q'[k].valid /\ exe_pipe_q'[k].kanata_id = id)
  <2>1. exe_pipe_q'[k] = exe_pipe_d(k)
    BY <1>1 DEF Execute, PipeStages
  <2> QED
    BY <1>1, <2>1, PipeNext DEF Above
<1>5. ~(exe_to_mem_q'.valid /\ exe_to_mem_q'.kanata_id = id)
  <2>1. MAX_EXE_STAGES - 2 \in PipeStages
    BY CoreSizeAssumption DEF PipeStages, MAX_EXE_STAGES
  <2>2. exe_to_mem_q' = exe_to_mem_q \/ exe_to_mem_q' = exe_to_mem_d
    BY <1>1 DEF Execute
  <2> QED
    BY <2>1, <2>2, Leaves DEF Same, Above
<1>6. ~(mem_to_wb_q'.valid /\ mem_to_wb_q'.kanata_id = id)
  BY <1>1, Finishes DEF Same, Above
<1>7. ~Above(id)'
  BY <1>3, <1>4, <1>5 DEF Above, PipeStages
<1> QED
  BY <1>6, <1>7

LEMMA AloneStep ==
  ASSUME TypeOK, Ring, Travelling, StageResults, Order, Alone,
         NEW fetched \in BOOLEAN, NEW instr \in AnyInstr, NEW ready \in BOOLEAN,
         Cycle(fetched, instr, ready)
  PROVE  Alone'
<1> DEFINE frozen == stall_from_mem(ready)
           stalled == stall(fetched, ready)
           last == exe_pipe_q[MAX_EXE_STAGES - 2]
<1>1. /\ NextExe(stalled, stall_from_exe \/ frozen, Offered(fetched, ready))
      /\ mem_to_wb_q' = mem_to_wb_d(ready)
      /\ exe_to_mem_q' = IF frozen THEN exe_to_mem_q ELSE exe_to_mem_d
      /\ \A k \in PipeStages : exe_pipe_q'[k] = exe_pipe_d(k)
      /\ Offered(fetched, ready).valid => decode_q.valid
      /\ ~NOP_INSTR.valid
  BY EdgeFacts, RobInputs DEF Execute, PipeStages, NOP_INSTR
<1>2. MAX_EXE_STAGES - 2 \in PipeStages
  BY CoreSizeAssumption DEF PipeStages, MAX_EXE_STAGES
<1>3. /\ decode_to_exe_q.kanata_id \in Int /\ exe_to_mem_q.kanata_id \in Int
      /\ \A k \in PipeStages : exe_pipe_q[k].kanata_id \in Int
      /\ exe_to_mem_q.instr \in AnyInstr
  <2>1. /\ decode_to_exe_q \in Op /\ exe_to_mem_q \in MemOp
        /\ \A k \in PipeStages : exe_pipe_q[k] \in Op
    BY DEF TypeOK, PipeStages
  <2>2. Ids \subseteq Int
    BY DEF Ids
  <2> QED
    BY <2>1, <2>2 DEF Op, MemOp
<1>4. ASSUME exe_to_mem_q'.valid, ~exe_to_mem_q'.instr.is_mul,
             NEW k \in PipeStages, exe_pipe_q'[k].valid
      PROVE  exe_pipe_q'[k].kanata_id # exe_to_mem_q'.kanata_id
  <2>1. \/ k = 0 /\ decode_to_exe_q.instr.is_mul /\ exe_pipe_q'[k] = decode_to_exe_q
        \/ k # 0 /\ k - 1 \in PipeStages /\ exe_pipe_q'[k] = exe_pipe_q[k - 1]
    BY <1>1, <1>4, PipeNext
  <2>2. CASE frozen
    <3>1. exe_to_mem_q' = exe_to_mem_q
      BY <1>1, <2>2
    <3> QED
      BY <1>3, <1>4, <2>1, <3>1 DEF Order, Alone
  <2>3. CASE ~frozen
    <3>1. exe_to_mem_q' = exe_to_mem_d
      BY <1>1, <2>3
    <3>2. \/ /\ decode_to_exe_q.valid /\ ~decode_to_exe_q.instr.is_mul
             /\ Same(exe_to_mem_d, decode_to_exe_q)
          \/ last.valid /\ Same(exe_to_mem_d, last)
      BY <1>4, <3>1, Leaves
    <3>3. ~(last.valid /\ Same(exe_to_mem_d, last))
      BY <1>2, <1>4, <3>1 DEF StageResults, Same
    <3> QED
      BY <1>3, <1>4, <2>1, <3>1, <3>2, <3>3 DEF Order, Same
  <2> QED
    BY <2>2, <2>3
(* A jump leaves the memory stage at once, and what follows it is younger. *)
<1>5. ASSUME NEW id, mem_to_wb_q'.valid, mem_to_wb_q'.instr.jump,
             mem_to_wb_q'.kanata_id = id
      PROVE  ~Above(id)'
  <2>1. exe_to_mem_q.valid /\ exe_to_mem_q.instr.jump /\ exe_to_mem_q.kanata_id = id
    BY <1>1, <1>5, Finishes DEF Same
  <2>2. ~exe_to_mem_q.instr.is_mul /\ ~exe_to_mem_q.instr.store_to_mem
        /\ exe_to_mem_q.instr.wb_origin # "MEM"
    <3>1. exe_to_mem_q.instr \in AnyInstr
      BY <1>3
    <3> QED
      BY <2>1, <3>1, InstrFacts
  <2>3. ~frozen
    BY <2>2 DEF stall_from_mem, is_load, is_store, is_collision
  <2>4. id < NextId /\ NextId \in Int /\ id \in Int
    BY <1>3, <2>1, HeldIsCarried DEF Travelling, NextId, TypeOK, Ids
  <2>5. ~(decode_to_exe_q.valid /\ decode_to_exe_q.kanata_id = id)
    BY <1>3, <2>1 DEF Order
  <2>6. \A k \in PipeStages : ~(exe_pipe_q[k].valid /\ exe_pipe_q[k].kanata_id = id)
    BY <2>1, <2>2 DEF Alone
  <2>7. ~(decode_to_exe_q'.valid /\ decode_to_exe_q'.kanata_id = id)
    <3>1. decode_to_exe_q'.valid =>
            \/ decode_q.valid /\ decode_to_exe_q'.kanata_id = decode_q.kanata_id
            \/ decode_to_exe_q' = decode_to_exe_q
      BY <1>1 DEF NextExe
    <3> QED
      BY <2>4, <2>5, <3>1 DEF NextId
  <2>8. \A k \in PipeStages : ~(exe_pipe_q'[k].valid /\ exe_pipe_q'[k].kanata_id = id)
    BY <1>1, <2>5, <2>6, PipeNext
  <2>9. ~(exe_to_mem_q'.valid /\ exe_to_mem_q'.kanata_id = id)
    BY <1>1, <1>2, <2>3, <2>5, <2>6, Leaves DEF Same
  <2> QED
    BY <2>7, <2>8, <2>9 DEF Above, PipeStages
<1>6. (mem_to_wb_q'.valid /\ mem_to_wb_q'.instr.jump) => ~Above(mem_to_wb_q.kanata_id)'
  BY <1>5 DEF Above
<1> QED
  BY <1>4, <1>6 DEF Alone, PipeStages

LEMMA TraceBranchesStep ==
  ASSUME TypeOK, TypeOK', Ring, Travelling, StageResults, CleanInv, Log,
         TraceIds, TraceStages, Alone, TraceBranches,
         NEW fetched \in BOOLEAN, NEW instr \in AnyInstr, NEW ready \in BOOLEAN,
         Cycle(fetched, instr, ready), print_commit, print_kanata
  PROVE  TraceBranches'
<1> SUFFICES ASSUME clean', NEW i \in RB!Idx, rob_q'[i].valid, rob_q'[i].completed,
                    rob_q'[i].branch_taken, NEW id, rob_q'[i].kanata_id = id
             PROVE  /\ ~Above(id)'
                    /\ ~(mem_to_wb_q'.valid /\ mem_to_wb_q'.kanata_id = id)
                    /\ Live(id)' => instruction_stage'[id] = "WRITEBACK"
  BY DEF TraceBranches, Above, Live
<1>1. clean
  BY EdgeFacts DEF History
<1>2. /\ rob_q[i].valid /\ rob_q[i].kanata_id = id
      /\ \/ rob_q[i].completed /\ rob_q[i].branch_taken
         \/ mem_to_wb_q.valid /\ mem_to_wb_q.rob_idx = i /\ mem_to_wb_q.branch_taken
  BY Entries DEF SameBut, Ring
<1>3. id < NextId /\ id \in Ids /\ NextId \in Int /\ id < kanata_id_counter /\ id # NextId
  <2>1. rob_q[i].kanata_id \in Nat
    BY DEF TypeOK, RB!Entry
  <2>2. /\ kanata_id_counter \in Ids /\ NextId \in Ids /\ MaxId \in Nat
        /\ NextId <= kanata_id_counter
    BY CoreSizeAssumption DEF NextId, TypeOK, Ring, DecodeIds, Ids
  <2> QED
    BY <1>2, <2>1, <2>2 DEF Ring, RingIds, Ids
<1>4. \/ /\ ~Above(id) /\ ~(mem_to_wb_q.valid /\ mem_to_wb_q.kanata_id = id)
         /\ Live(id) => instruction_stage[id] = "WRITEBACK"
      \/ mem_to_wb_q.valid /\ mem_to_wb_q.kanata_id = id /\ ~Above(id)
  <2>1. CASE rob_q[i].completed /\ rob_q[i].branch_taken
    BY <1>1, <1>2, <2>1 DEF TraceBranches
  <2>2. CASE mem_to_wb_q.valid /\ mem_to_wb_q.rob_idx = i /\ mem_to_wb_q.branch_taken
    <3>1. mem_to_wb_q.kanata_id = id
      BY <1>1, <1>2, <2>2 DEF CleanInv, EntryReused, NamesOther
    <3>2. mem_to_wb_q.instr \in AnyInstr /\ mem_to_wb_q.instr.taken
      BY <2>2 DEF StageResults, TypeOK, WbOp
    <3> QED
      BY <2>2, <3>1, <3>2, InstrFacts DEF Alone
  <2> QED
    BY <1>2, <2>1, <2>2
<1>5. ASSUME Live(id)'
      PROVE  instruction_stage'[id] = "WRITEBACK"
  <2>1. ~Flush
    BY <1>3, <1>5, FlushedLanes
  <2>2. Live(id) /\ ~(Commit /\ id = commit_id)
    BY <1>3, <1>5, <2>1, LiveStep
  <2>3. id # kanata_id_counter
    BY <1>3 DEF TypeOK, Ids
  <2>4. /\ instruction_stage[id] \notin {"ABSENT", "NONE"}
        /\ Sees(5, id) \/ instruction_stage[id] = "WRITEBACK"
    <3>1. CASE mem_to_wb_q.valid /\ mem_to_wb_q.kanata_id = id
      BY <2>2, <3>1, SeenFacts DEF TraceStages, From, At
    <3>2. CASE instruction_stage[id] = "WRITEBACK"
      BY <3>2
    <3> QED
      BY <1>4, <2>2, <3>1, <3>2
  <2>5. /\ ~Sees(2, id) /\ ~Sees(3, id) /\ ~Sees(4, id)
        /\ (\E k \in 2 .. 5 : Sees(k, id)) => Sees(5, id)
    <3>1. /\ ~(decode_q.valid /\ decode_q.kanata_id = id)
          /\ ~Above(id)
      BY <1>3, <1>4 DEF NextId
    <3>2. ~Sees(2, id) /\ ~Sees(3, id) /\ ~Sees(4, id)
      BY <3>1, SeenFacts DEF Above
    <3>3. \A k \in 2 .. 5 : k = 2 \/ k = 3 \/ k = 4 \/ k = 5
      OBVIOUS
    <3> QED
      BY <3>2, <3>3
  <2>6. prev(id) # "NONE"
    BY <2>4 DEF prev
  <2>7. ~(Commits /\ id = commit_id) /\ Stages[5] = "WRITEBACK" /\ 5 \in 2 .. 5
    BY <2>2 DEF Commits, Commit, Stages
  <2>8. instruction_stage'[id] =
                  IF \E k \in 2 .. 5 : Sees(k, id)
                    THEN IF Sees(5, id) THEN Stages[5] ELSE
                         IF Sees(4, id) THEN Stages[4] ELSE
                         IF Sees(3, id) THEN Stages[3] ELSE Stages[2]
                    ELSE IF id = kanata_id_counter THEN "FETCH" ELSE
                         IF Commits /\ id = commit_id THEN "ABSENT" ELSE instruction_stage[id]
    BY <1>3, <2>1, <2>6, CommitId, StageAfter DEF print_kanata, Flush, TraceIds
  <2> QED
    BY <2>3, <2>4, <2>5, <2>7, <2>8
<1>6. ~Above(id)' /\ ~(mem_to_wb_q'.valid /\ mem_to_wb_q'.kanata_id = id)
  BY <1>3, <1>4, AboveStep
<1> QED
  BY <1>5, <1>6

----------------------------------------------------------------------------
(* Committing.                                                             *)

LEMMA ReadEither ==
  ASSUME NEW l, NEW lines, NEW a, NEW b,
         lines = << >> \/ (lines = << a, b >> /\ Ignored(l, a[1]) /\ Ignored(l, b[1]))
  PROVE  ReadLines(l, lines) = l
<1>1. CASE lines = << >>
  BY <1>1, ReadNone
<1>2. CASE lines = << a, b >> /\ Ignored(l, a[1]) /\ Ignored(l, b[1])
  BY <1>2, ReadIgnored
<1> QED
  BY <1>1, <1>2

(* A lane that has passed all stages ignores what moves it, and one that   *)
(* is retired ignores every line but I.                                    *)
LEMMA MovesIgnored ==
  ASSUME NEW l, l.passed = Stages \/ l.retired # "", NEW k \in 2 .. 5, NEW id
  PROVE  ReadLines(l, MoveLines(k, id)) = l
<1> DEFINE a == << "E", Stages[k - 1] >>
           b == << "S", Stages[k] >>
<1>1. MoveLines(k, id) = << >> \/ MoveLines(k, id) = << a, b >>
  BY DEF MoveLines
<1>2. Ignored(l, a[1]) /\ Ignored(l, b[1])
  BY DEF Ignored
<1> HIDE DEF a, b
<1> QED
  BY <1>1, <1>2, ReadEither

LEMMA DoneIgnores ==
  ASSUME NEW id
  PROVE  /\ ReadLines(Done, CommitLines(id)) = Done
         /\ ReadLines(Done, FlushLines(id)) = Done
<1>1. \A kind : kind # "I" => Ignored(Done, kind)
  BY DEF Ignored, Done
<1>2. ReadLines(Done, CommitLines(id)) = Done
  <2> DEFINE a == << "E", "WRITEBACK" >>
             b == << "R", "commit" >>
  <2>1. CommitLines(id) = << >> \/ CommitLines(id) = << a, b >>
    BY DEF CommitLines
  <2>2. Ignored(Done, a[1]) /\ Ignored(Done, b[1])
    BY <1>1
  <2> HIDE DEF a, b
  <2> QED
    BY <2>1, <2>2, ReadEither
<1>3. ReadLines(Done, FlushLines(id)) = Done
  <2> DEFINE stage == instruction_stage[id]
             a == << "E", stage >>
             b == << "R", "flush" >>
             w == << "E", "WRITEBACK" >>
             d == << "R", "commit" >>
  <2>1. \/ FlushLines(id) = << >>
        \/ FlushLines(id) = << b >>
        \/ FlushLines(id) = << a, b >>
        \/ FlushLines(id) = << w, d >>
    BY DEF FlushLines
  <2>2. /\ Ignored(Done, a[1]) /\ Ignored(Done, b[1])
        /\ Ignored(Done, w[1]) /\ Ignored(Done, d[1])
    BY <1>1
  <2> HIDE DEF a, b, w, d
  <2>3. CASE FlushLines(id) = << b >>
    <3>1. Len(<< b >>) = 1 /\ << b >> # << >> /\ << b >>[1] = b
      OBVIOUS
    <3>2. ReadLines(Done, << b >>) = Read(Done, b)
      BY <3>1 DEF ReadLines
    <3> QED
      BY <2>2, <2>3, <3>2 DEF Read
  <2> QED
    BY <2>1, <2>2, <2>3, ReadEither
<1> QED
  BY <1>2, <1>3

(* One call: a lane that is done stays so, and the lane of the instruction *)
(* that commits in its cycle is done after it.                             *)
LEMMA DoneStep ==
  ASSUME TypeOK, ReadTrace, NEW id \in Ids, id # kanata_id_counter, lane[id] = Done
  PROVE  lane'[id] = Done
<1>1. CASE Flush
  BY <1>1, DoneIgnores DEF ReadTrace, Flush
<1>2. CASE ~Flush
  <2>1. lane'[id] =
          ReadLines(ReadLines(ReadLines(ReadLines(ReadLines(ReadLines(lane[id],
            FetchLines(id)), MoveLines(2, id)), MoveLines(3, id)), MoveLines(4, id)),
            MoveLines(5, id)), CommitLines(id))
    BY <1>2 DEF ReadTrace, Flush
  <2>2. FetchLines(id) = << >>
    BY DEF FetchLines
  <2>3. \A k \in 2 .. 5 : ReadLines(Done, MoveLines(k, id)) = Done
    <3>1. Done.passed = Stages
      BY DEF Done
    <3> QED
      BY <3>1, MovesIgnored
  <2> QED
    BY <2>1, <2>2, <2>3, ReadNone, DoneIgnores
<1> QED
  BY <1>1, <1>2

LEMMA CommitLane ==
  ASSUME TypeOK, Ring, CleanInv, Log, TraceIds, TraceStages, TraceBranches, clean,
         Commit, commit_id # 0, ReadTrace
  PROVE  lane'[commit_id] = Done
<1> DEFINE id == commit_id
<1>1. /\ id \in Ids /\ id = Due /\ id < NextId /\ NextId <= kanata_id_counter
      /\ id = rob_q[rob_head_ptr_q].kanata_id
      /\ NextId \in Int /\ Ids \subseteq Int /\ kanata_id_counter \in Int
  BY CommitsOldest, CoreSizeAssumption DEF NextId, TypeOK, Ring, DecodeIds, Ids
<1>2. rob_head_ptr_q \in RB!Idx /\ rob_q[rob_head_ptr_q].valid
      /\ rob_q[rob_head_ptr_q].completed
  BY DEF Commit, RB!commit_valid_o, TypeOK
<1>3. Live(id) /\ id # kanata_id_counter
  BY <1>1 DEF Live
<1>4. At(id, 5)
  BY <1>1, <1>2, <1>3 DEF TraceStages, From
<1>5. /\ lane[id] = Shown(5)
      /\ instruction_stage[id] \in StageNames
      /\ instruction_stage[id] \notin {"ABSENT", "NONE"}
  BY <1>1, <1>4 DEF At, TraceIds
<1> DEFINE a == << "E", "WRITEBACK" >>
           b == << "R", "commit" >>
<1>6. ReadLines(Shown(5), << a, b >>) = Done
  BY ReadCommit
<1>7. CASE Flush
  <2>1. rob_q[rob_head_ptr_q].branch_taken
    BY <1>7 DEF Flush, RB!commit_branch_taken_o
  <2>2. instruction_stage[id] = "WRITEBACK"
    BY <1>1, <1>2, <1>3, <2>1 DEF TraceBranches
  <2>3. FlushLines(id) = << a, b >>
    BY <2>2 DEF FlushLines
  <2>4. lane'[id] = ReadLines(lane[id], FlushLines(id))
    BY <1>1, <1>7 DEF ReadTrace, Flush
  <2> QED
    BY <1>5, <1>6, <2>3, <2>4
<1>8. CASE ~Flush
  <2>1. lane'[id] =
          ReadLines(ReadLines(ReadLines(ReadLines(ReadLines(ReadLines(lane[id],
            FetchLines(id)), MoveLines(2, id)), MoveLines(3, id)), MoveLines(4, id)),
            MoveLines(5, id)), CommitLines(id))
    BY <1>1, <1>8 DEF ReadTrace, Flush
  <2>2. FetchLines(id) = << >>
    BY <1>3 DEF FetchLines
  <2>3. \A k \in 2 .. 5 : ReadLines(Shown(5), MoveLines(k, id)) = Shown(5)
    BY ShownAll, MovesIgnored
  <2>4. CommitLines(id) = << a, b >>
    <3>1. prev(id) \notin {"COMMIT", "NONE"}
      BY <1>5 DEF prev, StageNames
    <3> QED
      BY <3>1 DEF CommitLines, Commits, Commit
  <2> HIDE DEF a, b
  <2> QED
    BY <1>5, <1>6, <2>1, <2>2, <2>3, <2>4, ReadNone
<1> QED
  BY <1>7, <1>8

LEMMA TracedStep ==
  ASSUME TypeOK, Ring, CleanInv, Log, TraceIds, TraceStages, TraceBranches,
         TracedCompletely,
         NEW fetched \in BOOLEAN, NEW instr \in AnyInstr, NEW ready \in BOOLEAN,
         Cycle(fetched, instr, ready), print_commit, ReadTrace
  PROVE  TracedCompletely'
<1> SUFFICES ASSUME clean', NEW n \in 1 .. Len(commit_file'), commit_file'[n] # 0
             PROVE  lane'[commit_file'[n]] = Done
  BY DEF TracedCompletely, Done
<1>1. clean
  BY EdgeFacts DEF History
<1>2. \/ n \in 1 .. Len(commit_file) /\ commit_file'[n] = commit_file[n]
      \/ Commit /\ commit_file'[n] = commit_id
  BY DueStep
<1>3. CASE n \in 1 .. Len(commit_file) /\ commit_file'[n] = commit_file[n]
  <2>1. commit_file[n] \in Ids /\ commit_file[n] < NextId
    BY <1>3 DEF Log
  <2>2. commit_file[n] # kanata_id_counter
    BY <2>1, CoreSizeAssumption DEF NextId, TypeOK, Ring, DecodeIds, Ids
  <2>3. lane[commit_file[n]] = Done
    BY <1>1, <1>3 DEF TracedCompletely, Done
  <2> QED
    BY <1>3, <2>1, <2>2, <2>3, DoneStep
<1>4. CASE Commit /\ commit_file'[n] = commit_id
  BY <1>1, <1>4, CommitLane
<1> QED
  BY <1>2, <1>3, <1>4

----------------------------------------------------------------------------
(* The inductive invariant of the simulator.                               *)

SimInv ==
  /\ IInv /\ Log /\ SlotValues
  /\ TraceIds /\ TraceStages /\ Alone /\ TraceBranches /\ TracedCompletely

LEMMA SimInitHolds == SimInit => SimInv
<1> SUFFICES ASSUME SimInit
             PROVE  SimInv
  OBVIOUS
<1>1. /\ Init /\ commit_file = << >>
      /\ instruction_stage = [id \in Ids |-> IF id = 0 THEN "NONE" ELSE "ABSENT"]
  BY DEF SimInit
<1>2. /\ kanata_id_counter = 0 /\ decode_q = NoDecode
      /\ decode_to_exe_q = NOP_INSTR
      /\ exe_to_mem_q = ToMem(NOP_INSTR, 0, FALSE)
      /\ mem_to_wb_q = ToWb(ToMem(NOP_INSTR, 0, FALSE), FALSE, 0, 0)
      /\ exe_pipe_q = [i \in PipeStages |-> NOP_INSTR]
      /\ RB!ResetFrom([i \in RB!Idx |-> 0]) /\ SB!Reset /\ path_id = 0
  BY <1>1 DEF Init, PipeStages
<1>3. /\ ~decode_q.valid /\ ~decode_to_exe_q.valid /\ ~exe_to_mem_q.valid
      /\ ~mem_to_wb_q.valid /\ \A k \in PipeStages : ~exe_pipe_q[k].valid
      /\ decode_q.kanata_id = 0 /\ decode_to_exe_q.kanata_id = 0
      /\ exe_to_mem_q.kanata_id = 0 /\ mem_to_wb_q.kanata_id = 0
      /\ \A k \in PipeStages : exe_pipe_q[k].kanata_id = 0
  BY <1>2 DEF NoDecode, NOP_INSTR, ToMem, ToWb
<1>4. /\ \A i \in RB!Idx : ~rob_q[i].valid
      /\ rob_head_ptr_q = 0 /\ rob_tail_ptr_q = 0
      /\ \A s \in SB!Idx : ~store_buffer_q[s].valid
  BY <1>2 DEF RB!ResetFrom, RB!ResetEntry, SB!Reset, SB!ResetEntry
<1>5. IInv
  BY <1>1, InitHolds
<1>6. Log
  <2>1. Due = 0 /\ NextId = 0 /\ RB!Dist(rob_tail_ptr_q) = 0
    BY <1>1, <1>2, <1>3, <1>4 DEF Due, NextId, RB!Dist
  <2>2. commit_file \in Seq(Ids) /\ Len(commit_file) = 0
    BY <1>1
  <2> QED
    BY <1>3, <1>4, <2>1, <2>2 DEF Log, Numbered
<1>7. SlotValues
  BY <1>4 DEF SlotValues, StoresInFlight
<1>8. TraceIds
  <2>1. instruction_stage \in [Ids -> StageNames]
    BY <1>1 DEF StageNames
  <2>2. \A id \in Ids : instruction_stage[id] # "FETCH"
    BY <1>1
  <2> QED
    BY <1>2, <1>3, <2>1, <2>2 DEF TraceIds, OldId
<1>9. TraceStages /\ Alone /\ TraceBranches
  BY <1>3, <1>4 DEF TraceStages, Alone, TraceBranches
<1>10. TracedCompletely
  BY <1>1 DEF TracedCompletely
<1> QED
  BY <1>5, <1>6, <1>7, <1>8, <1>9, <1>10 DEF SimInv

(* Every turn of the loop is a clock edge of the pipeline.                 *)
LEMMA TurnIsCycle ==
  ASSUME SimNext
  PROVE  \/ \E fetched \in BOOLEAN, instr \in AnyInstr, ready \in BOOLEAN :
              /\ Cycle(fetched, instr, ready)
              /\ Next /\ print_commit /\ print_kanata /\ ReadTrace
         \/ UNCHANGED << vars, commit_file, instruction_stage, lane >>
<1>1. CASE Turn
  <2>1. PICK ready \in BOOLEAN :
          \/ Cycle(FALSE, NopInstr, ready)
          \/ \E instr \in Instrs : Cycle(TRUE, instr, ready)
    BY <1>1 DEF Turn
  <2>2. Next
    BY <2>1 DEF Next
  <2>3. print_commit /\ print_kanata /\ ReadTrace
    BY <1>1 DEF Turn
  <2> QED
    BY <2>1, <2>2, <2>3, NopIsInstr DEF AnyInstr
<1>2. CASE LeaveLoop
  BY <1>2 DEF LeaveLoop
<1>3. CASE Returned
  BY <1>3 DEF Returned, sim_vars
<1> QED
  BY <1>1, <1>2, <1>3 DEF SimNext

LEMMA SimStep == SimInv /\ [SimNext]_<< vars, sim_vars >> => SimInv'
<1> SUFFICES ASSUME SimInv, [SimNext]_<< vars, sim_vars >>
             PROVE  SimInv'
  OBVIOUS
<1>1. /\ IInv /\ Log /\ SlotValues
      /\ TraceIds /\ TraceStages /\ Alone /\ TraceBranches /\ TracedCompletely
      /\ TypeOK /\ Ring /\ Travelling /\ StageResults /\ CleanInv
      /\ Order /\ SB!WindowInv /\ StoreSlots
  BY DEF SimInv, IInv
<1>2. ASSUME NEW fetched \in BOOLEAN, NEW instr \in AnyInstr, NEW ready \in BOOLEAN,
             Cycle(fetched, instr, ready), Next, print_commit, print_kanata, ReadTrace
      PROVE  SimInv'
  <2>1. IInv' /\ TypeOK' /\ Ring'
    <3>1. IInv'
      BY <1>1, <1>2, InvariantStep
    <3> QED
      BY <3>1 DEF IInv
  <2>2. Log'
    BY <1>1, <1>2, <2>1, LogStep
  <2>3. SlotValues'
    BY <1>1, <1>2, <2>1, SlotValuesStep
  <2>4. TraceIds'
    BY <1>1, <1>2, <2>1, TraceIdsStep
  <2>5. TraceStages'
    BY <1>1, <1>2, <2>1, TraceStagesStep
  <2>6. Alone'
    BY <1>1, <1>2, AloneStep
  <2>7. TraceBranches'
    BY <1>1, <1>2, <2>1, TraceBranchesStep
  <2>8. TracedCompletely'
    BY <1>1, <1>2, TracedStep
  <2> QED
    BY <2>1, <2>2, <2>3, <2>4, <2>5, <2>6, <2>7, <2>8 DEF SimInv
<1>3. ASSUME UNCHANGED << vars, commit_file, instruction_stage, lane >>
      PROVE  SimInv'
  <2>1. IInv'
    BY <1>1, <1>3, InvariantStep
  <2>2. Due' = Due /\ NextId' = NextId
    BY <1>3 DEF Due, NextId, vars
  <2>3. Log'
    BY <1>1, <1>3, <2>2 DEF Log, Numbered, vars, rob_vars, RB!Dist
  <2>4. SlotValues'
    BY <1>1, <1>3 DEF SlotValues, StoresInFlight, SlotOf, WritesBack, vars, rob_vars, sb_vars
  <2>5. TraceIds'
    BY <1>1, <1>3 DEF TraceIds, OldId, vars
  <2>6. TraceStages'
    BY <1>1, <1>3, <2>2 DEF TraceStages, From, Live, At, vars, rob_vars
  <2>7. Alone'
    BY <1>1, <1>3 DEF Alone, Above, vars
  <2>8. TraceBranches'
    BY <1>1, <1>3, <2>2 DEF TraceBranches, Above, Live, vars, rob_vars
  <2>9. TracedCompletely'
    BY <1>1, <1>3 DEF TracedCompletely, vars
  <2> QED
    BY <2>1, <2>3, <2>4, <2>5, <2>6, <2>7, <2>8, <2>9 DEF SimInv
<1>4. CASE SimNext
  BY <1>2, <1>3, <1>4, TurnIsCycle
<1>5. CASE UNCHANGED << vars, sim_vars >>
  BY <1>3, <1>5 DEF sim_vars
<1> QED
  BY <1>4, <1>5

LEMMA SimInvHolds == SimSpec => []SimInv
BY SimInitHolds, SimStep, PTL DEF SimSpec

(* The pipeline of the simulator is the pipeline: what the theorems above  *)
(* say of it holds under the main loop (sim_main.cpp:73-97) too.             *)
THEOREM LoopRunsPipeline == SimSpec => Spec
<1>1. SimInit => Init
  BY DEF SimInit
<1>2. [SimNext]_<< vars, sim_vars >> => [Next]_vars
  BY TurnIsCycle
<1> QED
  BY <1>1, <1>2, PTL DEF SimSpec, Spec

(* The commit log is the program: each line is the successor of the last   *)
(* one, or the first instruction of the path that the last one has taken   *)
(* (datapath.sv:326-333, fetch.sv:14-33).                                  *)
THEOREM LogCorrect == SimSpec => []LogInOrder
<1>1. SimInv => LogInOrder
  BY CommitsOldest DEF SimInv, IInv, LogInOrder, Commit
<1> QED
  BY <1>1, SimInvHolds, PTL

(* Until an entry is reused too early the simulation finishes only at a    *)
(* store that has committed and is in the log (mem.sv:116-129).            *)
THEOREM FinishCorrect == SimSpec => []FinishIsCommitted
<1>1. SimInv => FinishIsCommitted
  <2> SUFFICES ASSUME SimInv, clean, finish_store
               PROVE  \E i \in 1 .. Len(commit_file) :
                        Value(commit_file[i]) = store_buffer_q[sb_head_ptr_q].data
    BY DEF FinishIsCommitted
  <2>1. SlotValues /\ sb_head_ptr_q \in SB!Idx
    BY DEF SimInv, IInv, TypeOK
  <2> QED
    BY <2>1 DEF SlotValues, finish_store, SB!rsp_valid_o
<1> QED
  BY <1>1, SimInvHolds, PTL

(* Until then the trace has every committed instruction in every stage, in *)
(* order, and retires it as committed (kanata.cpp, print_kanata).          *)
THEOREM TraceCorrect == SimSpec => []TracedCompletely
BY SimInvHolds, PTL DEF SimInv

----------------------------------------------------------------------------
(* Where the instructions come from: decoder.sv for words of 32 bits, with *)
(* branch.sv for the outcome, gives nothing but what Core allows, and what *)
(* it gives is what the instruction set says the word is.                  *)

Dec == INSTANCE Branch WITH XLEN <- 32
Rv  == INSTANCE Isa WITH XLEN <- 32

(* What Core keeps of the instruction that the word w at pc becomes, when  *)
(* a and b are its operands and addr the address that it computes.         *)
Decoded(w, pc, a, b, addr) ==
  LET d == Dec!instr_decoded_o(w, pc)
  IN  [srcs |-> {d.addr_rs1, d.addr_rs2}, addr_rd |-> d.addr_rd,
       write_enable |-> d.write_enable, wb_origin |-> d.wb_origin,
       store_to_mem |-> d.store_to_mem, jump |-> d.jump_kind # "BNONE",
       taken |-> Dec!taken_o(a, b, d.jump_kind), is_mul |-> d.is_mul, addr |-> addr]

JumpKinds == {"BNONE", "JUMP", "BEQ", "BNE", "BLT", "BGE", "BLTU", "BGEU"}

LEMMA JumpKind ==
  ASSUME NEW f \in 0 .. 7
  PROVE  Dec!jump_kind(f) \in JumpKinds \ {"JUMP"}
BY DEF Dec!jump_kind, JumpKinds

LEMMA Outcome ==
  ASSUME NEW a \in Int, NEW b \in Int, NEW kind \in JumpKinds
  PROVE  LET t == Dec!taken_o(a, b, kind)
         IN  t \in BOOLEAN /\ (kind = "JUMP" => t) /\ (kind = "BNONE" => ~t)
<1> DEFINE t == Dec!taken_o(a, b, kind)
<1>0. Dec!Signed(a) \in Int /\ Dec!Signed(b) \in Int
  BY DEF Dec!Signed
<1>1. CASE kind = "JUMP"
  <2>1. t = TRUE
    BY <1>1 DEF Dec!taken_o
  <2> QED
    BY <1>1, <2>1
<1>2. CASE kind = "BNONE"
  <2>1. t = FALSE
    BY <1>2 DEF Dec!taken_o
  <2> QED
    BY <1>2, <2>1
<1>3. CASE kind \in {"BEQ", "BNE"}
  <2> DEFINE e == a = b
  <2>1. t = e \/ t = ~e
    BY <1>3 DEF Dec!taken_o
  <2> QED
    BY <1>3, <2>1
<1>4. CASE kind \in {"BLT", "BGE"}
  <2> DEFINE e == Dec!Signed(a) < Dec!Signed(b)
  <2>1. t = e \/ t = ~e
    BY <1>4 DEF Dec!taken_o
  <2>2. e \in BOOLEAN
    BY <1>0
  <2> HIDE DEF e
  <2> QED
    BY <1>4, <2>1, <2>2
<1>5. CASE kind \in {"BLTU", "BGEU"}
  <2> DEFINE e == a < b
  <2>1. t = e \/ t = ~e
    BY <1>5 DEF Dec!taken_o
  <2>2. e \in BOOLEAN
    OBVIOUS
  <2> HIDE DEF e
  <2> QED
    BY <1>5, <2>1, <2>2
<1> QED
  BY <1>1, <1>2, <1>3, <1>4, <1>5 DEF JumpKinds

(* The last assignments of decoder.sv, to the two source registers.        *)
LEMMA SourcesHardwired ==
  ASSUME NEW w, NEW pc, NEW d, d = Dec!ByOpcode(w, pc),
         DOMAIN d = DOMAIN Dec!Plain(w, pc)
  PROVE  LET o == Dec!instr_decoded_o(w, pc)
         IN  /\ o.addr_rs1 = IF Dec!ReadsRs1(d) THEN d.addr_rs1 ELSE 0
             /\ o.addr_rs2 = IF Dec!ReadsRs2(d) THEN d.addr_rs2 ELSE 0
             /\ o.addr_rd = d.addr_rd /\ o.write_enable = d.write_enable
             /\ o.rs1_or_pc = d.rs1_or_pc /\ o.rs2_or_imm = d.rs2_or_imm
             /\ o.alu_op = d.alu_op /\ o.wb_origin = d.wb_origin
             /\ o.store_to_mem = d.store_to_mem /\ o.jump_kind = d.jump_kind
             /\ o.is_mul = d.is_mul
BY DEF Dec!instr_decoded_o, Dec!Plain

(* Opcode by opcode, before the last assignments.                          *)
LEMMA IllegalShape ==
  ASSUME NEW w, NEW pc,
         \/ w.opcode \notin {51, 19, 55, 23, 3, 35, 99, 111, 103}
         \/ w.opcode = 51 /\ ~Dec!legal_alu(w)
         \/ w.opcode = 19 /\ ~Dec!legal_alu_i(w)
  PROVE  Dec!ByOpcode(w, pc) = Dec!Illegal(w, pc)
BY DEF Dec!AluDecoded, Dec!AluIDecoded, Dec!ByOpcode, Dec!OP_LW, Dec!OP_ALU_I, Dec!OP_AUIPC, Dec!OP_SW, Dec!OP_ALU,
       Dec!OP_LUI, Dec!OP_BRANCH, Dec!OP_JALR, Dec!OP_JAL

LEMMA AluShape ==
  ASSUME NEW w, NEW pc, w.opcode = 51, Dec!legal_alu(w)
  PROVE  \E stages : \E mul \in BOOLEAN :
           /\ Dec!ByOpcode(w, pc) =
                [Dec!Plain(w, pc) EXCEPT !.rs2_or_imm = "RS2", !.alu_op = Dec!alu_op(w),
                                         !.is_mul = mul, !.exe_stages = stages]
           /\ mul <=> w.func7 = 1
<1> DEFINE mul == w.func7 = Dec!F7_MUL
<1>1. Dec!ByOpcode(w, pc) = Dec!AluDecoded(w, pc)
  BY DEF Dec!ByOpcode, Dec!OP_LW, Dec!OP_ALU_I, Dec!OP_AUIPC, Dec!OP_SW, Dec!OP_ALU,
       Dec!OP_LUI, Dec!OP_BRANCH, Dec!OP_JALR, Dec!OP_JAL
<1>2. Dec!ByOpcode(w, pc) =
        [Dec!Plain(w, pc) EXCEPT
           !.rs2_or_imm = "RS2", !.alu_op = Dec!alu_op(w), !.is_mul = mul,
           !.exe_stages = IF mul THEN Dec!EXE_STAGES_MULT ELSE 1]
  BY <1>1, Zenon DEF Dec!AluDecoded
<1>3. mul \in BOOLEAN /\ (mul <=> w.func7 = 1)
  BY DEF Dec!F7_MUL
<1> QED
  BY <1>2, <1>3, Zenon

LEMMA AluIShape ==
  ASSUME NEW w, NEW pc, w.opcode = 19, Dec!legal_alu_i(w)
  PROVE  Dec!ByOpcode(w, pc) = [Dec!Plain(w, pc) EXCEPT !.alu_op = Dec!alu_op(w)]
BY DEF Dec!AluIDecoded, Dec!ByOpcode, Dec!OP_LW, Dec!OP_ALU_I, Dec!OP_AUIPC, Dec!OP_SW, Dec!OP_ALU,
       Dec!OP_LUI, Dec!OP_BRANCH, Dec!OP_JALR, Dec!OP_JAL

IsBranch(d, w, pc) ==
  /\ DOMAIN d = DOMAIN Dec!Plain(w, pc)
  /\ d.instr = w /\ d.addr_rs1 = w.rs1 /\ d.addr_rs2 = w.rs2 /\ d.addr_rd = w.rd
  /\ d.write_enable = FALSE /\ d.store_to_mem = FALSE /\ d.is_mul = FALSE
  /\ d.rs1_or_pc = "PC" /\ d.rs2_or_imm = "IMM" /\ d.alu_op = "ADD"
  /\ d.wb_origin = "ALU" /\ d.jump_kind = Dec!jump_kind(w.func3)

LEMMA BranchShape ==
  ASSUME NEW w, NEW pc, w.opcode = 99
  PROVE  IsBranch(Dec!ByOpcode(w, pc), w, pc)
<1> DEFINE d == Dec!ByOpcode(w, pc)
<1>1. d = [Dec!Plain(w, pc) EXCEPT !.write_enable = FALSE, !.rs1_or_pc = "PC",
                                   !.jump_kind = Dec!jump_kind(w.func3)]
  BY DEF Dec!ByOpcode, Dec!OP_LW, Dec!OP_ALU_I, Dec!OP_AUIPC, Dec!OP_SW, Dec!OP_ALU,
         Dec!OP_LUI, Dec!OP_BRANCH, Dec!OP_JALR, Dec!OP_JAL
<1> DEFINE kind == Dec!jump_kind(w.func3)
<1> HIDE DEF d, kind
<1>2. d = [Dec!Plain(w, pc) EXCEPT !.write_enable = FALSE, !.rs1_or_pc = "PC",
                                   !.jump_kind = kind]
  BY <1>1 DEF kind
<1>3. DOMAIN d = DOMAIN Dec!Plain(w, pc)
  BY <1>2 DEF Dec!Plain
<1>4. d.instr = w /\ d.addr_rs1 = w.rs1 /\ d.addr_rs2 = w.rs2 /\ d.addr_rd = w.rd
  BY <1>2 DEF Dec!Plain
<1>5. d.write_enable = FALSE /\ d.store_to_mem = FALSE /\ d.is_mul = FALSE
  BY <1>2 DEF Dec!Plain
<1>6. d.rs1_or_pc = "PC" /\ d.rs2_or_imm = "IMM" /\ d.alu_op = "ADD"
  BY <1>2 DEF Dec!Plain
<1>7. d.wb_origin = "ALU" /\ d.jump_kind = kind
  BY <1>2 DEF Dec!Plain
<1> QED
  BY <1>3, <1>4, <1>5, <1>6, <1>7 DEF kind, d, IsBranch

LEMMA MoveShapes ==
  ASSUME NEW w, NEW pc
  PROVE  LET d == Dec!ByOpcode(w, pc)
             P == Dec!Plain(w, pc)
         IN  /\ w.opcode = 55 => d = [P EXCEPT !.addr_rs1 = 0]
             /\ w.opcode = 23 => d = [P EXCEPT !.rs1_or_pc = "PC"]
             /\ w.opcode = 3 => d = [P EXCEPT !.wb_origin = "MEM"]
             /\ w.opcode = 35 => d = [P EXCEPT !.write_enable = FALSE, !.store_to_mem = TRUE]
BY DEF Dec!ByOpcode, Dec!OP_LW, Dec!OP_ALU_I, Dec!OP_AUIPC, Dec!OP_SW, Dec!OP_ALU,
       Dec!OP_LUI, Dec!OP_BRANCH, Dec!OP_JALR, Dec!OP_JAL

LEMMA JumpShapes ==
  ASSUME NEW w, NEW pc
  PROVE  LET d == Dec!ByOpcode(w, pc)
             P == Dec!Plain(w, pc)
         IN  /\ w.opcode = 111 => d = [P EXCEPT !.rs1_or_pc = "PC", !.wb_origin = "PC_4",
                                                !.jump_kind = "JUMP"]
             /\ w.opcode = 103 => d = [P EXCEPT !.wb_origin = "PC_4", !.jump_kind = "JUMP"]
BY DEF Dec!ByOpcode, Dec!OP_LW, Dec!OP_ALU_I, Dec!OP_AUIPC, Dec!OP_SW, Dec!OP_ALU,
       Dec!OP_LUI, Dec!OP_BRANCH, Dec!OP_JALR, Dec!OP_JAL

LEMMA OpcodeFields ==
  ASSUME NEW w \in Dec!Word, NEW pc
  PROVE  LET d == Dec!ByOpcode(w, pc)
         IN  /\ DOMAIN d = DOMAIN Dec!Plain(w, pc)
             /\ d.instr = w
             /\ d.addr_rs1 \in {0, w.rs1} /\ d.addr_rs2 \in {0, w.rs2} /\ d.addr_rd \in {0, w.rd}
             /\ d.write_enable \in BOOLEAN /\ d.store_to_mem \in BOOLEAN /\ d.is_mul \in BOOLEAN
             /\ d.jump_kind \in JumpKinds
             /\ d.wb_origin = CASE w.opcode = 3 -> "MEM"
                                [] w.opcode \in {103, 111} -> "PC_4"
                                [] OTHER -> "ALU"
             /\ d.jump_kind = CASE w.opcode = 99 -> Dec!jump_kind(w.func3)
                                [] w.opcode \in {103, 111} -> "JUMP"
                                [] OTHER -> "BNONE"
             /\ d.store_to_mem <=> w.opcode = 35
             /\ d.is_mul => w.opcode = 51
             /\ w.opcode \in {35, 99} => ~d.write_enable
<1> DEFINE d == Dec!ByOpcode(w, pc)
<1> w.func3 \in 0 .. 7
  BY DEF Dec!Word
<1> DEFINE P == Dec!Plain(w, pc)
<1>1. CASE w.opcode = 51
  <2>1. CASE ~Dec!legal_alu(w)
    <3>1. d = Dec!Illegal(w, pc)
      BY <1>1, <2>1, IllegalShape
    <3> QED
      BY <1>1, <3>1 DEF Dec!Illegal, Dec!Plain, JumpKinds
  <2>2. CASE Dec!legal_alu(w)
    <3>1. \E stages : \E mul \in BOOLEAN :
            /\ d = [P EXCEPT !.rs2_or_imm = "RS2", !.alu_op = Dec!alu_op(w), !.is_mul = mul,
                             !.exe_stages = stages]
            /\ mul <=> w.func7 = 1
      BY <1>1, <2>2, AluShape
    <3> QED
      BY <1>1, <3>1 DEF Dec!Plain, JumpKinds
  <2> QED
    BY <2>1, <2>2
<1>2. CASE w.opcode = 19
  <2>1. CASE ~Dec!legal_alu_i(w)
    <3>1. d = Dec!Illegal(w, pc)
      BY <1>2, <2>1, IllegalShape
    <3> QED
      BY <1>2, <3>1 DEF Dec!Illegal, Dec!Plain, JumpKinds
  <2>2. CASE Dec!legal_alu_i(w)
    <3>1. d = [P EXCEPT !.alu_op = Dec!alu_op(w)]
      BY <1>2, <2>2, AluIShape
    <3> QED
      BY <1>2, <3>1 DEF Dec!Plain, JumpKinds
  <2> QED
    BY <2>1, <2>2
<1>3. CASE w.opcode = 55
  <2>1. d = [P EXCEPT !.addr_rs1 = 0]
    BY <1>3, MoveShapes
  <2> QED
    BY <1>3, <2>1 DEF Dec!Plain, JumpKinds
<1>4. CASE w.opcode = 23
  <2>1. d = [P EXCEPT !.rs1_or_pc = "PC"]
    BY <1>4, MoveShapes
  <2> QED
    BY <1>4, <2>1 DEF Dec!Plain, JumpKinds
<1>5. CASE w.opcode = 3
  <2>1. d = [P EXCEPT !.wb_origin = "MEM"]
    BY <1>5, MoveShapes
  <2> QED
    BY <1>5, <2>1 DEF Dec!Plain, JumpKinds
<1>6. CASE w.opcode = 35
  <2>1. d = [P EXCEPT !.write_enable = FALSE, !.store_to_mem = TRUE]
    BY <1>6, MoveShapes
  <2> QED
    BY <1>6, <2>1 DEF Dec!Plain, JumpKinds
<1>7. CASE w.opcode = 99
  <2>1. IsBranch(d, w, pc)
    BY <1>7, BranchShape, Zenon
  <2>2. d.jump_kind \in JumpKinds
    BY <2>1, JumpKind DEF IsBranch
  <2>3. /\ d.write_enable \in BOOLEAN /\ d.store_to_mem \in BOOLEAN /\ d.is_mul \in BOOLEAN
        /\ ~d.write_enable /\ ~d.store_to_mem /\ ~d.is_mul
    BY <2>1 DEF IsBranch
  <2>4. /\ DOMAIN d = DOMAIN P /\ d.instr = w /\ d.wb_origin = "ALU"
        /\ d.addr_rs1 = w.rs1 /\ d.addr_rs2 = w.rs2 /\ d.addr_rd = w.rd
        /\ d.jump_kind = Dec!jump_kind(w.func3)
    BY <2>1 DEF IsBranch
  <2> HIDE DEF d
  <2>5. /\ d.wb_origin = CASE w.opcode = 3 -> "MEM"
                           [] w.opcode \in {103, 111} -> "PC_4"
                           [] OTHER -> "ALU"
        /\ d.jump_kind = CASE w.opcode = 99 -> Dec!jump_kind(w.func3)
                           [] w.opcode \in {103, 111} -> "JUMP"
                           [] OTHER -> "BNONE"
    BY <1>7, <2>4
  <2>6. w.opcode # 35
    BY <1>7
  <2> QED
    BY <2>2, <2>3, <2>4, <2>5, <2>6, Zenon DEF d
<1>8. CASE w.opcode = 111
  <2>1. d = [P EXCEPT !.rs1_or_pc = "PC", !.wb_origin = "PC_4",
                      !.jump_kind = "JUMP"]
    BY <1>8, JumpShapes
  <2> QED
    BY <1>8, <2>1 DEF Dec!Plain, JumpKinds
<1>9. CASE w.opcode = 103
  <2>1. d = [P EXCEPT !.wb_origin = "PC_4", !.jump_kind = "JUMP"]
    BY <1>9, JumpShapes
  <2> QED
    BY <1>9, <2>1 DEF Dec!Plain, JumpKinds
<1>10. CASE w.opcode \notin {51, 19, 55, 23, 3, 35, 99, 111, 103}
  <2>1. d = Dec!Illegal(w, pc)
    BY <1>10, IllegalShape
  <2> QED
    BY <1>10, <2>1 DEF Dec!Illegal, Dec!Plain, JumpKinds
<1> QED
  BY <1>1, <1>2, <1>3, <1>4, <1>5, <1>6, <1>7, <1>8, <1>9, <1>10

(* What the theorems assume of the instructions holds of every word of 32  *)
(* bits, legal or not, whatever its operands are (decoder.sv, branch.sv).  *)
THEOREM DecoderFitsPipeline ==
  ASSUME REG_COUNT = 32,
         NEW w \in Dec!Word, NEW pc, NEW a \in Dec!Bus, NEW b \in Dec!Bus, NEW addr \in Addr
  PROVE  Decoded(w, pc, a, b, addr) \in Decodable
<1> DEFINE d == Dec!ByOpcode(w, pc)
           o == Dec!instr_decoded_o(w, pc)
           kind == o.jump_kind
           t == Dec!taken_o(a, b, kind)
<1>1. /\ o.addr_rs1 \in {0, w.rs1} /\ o.addr_rs2 \in {0, w.rs2} /\ o.addr_rd \in {0, w.rd}
      /\ o.write_enable \in BOOLEAN /\ o.store_to_mem \in BOOLEAN /\ o.is_mul \in BOOLEAN
      /\ kind \in JumpKinds
      /\ o.wb_origin = CASE w.opcode = 3 -> "MEM"
                         [] w.opcode \in {103, 111} -> "PC_4"
                         [] OTHER -> "ALU"
      /\ kind = CASE w.opcode = 99 -> Dec!jump_kind(w.func3)
                  [] w.opcode \in {103, 111} -> "JUMP"
                  [] OTHER -> "BNONE"
      /\ o.store_to_mem <=> w.opcode = 35
      /\ o.is_mul => w.opcode = 51
      /\ w.opcode \in {35, 99} => ~o.write_enable
  BY OpcodeFields, SourcesHardwired
<1>2. {o.addr_rs1, o.addr_rs2} \in SUBSET Regs /\ o.addr_rd \in Regs
  BY <1>1 DEF Dec!Word, Regs
<1>3. t \in BOOLEAN /\ (kind = "JUMP" => t) /\ (kind = "BNONE" => ~t)
  <2>1. a \in Int /\ b \in Int
    BY DEF Dec!Bus
  <2> QED
    BY <1>1, <2>1, Outcome
<1> DEFINE i == Decoded(w, pc, a, b, addr)
<1>4. i = [srcs |-> {o.addr_rs1, o.addr_rs2}, addr_rd |-> o.addr_rd,
           write_enable |-> o.write_enable, wb_origin |-> o.wb_origin,
           store_to_mem |-> o.store_to_mem, jump |-> kind # "BNONE",
           taken |-> t, is_mul |-> o.is_mul, addr |-> addr]
  BY DEF Decoded
<1> HIDE DEF i, t, o
<1>5. i \in Instr
  BY <1>1, <1>2, <1>3, <1>4 DEF Instr
<1>6. i \in Decodable
  BY <1>1, <1>3, <1>4, <1>5 DEF Decodable
<1> QED
  BY <1>6 DEF i

----------------------------------------------------------------------------
(* The tables of the instruction set, as disjunctions.                     *)
RegNames ==
  {<< "ADD", 0, 0 >>, << "SUB", 0, 32 >>, << "SLL", 1, 0 >>, << "SLT", 2, 0 >>,
   << "SLTU", 3, 0 >>, << "XOR", 4, 0 >>, << "SRL", 5, 0 >>, << "SRA", 5, 32 >>,
   << "OR", 6, 0 >>, << "AND", 7, 0 >>, << "MUL", 0, 1 >>}
RegCodes ==
  {<< 0, 0 >>, << 0, 32 >>, << 1, 0 >>, << 2, 0 >>, << 3, 0 >>, << 4, 0 >>,
   << 5, 0 >>, << 5, 32 >>, << 6, 0 >>, << 7, 0 >>, << 0, 1 >>}

LEMMA RegOpsTable ==
  ASSUME NEW n, NEW f, NEW g
  PROVE  (n \in DOMAIN Rv!RegOps /\ Rv!RegOps[n] = << f, g >>) <=> << n, f, g >> \in RegNames
BY DEF Rv!RegOps, RegNames

LEMMA ImmOpsTable ==
  ASSUME NEW n, NEW f, NEW g \in 0 .. 127
  PROVE  (n \in DOMAIN Rv!ImmOps /\ Rv!ImmOps[n][1] = f /\ g \in Rv!ImmOps[n][2]) <=>
           \/ << n, f >> \in {<< "ADDI", 0 >>, << "SLTI", 2 >>, << "SLTIU", 3 >>,
                              << "XORI", 4 >>, << "ORI", 6 >>, << "ANDI", 7 >>}
           \/ << n, f, g >> \in {<< "SLLI", 1, 0 >>, << "SRLI", 5, 0 >>, << "SRAI", 5, 32 >>}
BY DEF Rv!ImmOps, Rv!AnyF7

LEMMA BranchesTable ==
  ASSUME NEW n, NEW f
  PROVE  (n \in DOMAIN Rv!Branches /\ Rv!Branches[n] = f) <=>
           << n, f >> \in {<< "BEQ", 0 >>, << "BNE", 1 >>, << "BLT", 4 >>,
                           << "BGE", 5 >>, << "BLTU", 6 >>, << "BGEU", 7 >>}
BY DEF Rv!Branches

LEMMA NamesByOpcode ==
  ASSUME NEW w
  PROVE  /\ w.opcode = 51 => Rv!Names(w) =
              {n \in DOMAIN Rv!RegOps : Rv!RegOps[n] = << w.func3, w.func7 >>}
         /\ w.opcode = 19 => Rv!Names(w) =
              {n \in DOMAIN Rv!ImmOps : Rv!ImmOps[n][1] = w.func3 /\ w.func7 \in Rv!ImmOps[n][2]}
         /\ w.opcode = 99 => Rv!Names(w) = {n \in DOMAIN Rv!Branches : Rv!Branches[n] = w.func3}
         /\ w.opcode = 3   => Rv!Names(w) = {n \in {"LW"} : w.func3 = 2}
         /\ w.opcode = 35  => Rv!Names(w) = {n \in {"SW"} : w.func3 = 2}
         /\ w.opcode = 103 => Rv!Names(w) = {n \in {"JALR"} : w.func3 = 0}
         /\ w.opcode = 111 => Rv!Names(w) = {"JAL"}
         /\ w.opcode = 55  => Rv!Names(w) = {"LUI"}
         /\ w.opcode = 23  => Rv!Names(w) = {"AUIPC"}
         /\ w.opcode \notin {51, 19, 99, 3, 35, 103, 111, 55, 23} => Rv!Names(w) = {}
BY DEF Rv!Names

(* decoder.sv accepts the arithmetic words that the instruction set has.   *)
LEMMA LegalAlike ==
  ASSUME NEW w \in Dec!Word
  PROVE  /\ w.opcode = 51 => (Rv!Legal(w) <=> Dec!legal_alu(w))
         /\ w.opcode = 19 => (Rv!Legal(w) <=> Dec!legal_alu_i(w))
         /\ w.opcode = 99 => (Rv!Legal(w) <=> w.func3 \notin {2, 3})
<1> w.func3 \in 0 .. 7 /\ w.func7 \in 0 .. 127
  BY DEF Dec!Word
<1>1. ASSUME w.opcode = 51
      PROVE  Rv!Legal(w) <=> Dec!legal_alu(w)
  <2>1. Rv!Legal(w) <=> \E n : n \in DOMAIN Rv!RegOps /\ Rv!RegOps[n] = << w.func3, w.func7 >>
    BY <1>1, NamesByOpcode DEF Rv!Legal
  <2>2. Rv!Legal(w) <=> << w.func3, w.func7 >> \in RegCodes
    <3> DEFINE f == w.func3
               g == w.func7
               n == CASE << f, g >> = << 0, 0 >> -> "ADD" [] << f, g >> = << 0, 32 >> -> "SUB"
                      [] << f, g >> = << 1, 0 >> -> "SLL" [] << f, g >> = << 2, 0 >> -> "SLT"
                      [] << f, g >> = << 3, 0 >> -> "SLTU" [] << f, g >> = << 4, 0 >> -> "XOR"
                      [] << f, g >> = << 5, 0 >> -> "SRL" [] << f, g >> = << 5, 32 >> -> "SRA"
                      [] << f, g >> = << 6, 0 >> -> "OR" [] << f, g >> = << 7, 0 >> -> "AND"
                      [] OTHER -> "MUL"
    <3>1. << f, g >> \in RegCodes => << n, f, g >> \in RegNames
      BY DEF RegCodes, RegNames
    <3>2. \A m : << m, f, g >> \in RegNames => << f, g >> \in RegCodes
      BY DEF RegCodes, RegNames
    <3> HIDE DEF n
    <3>3. << f, g >> \in RegCodes => n \in DOMAIN Rv!RegOps /\ Rv!RegOps[n] = << f, g >>
      BY <3>1, RegOpsTable
    <3> QED
      BY <2>1, <3>2, <3>3, RegOpsTable
  <2> QED
    BY <2>2 DEF RegCodes, Dec!legal_alu, Dec!F7_ALU_NORMAL, Dec!F7_ALU_MODIFIED, Dec!F7_MUL
<1>2. ASSUME w.opcode = 19
      PROVE  Rv!Legal(w) <=> Dec!legal_alu_i(w)
  <2>1. Rv!Legal(w) <=> \E n : /\ n \in DOMAIN Rv!ImmOps /\ Rv!ImmOps[n][1] = w.func3
                               /\ w.func7 \in Rv!ImmOps[n][2]
    BY <1>2, NamesByOpcode DEF Rv!Legal
  <2>2. Rv!Legal(w) <=>
          \/ w.func3 \in {0, 2, 3, 4, 6, 7}
          \/ << w.func3, w.func7 >> \in {<< 1, 0 >>, << 5, 0 >>, << 5, 32 >>}
    <3> DEFINE f == w.func3
               g == w.func7
               n == CASE f = 0 -> "ADDI" [] f = 2 -> "SLTI" [] f = 3 -> "SLTIU"
                      [] f = 4 -> "XORI" [] f = 6 -> "ORI" [] f = 7 -> "ANDI"
                      [] << f, g >> = << 1, 0 >> -> "SLLI" [] << f, g >> = << 5, 0 >> -> "SRLI"
                      [] OTHER -> "SRAI"
    <3>1. (\/ << n, f >> \in {<< "ADDI", 0 >>, << "SLTI", 2 >>, << "SLTIU", 3 >>,
                              << "XORI", 4 >>, << "ORI", 6 >>, << "ANDI", 7 >>}
           \/ << n, f, g >> \in {<< "SLLI", 1, 0 >>, << "SRLI", 5, 0 >>, << "SRAI", 5, 32 >>})
          <=> (f \in {0, 2, 3, 4, 6, 7} \/ << f, g >> \in {<< 1, 0 >>, << 5, 0 >>, << 5, 32 >>})
      OBVIOUS
    <3> HIDE DEF n
    <3>2. (f \in {0, 2, 3, 4, 6, 7} \/ << f, g >> \in {<< 1, 0 >>, << 5, 0 >>, << 5, 32 >>})
             => Rv!Legal(w)
      BY <2>1, <3>1, ImmOpsTable
    <3> QED
      BY <2>1, <3>2, ImmOpsTable
  <2> QED
    BY <2>2 DEF Dec!legal_alu_i, Dec!F7_ALU_NORMAL, Dec!F7_ALU_MODIFIED
<1>3. ASSUME w.opcode = 99
      PROVE  Rv!Legal(w) <=> w.func3 \notin {2, 3}
  <2>1. Rv!Legal(w) <=> \E n : n \in DOMAIN Rv!Branches /\ Rv!Branches[n] = w.func3
    BY <1>3, NamesByOpcode DEF Rv!Legal
  <2> QED
    BY <2>1, BranchesTable
<1> QED
  BY <1>1, <1>2, <1>3

(* README.md: an illegal instruction is a NOP.  decoder.sv does not look   *)
(* at func3 of loads, stores and JALR, so the words of those three opcodes *)
(* are excepted; every other word that the instruction set does not have   *)
(* writes, stores, jumps and reads nothing.                                *)
THEOREM IllegalIsNop ==
  ASSUME NEW w \in Dec!Word, NEW pc, ~Rv!Legal(w), w.opcode \notin {3, 35, 103}
  PROVE  LET o == Dec!instr_decoded_o(w, pc)
         IN  /\ ~o.write_enable /\ ~o.store_to_mem /\ ~o.is_mul
             /\ o.wb_origin = "ALU" /\ o.jump_kind = "BNONE"
             /\ o.addr_rs1 = 0 /\ o.addr_rs2 = 0
<1> DEFINE d == Dec!ByOpcode(w, pc)
           P == Dec!Plain(w, pc)
           o == Dec!instr_decoded_o(w, pc)
<1>1. w.opcode \notin {55, 23, 111}
  BY NamesByOpcode DEF Rv!Legal
<1>2. CASE w.opcode = 99
  <2>1. Dec!jump_kind(w.func3) = "BNONE"
    <3>1. w.func3 \in {2, 3}
      BY <1>2, LegalAlike
    <3> QED
      BY <3>1 DEF Dec!jump_kind
  <2>3. /\ DOMAIN d = DOMAIN P /\ d.rs1_or_pc = "PC" /\ d.rs2_or_imm = "IMM"
        /\ d.jump_kind = "BNONE" /\ ~d.store_to_mem /\ ~d.write_enable /\ ~d.is_mul
        /\ d.wb_origin = "ALU"
    <3>1. IsBranch(d, w, pc)
      BY <1>2, BranchShape, Zenon
    <3> HIDE DEF d
    <3> QED
      BY <2>1, <3>1 DEF IsBranch
  <2>4. ~Dec!ReadsRs1(d) /\ ~Dec!ReadsRs2(d)
    BY <2>3 DEF Dec!ReadsRs1, Dec!ReadsRs2
  <2> QED
    BY <2>3, <2>4, SourcesHardwired
<1>3. CASE w.opcode # 99
  <2>1. d = Dec!Illegal(w, pc)
    <3>1. CASE w.opcode = 51
      <4>1. ~Dec!legal_alu(w)
        BY <3>1, LegalAlike
      <4> QED
        BY <3>1, <4>1, IllegalShape
    <3>2. CASE w.opcode = 19
      <4>1. ~Dec!legal_alu_i(w)
        BY <3>2, LegalAlike
      <4> QED
        BY <3>2, <4>1, IllegalShape
    <3>3. CASE w.opcode \notin {51, 19}
      <4>1. w.opcode \notin {51, 19, 55, 23, 3, 35, 99, 111, 103}
        BY <1>1, <1>3, <3>3
      <4> QED
        BY <4>1, IllegalShape
    <3> QED
      BY <3>1, <3>2, <3>3
  <2>2. /\ DOMAIN d = DOMAIN P /\ d.addr_rs1 = 0 /\ d.addr_rs2 = 0 /\ ~d.write_enable
        /\ d.jump_kind = "BNONE" /\ ~d.store_to_mem /\ ~d.is_mul /\ d.wb_origin = "ALU"
    BY <2>1 DEF Dec!Illegal, Dec!Plain
  <2> QED
    BY <2>2, SourcesHardwired
<1> QED
  BY <1>2, <1>3

(* The value that func3 and func7 select, and the branch that func3 does.  *)
LEMMA AluOpNames ==
  ASSUME NEW w \in Dec!Word, NEW n
  PROVE  /\ w.opcode = 51 /\ << n, w.func3, w.func7 >> \in RegNames
              => Dec!alu_op(w) = IF n = "MUL" THEN "ADD" ELSE n
         /\ w.opcode = 99 /\ n \in DOMAIN Rv!Branches /\ Rv!Branches[n] = w.func3
              => Dec!jump_kind(w.func3) = n
<1>1. w.func3 \in 0 .. 7 /\ w.func7 \in 0 .. 127
  BY DEF Dec!Word
<1>2. w.opcode = 51 /\ << n, w.func3, w.func7 >> \in RegNames
         => Dec!alu_op(w) = IF n = "MUL" THEN "ADD" ELSE n
  BY <1>1 DEF RegNames, Dec!alu_op, Dec!F3Op, Dec!Modified, Dec!F7_ALU_MODIFIED, Dec!OP_ALU
<1>3. n \in DOMAIN Rv!Branches /\ Rv!Branches[n] = w.func3 => Dec!jump_kind(w.func3) = n
  BY <1>1, BranchesTable DEF Dec!jump_kind
<1> QED
  BY <1>2, <1>3

LEMMA ImmOpNames ==
  ASSUME NEW w \in Dec!Word, NEW n, w.opcode = 19, n \in DOMAIN Rv!ImmOps,
         Rv!ImmOps[n][1] = w.func3, w.func7 \in Rv!ImmOps[n][2]
  PROVE  Dec!alu_op(w) = Rv!Plain(n)
<1>1. w.func3 \in 0 .. 7 /\ w.func7 \in 0 .. 127
  BY DEF Dec!Word
<1>2. \/ << n, w.func3 >> \in {<< "ADDI", 0 >>, << "SLTI", 2 >>, << "SLTIU", 3 >>,
                               << "XORI", 4 >>, << "ORI", 6 >>, << "ANDI", 7 >>}
      \/ << n, w.func3, w.func7 >> \in {<< "SLLI", 1, 0 >>, << "SRLI", 5, 0 >>,
                                        << "SRAI", 5, 32 >>}
  BY <1>1, ImmOpsTable
<1> QED
  BY <1>1, <1>2 DEF Rv!Plain, Dec!alu_op, Dec!F3Op, Dec!Modified, Dec!F7_ALU_MODIFIED, Dec!OP_ALU

IsAlu(d, w, mul) ==
  /\ DOMAIN d = DOMAIN Dec!Plain(w, d.pc)
  /\ d.instr = w /\ d.addr_rs1 = w.rs1 /\ d.addr_rs2 = w.rs2 /\ d.addr_rd = w.rd
  /\ d.write_enable = TRUE /\ d.store_to_mem = FALSE /\ d.is_mul = mul
  /\ d.rs1_or_pc = "RS1" /\ d.rs2_or_imm = "RS2" /\ d.alu_op = Dec!alu_op(w)
  /\ d.wb_origin = "ALU" /\ d.jump_kind = "BNONE"

IsAluI(d, w) ==
  /\ DOMAIN d = DOMAIN Dec!Plain(w, d.pc)
  /\ d.instr = w /\ d.addr_rs1 = w.rs1 /\ d.addr_rs2 = w.rs2 /\ d.addr_rd = w.rd
  /\ d.write_enable = TRUE /\ d.store_to_mem = FALSE /\ d.is_mul = FALSE
  /\ d.rs1_or_pc = "RS1" /\ d.rs2_or_imm = "IMM" /\ d.alu_op = Dec!alu_op(w)
  /\ d.wb_origin = "ALU" /\ d.jump_kind = "BNONE"

LEMMA AluFields ==
  ASSUME NEW w, NEW pc, w.opcode = 51, Dec!legal_alu(w)
  PROVE  \E mul \in BOOLEAN : (mul <=> w.func7 = 1) /\ IsAlu(Dec!ByOpcode(w, pc), w, mul)
<1> DEFINE d == Dec!ByOpcode(w, pc)
           op == Dec!alu_op(w)
<1>1. \E stages : \E mul \in BOOLEAN :
        /\ d = [Dec!Plain(w, pc) EXCEPT !.rs2_or_imm = "RS2", !.alu_op = op,
                                        !.is_mul = mul, !.exe_stages = stages]
        /\ mul <=> w.func7 = 1
  BY AluShape
<1>2. PICK stages : \E mul \in BOOLEAN :
        /\ d = [Dec!Plain(w, pc) EXCEPT !.rs2_or_imm = "RS2", !.alu_op = op,
                                        !.is_mul = mul, !.exe_stages = stages]
        /\ mul <=> w.func7 = 1
  BY <1>1, Zenon
<1>3. PICK mul \in BOOLEAN :
        /\ d = [Dec!Plain(w, pc) EXCEPT !.rs2_or_imm = "RS2", !.alu_op = op,
                                        !.is_mul = mul, !.exe_stages = stages]
        /\ mul <=> w.func7 = 1
  BY <1>2, Zenon
<1> HIDE DEF d, op
<1>4. DOMAIN d = DOMAIN Dec!Plain(w, d.pc)
  BY <1>3 DEF Dec!Plain
<1>5. d.instr = w /\ d.addr_rs1 = w.rs1 /\ d.addr_rs2 = w.rs2 /\ d.addr_rd = w.rd
  BY <1>3 DEF Dec!Plain
<1>6. d.write_enable = TRUE /\ d.store_to_mem = FALSE /\ d.is_mul = mul
  BY <1>3 DEF Dec!Plain
<1>7. d.rs1_or_pc = "RS1" /\ d.rs2_or_imm = "RS2" /\ d.alu_op = op
  BY <1>3 DEF Dec!Plain
<1>8. d.wb_origin = "ALU" /\ d.jump_kind = "BNONE"
  BY <1>3 DEF Dec!Plain
<1>9. IsAlu(d, w, mul)
  BY <1>4, <1>5, <1>6, <1>7, <1>8, Zenon DEF IsAlu, op
<1> QED
  BY <1>3, <1>9, Zenon DEF d

LEMMA AluIFields ==
  ASSUME NEW w, NEW pc, w.opcode = 19, Dec!legal_alu_i(w)
  PROVE  IsAluI(Dec!ByOpcode(w, pc), w)
<1> DEFINE d == Dec!ByOpcode(w, pc)
           op == Dec!alu_op(w)
<1>1. d = [Dec!Plain(w, pc) EXCEPT !.alu_op = op]
  BY AluIShape
<1> HIDE DEF d, op
<1>2. DOMAIN d = DOMAIN Dec!Plain(w, d.pc)
  BY <1>1 DEF Dec!Plain
<1>3. d.instr = w /\ d.addr_rs1 = w.rs1 /\ d.addr_rs2 = w.rs2 /\ d.addr_rd = w.rd
  BY <1>1 DEF Dec!Plain
<1>4. d.write_enable = TRUE /\ d.store_to_mem = FALSE /\ d.is_mul = FALSE
  BY <1>1 DEF Dec!Plain
<1>5. d.rs1_or_pc = "RS1" /\ d.rs2_or_imm = "IMM" /\ d.alu_op = op
  BY <1>1 DEF Dec!Plain
<1>6. d.wb_origin = "ALU" /\ d.jump_kind = "BNONE"
  BY <1>1 DEF Dec!Plain
<1> QED
  BY <1>2, <1>3, <1>4, <1>5, <1>6, Zenon DEF IsAluI, op, d

(* branch.sv decides as the instruction set's branches do.                 *)
LEMMA BranchOutcome ==
  ASSUME NEW n \in DOMAIN Rv!Branches, NEW a \in Dec!Bus, NEW b \in Dec!Bus
  PROVE  Dec!taken_o(a, b, n) <=> Rv!Taken(n, a, b)
<1> a \in Int /\ b \in Int
  BY DEF Dec!Bus
<1>1. Dec!Signed(a) = Rv!Int2(a) /\ Dec!Signed(b) = Rv!Int2(b)
  BY DEF Dec!Signed, Rv!Int2
<1>2. Rv!Int2(a) \in Int /\ Rv!Int2(b) \in Int
  BY DEF Rv!Int2
<1>3. n \in {"BEQ", "BNE", "BLT", "BGE", "BLTU", "BGEU"}
  BY DEF Rv!Branches
<1>4. CASE n = "BEQ"
  BY <1>1, <1>2, <1>4 DEF Dec!taken_o, Rv!Taken
<1>5. CASE n = "BNE"
  BY <1>1, <1>2, <1>5 DEF Dec!taken_o, Rv!Taken
<1>6. CASE n = "BLT"
  BY <1>1, <1>2, <1>6 DEF Dec!taken_o, Rv!Taken
<1>7. CASE n = "BGE"
  BY <1>1, <1>2, <1>7 DEF Dec!taken_o, Rv!Taken
<1>8. CASE n = "BLTU"
  BY <1>1, <1>2, <1>8 DEF Dec!taken_o, Rv!Taken
<1>9. CASE n = "BGEU"
  BY <1>1, <1>2, <1>9 DEF Dec!taken_o, Rv!Taken
<1> QED
  BY <1>3, <1>4, <1>5, <1>6, <1>7, <1>8, <1>9

(* Every arithmetic word and every branch that the instruction set has is  *)
(* decoded (decoder.sv) as the mnemonic that it encodes: the operation, or *)
(* the multiplier; the operands; the destination; and for a branch the     *)
(* outcome that branch.sv computes from any two operands.                  *)
THEOREM DecodesAs ==
  ASSUME NEW w \in Dec!Word, NEW pc, NEW n \in Rv!Names(w)
  PROVE  LET o == Dec!instr_decoded_o(w, pc)
         IN  /\ w.opcode = 51 =>
                  /\ o.is_mul <=> n = "MUL"
                  /\ n # "MUL" => o.alu_op = n
                  /\ o.rs1_or_pc = "RS1" /\ o.rs2_or_imm = "RS2"
                  /\ o.addr_rs1 = w.rs1 /\ o.addr_rs2 = w.rs2
                  /\ o.addr_rd = w.rd /\ o.write_enable /\ o.wb_origin = "ALU"
             /\ w.opcode = 19 =>
                  /\ o.alu_op = Rv!Plain(n) /\ ~o.is_mul
                  /\ o.rs1_or_pc = "RS1" /\ o.rs2_or_imm = "IMM"
                  /\ o.addr_rs1 = w.rs1
                  /\ o.addr_rd = w.rd /\ o.write_enable /\ o.wb_origin = "ALU"
             /\ w.opcode = 99 =>
                  /\ \A a, b \in Dec!Bus : Dec!taken_o(a, b, o.jump_kind) <=> Rv!Taken(n, a, b)
                  /\ o.rs1_or_pc = "PC" /\ o.rs2_or_imm = "IMM" /\ o.alu_op = "ADD"
                  /\ o.addr_rs1 = w.rs1 /\ o.addr_rs2 = w.rs2 /\ ~o.write_enable
<1> DEFINE d == Dec!ByOpcode(w, pc)
           o == Dec!instr_decoded_o(w, pc)
<1>0. w.func3 \in 0 .. 7 /\ w.func7 \in 0 .. 127 /\ Rv!Legal(w)
  BY DEF Dec!Word, Rv!Legal
<1>1. ASSUME w.opcode = 51
      PROVE  /\ o.is_mul <=> n = "MUL"
             /\ n # "MUL" => o.alu_op = n
             /\ o.rs1_or_pc = "RS1" /\ o.rs2_or_imm = "RS2"
             /\ o.addr_rs1 = w.rs1 /\ o.addr_rs2 = w.rs2
             /\ o.addr_rd = w.rd /\ o.write_enable /\ o.wb_origin = "ALU"
  <2>1. << n, w.func3, w.func7 >> \in RegNames
    <3>1. n \in DOMAIN Rv!RegOps /\ Rv!RegOps[n] = << w.func3, w.func7 >>
      BY <1>1, NamesByOpcode
    <3> QED
      BY <3>1, RegOpsTable
  <2>2. Dec!alu_op(w) = IF n = "MUL" THEN "ADD" ELSE n
    BY <1>1, <2>1, AluOpNames
  <2>3. w.func7 = 1 <=> n = "MUL"
    BY <2>1 DEF RegNames
  <2>4. Dec!legal_alu(w)
    BY <1>0, <1>1, LegalAlike
  <2>5. PICK mul \in BOOLEAN : (mul <=> w.func7 = 1) /\ IsAlu(d, w, mul)
    BY <1>1, <2>4, AluFields, Zenon
  <2> HIDE DEF d
  <2>6. Dec!ReadsRs1(d) /\ Dec!ReadsRs2(d)
    BY <1>1, <2>5 DEF IsAlu, Dec!ReadsRs1, Dec!ReadsRs2, Dec!OP_JAL
  <2>7. DOMAIN d = DOMAIN Dec!Plain(w, pc)
    BY <2>5 DEF IsAlu, Dec!Plain
  <2>8. /\ o.addr_rs1 = d.addr_rs1 /\ o.addr_rs2 = d.addr_rs2 /\ o.addr_rd = d.addr_rd
        /\ o.write_enable = d.write_enable /\ o.wb_origin = d.wb_origin
        /\ o.rs1_or_pc = d.rs1_or_pc /\ o.rs2_or_imm = d.rs2_or_imm
        /\ o.alu_op = d.alu_op /\ o.is_mul = d.is_mul
    BY <2>6, <2>7, SourcesHardwired DEF d
  <2> HIDE DEF o
  <2>9. o.is_mul = mul /\ o.write_enable = TRUE
    BY <2>5, <2>8 DEF IsAlu
  <2>10. /\ o.alu_op = Dec!alu_op(w) /\ o.rs1_or_pc = "RS1" /\ o.rs2_or_imm = "RS2"
         /\ o.addr_rs1 = w.rs1 /\ o.addr_rs2 = w.rs2 /\ o.addr_rd = w.rd
         /\ o.wb_origin = "ALU"
    BY <2>5, <2>8 DEF IsAlu
  <2>11. o.is_mul <=> n = "MUL"
    BY <2>3, <2>5, <2>9, Zenon
  <2> QED
    BY <2>2, <2>9, <2>10, <2>11, Zenon
<1>2. ASSUME w.opcode = 19
      PROVE  /\ o.alu_op = Rv!Plain(n) /\ ~o.is_mul
             /\ o.rs1_or_pc = "RS1" /\ o.rs2_or_imm = "IMM"
             /\ o.addr_rs1 = w.rs1
             /\ o.addr_rd = w.rd /\ o.write_enable /\ o.wb_origin = "ALU"
  <2>1. n \in DOMAIN Rv!ImmOps /\ Rv!ImmOps[n][1] = w.func3 /\ w.func7 \in Rv!ImmOps[n][2]
    BY <1>2, NamesByOpcode
  <2>2. Dec!alu_op(w) = Rv!Plain(n)
    BY <1>2, <2>1, ImmOpNames
  <2>3. Dec!legal_alu_i(w)
    BY <1>0, <1>2, LegalAlike
  <2>4. IsAluI(d, w)
    BY <1>2, <2>3, AluIFields, Zenon
  <2> HIDE DEF d
  <2>5. Dec!ReadsRs1(d)
    BY <1>2, <2>4 DEF IsAluI, Dec!ReadsRs1, Dec!OP_JAL
  <2>6. DOMAIN d = DOMAIN Dec!Plain(w, pc)
    BY <2>4 DEF IsAluI, Dec!Plain
  <2>7. /\ o.addr_rs1 = d.addr_rs1 /\ o.addr_rd = d.addr_rd
        /\ o.write_enable = d.write_enable /\ o.wb_origin = d.wb_origin
        /\ o.rs1_or_pc = d.rs1_or_pc /\ o.rs2_or_imm = d.rs2_or_imm
        /\ o.alu_op = d.alu_op /\ o.is_mul = d.is_mul
    BY <2>5, <2>6, SourcesHardwired DEF d
  <2> HIDE DEF o
  <2>8. o.is_mul = FALSE /\ o.write_enable = TRUE
    BY <2>4, <2>7 DEF IsAluI
  <2>9. /\ o.alu_op = Dec!alu_op(w) /\ o.rs1_or_pc = "RS1" /\ o.rs2_or_imm = "IMM"
        /\ o.addr_rs1 = w.rs1 /\ o.addr_rd = w.rd /\ o.wb_origin = "ALU"
    BY <2>4, <2>7 DEF IsAluI
  <2> QED
    BY <2>2, <2>8, <2>9, Zenon
<1>3. ASSUME w.opcode = 99
      PROVE  /\ \A a, b \in Dec!Bus : Dec!taken_o(a, b, o.jump_kind) <=> Rv!Taken(n, a, b)
             /\ o.rs1_or_pc = "PC" /\ o.rs2_or_imm = "IMM" /\ o.alu_op = "ADD"
             /\ o.addr_rs1 = w.rs1 /\ o.addr_rs2 = w.rs2 /\ ~o.write_enable
  <2>1. n \in DOMAIN Rv!Branches /\ Rv!Branches[n] = w.func3
    BY <1>3, NamesByOpcode
  <2>2. Dec!jump_kind(w.func3) = n /\ n # "BNONE"
    BY <1>3, <2>1, AluOpNames DEF Rv!Branches
  <2>3. IsBranch(d, w, pc)
    BY <1>3, BranchShape, Zenon
  <2> HIDE DEF d
  <2>4. Dec!ReadsRs1(d) /\ Dec!ReadsRs2(d)
    BY <1>3, <2>2, <2>3 DEF IsBranch, Dec!ReadsRs1, Dec!ReadsRs2, Dec!OP_JAL
  <2>5. DOMAIN d = DOMAIN Dec!Plain(w, pc)
    BY <2>3 DEF IsBranch
  <2>6. /\ o.addr_rs1 = d.addr_rs1 /\ o.addr_rs2 = d.addr_rs2
        /\ o.write_enable = d.write_enable /\ o.jump_kind = d.jump_kind
        /\ o.rs1_or_pc = d.rs1_or_pc /\ o.rs2_or_imm = d.rs2_or_imm
        /\ o.alu_op = d.alu_op
    BY <2>4, <2>5, SourcesHardwired DEF d
  <2> HIDE DEF o
  <2>7. o.write_enable = FALSE
    BY <2>3, <2>6 DEF IsBranch
  <2>8. /\ o.jump_kind = n /\ o.rs1_or_pc = "PC" /\ o.rs2_or_imm = "IMM" /\ o.alu_op = "ADD"
        /\ o.addr_rs1 = w.rs1 /\ o.addr_rs2 = w.rs2
    BY <2>2, <2>3, <2>6 DEF IsBranch
  <2>9. \A a, b \in Dec!Bus : Dec!taken_o(a, b, o.jump_kind) <=> Rv!Taken(n, a, b)
    BY <2>1, <2>8, BranchOutcome, Zenon
  <2> QED
    BY <2>7, <2>8, <2>9, Zenon
<1> QED
  BY <1>1, <1>2, <1>3
=============================================================================
