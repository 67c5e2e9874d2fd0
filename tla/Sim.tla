--------------------------------- MODULE Sim --------------------------------
(***************************************************************************)
(* The simulator around the pipeline: the main loop of sim_main.cpp with   *)
(* its watchdog, the $finish of mem.sv, the commit log (commit_log.cpp)    *)
(* and the Kanata pipeline trace (kanata.cpp), composed with Core.  One    *)
(* step is one turn of the loop: the falling edge, after which main reads  *)
(* commit_valid_o, and the rising edge, at which the DPI functions print   *)
(* and the pipeline moves.                                                 *)
(***************************************************************************)
EXTENDS Core, FiniteSetsExt

CONSTANTS
  WATCHDOG,     \* the 100 cycles of sim_main.cpp
  SLOW,         \* bound of the model: the longest the caches keep the core waiting
  FinishAddr    \* 0x40000000

ASSUME SimAssumption == WATCHDOG \in Nat /\ SLOW \in Nat /\ FinishAddr \in Addr

VARIABLES
  gotFinish,                \* Verilated::gotFinish()
  cycles_without_commit,
  ended,                    \* main has left its loop
  commit_file,              \* the instructions printed by print_commit
  instruction_stage,        \* kanata.cpp; "ABSENT" for ids without an entry
  lane,                     \* what a reader of the trace knows of each id
  fetch_wait, mem_wait      \* how long the caches have kept the core waiting

sim_vars == << gotFinish, cycles_without_commit, ended, commit_file, instruction_stage, lane,
               fetch_wait, mem_wait >>

Stages == << "FETCH", "DECODE", "EXECUTE", "MEMORY", "WRITEBACK" >>

-----------------------------------------------------------------------------
(* The Kanata trace.  The lines about the instruction id: a line is        *)
(* <<command, stage or kind of retiring>>.                                 *)

\* What print_kanata is given: the id and the valid bit of each stage.
Seen(stage) ==
  CASE stage = "FETCH"     -> [id |-> kanata_id_counter, valid |-> TRUE]
    [] stage = "DECODE"    -> [id |-> decode_q.kanata_id, valid |-> decode_q.valid]
    [] stage = "EXECUTE"   -> [id |-> decode_to_exe_q.kanata_id, valid |-> decode_to_exe_q.valid]
    [] stage = "MEMORY"    -> [id |-> exe_to_mem_q.kanata_id, valid |-> exe_to_mem_q.valid]
    [] stage = "WRITEBACK" -> [id |-> mem_to_wb_q.kanata_id, valid |-> mem_to_wb_q.valid]

commit_id == IF RB!commit_valid_o THEN rob_q[rob_head_ptr_q].kanata_id ELSE 0

\* prev_curr_...: an id without an entry counts as NONE.
prev(id) == IF instruction_stage[id] = "ABSENT" THEN "NONE" ELSE instruction_stage[id]

Moves(stage) ==
  LET s == Seen(stage) IN prev(s.id) # stage /\ s.valid /\ prev(s.id) # "NONE"

FetchLines(id) ==
  IF id # kanata_id_counter \/ prev(id) = "FETCH" THEN << >>
  ELSE << << "I", "" >>, << "S", "FETCH" >> >>

MoveLines(i, id) ==
  IF id # Seen(Stages[i]).id \/ ~Moves(Stages[i]) THEN << >>
  ELSE << << "E", Stages[i - 1] >>, << "S", Stages[i] >> >>

Commits == RB!commit_valid_o /\ prev(commit_id) \notin {"COMMIT", "NONE"}
CommitLines(id) ==
  IF id # commit_id \/ ~Commits THEN << >>
  ELSE << << "E", "WRITEBACK" >>, << "R", "commit" >> >>

\* On a flush every instruction with an entry is ended and retired as flushed,
\* but the branch that commits.
FlushesAll(id) ==  \* mutant of FlushLines
  LET stage == instruction_stage[id]
  IN CASE stage \in {"ABSENT", "COMMIT"} -> << >>
       [] stage = "NONE" -> << << "R", "flush" >> >>
       [] OTHER -> << << "E", stage >>, << "R", "flush" >> >>
FlushLines(id) ==
  LET stage == instruction_stage[id]
  IN CASE stage \in {"ABSENT", "COMMIT"} -> << >>
       [] stage = "NONE" -> << << "R", "flush" >> >>
       [] stage = "WRITEBACK" /\ id = commit_id ->
            << << "E", "WRITEBACK" >>, << "R", "commit" >> >>
       [] stage \notin {"ABSENT", "COMMIT", "NONE"} /\ ~(stage = "WRITEBACK" /\ id = commit_id) ->
            << << "E", stage >>, << "R", "flush" >> >>

\* The entries after the call.  The assignments for the later stages come last
\* and overwrite an entry of the same id; prev_curr_... are the values from before.
Assigned(m, stage) ==
  LET s == Seen(stage)
  IN CASE s.valid /\ prev(s.id) # "NONE" -> [m EXCEPT ![s.id] = stage]
       [] prev(s.id) = "NONE" -> [m EXCEPT ![s.id] = "NONE"]
       [] OTHER -> m

NextStages ==
  LET erased == IF Commits THEN [instruction_stage EXCEPT ![commit_id] = "ABSENT"]
                ELSE instruction_stage
      fetched == [erased EXCEPT ![kanata_id_counter] = "FETCH"]
  IN Assigned(Assigned(Assigned(Assigned(fetched, "DECODE"), "EXECUTE"), "MEMORY"), "WRITEBACK")

print_kanata ==
  instruction_stage' = IF RB!commit_branch_taken_o THEN [id \in Ids |-> "ABSENT"] ELSE NextStages

\* A reader of the trace: the stage that is open, the stages passed since the I
\* line, how the instruction was first retired, and whether a line made no sense.
\* It follows a lane up to write-back and then waits for the R line, because the
\* stages go back to M when a load that found its value in the store buffer is held
\* in memory; later R lines (kanata.cpp prints some at every flush) are ignored.
NoLane == [open |-> "", passed |-> << >>, retired |-> "", bad |-> FALSE]

Ignored(l, kind) ==
  \/ l.retired # "" /\ kind # "I"
  \/ l.passed = Stages /\ kind \in {"S", "E"}

Read(l, line) ==
  CASE Ignored(l, line[1]) -> l
    [] ~Ignored(l, line[1]) /\ line[1] = "I" -> NoLane
    [] ~Ignored(l, line[1]) /\ line[1] = "S" ->
         [l EXCEPT !.open = line[2], !.passed = Append(@, line[2]), !.bad = @ \/ l.open # ""]
    [] ~Ignored(l, line[1]) /\ line[1] = "E" ->
         [l EXCEPT !.open = "", !.bad = @ \/ l.open # line[2]]
    [] ~Ignored(l, line[1]) /\ line[1] = "R" -> [l EXCEPT !.retired = line[2]]

ReadLines(l, lines) ==
  CASE lines = << >> -> l
    [] Len(lines) = 1 -> Read(l, lines[1])
    [] Len(lines) = 2 -> Read(Read(l, lines[1]), lines[2])

\* The lines of one call, in the order in which print_kanata prints them.
ReadTrace ==
  lane' = [id \in Ids |->
    IF RB!commit_branch_taken_o THEN ReadLines(lane[id], FlushLines(id))
    ELSE LET decoding  == ReadLines(ReadLines(lane[id], FetchLines(id)), MoveLines(2, id))
             executing == ReadLines(decoding, MoveLines(3, id))
             ending    == ReadLines(ReadLines(executing, MoveLines(4, id)), MoveLines(5, id))
         IN ReadLines(ending, CommitLines(id))]

-----------------------------------------------------------------------------
(* The main loop.                                                          *)

\* The rising edges during reset leave an entry for id 0, the id of the first
\* instruction and of every empty pipeline register.
SimInit ==
  /\ Init
  /\ gotFinish = FALSE /\ cycles_without_commit = 0 /\ ended = FALSE
  /\ commit_file = << >>
  /\ instruction_stage = [id \in Ids |-> IF id = 0 THEN "NONE" ELSE "ABSENT"]
  /\ lane = [id \in Ids |-> NoLane]
  /\ fetch_wait = 0 /\ mem_wait = 0

\* mem.sv: a store to the finish address leaves the store buffer.
FinishAtOnce == is_store /\ exe_to_mem_q.instr.addr = FinishAddr  \* mutant of finish_store
finish_store == SB!rsp_valid_o /\ store_buffer_q[sb_head_ptr_q].addr = FinishAddr

CountEdges ==  \* mutant of CountCommit
  cycles_without_commit' = IF RB!commit_valid_o THEN 0 ELSE cycles_without_commit + 2
CountCommit ==
  cycles_without_commit' = IF RB!commit_valid_o THEN 0 ELSE cycles_without_commit + 1

print_commit ==
  commit_file' = IF RB!commit_valid_o THEN Append(commit_file, commit_id) ELSE commit_file

LoopGuard == ~gotFinish /\ cycles_without_commit <= WATCHDOG

\* The caches answer after at most SLOW cycles.  Fetch starts on the next
\* instruction when the last one moved on and again at a flush, keeps its answer
\* while decode is held, and is silent once the program is over.
Waits(fetched, ready) ==
  /\ fetched \/ fetch_wait < SLOW \/ kanata_id_counter = MaxId
  /\ ready \/ mem_wait < SLOW
  /\ fetch_wait' = IF \/ kanata_id_counter' # kanata_id_counter
                      \/ RB!commit_branch_taken_o
                      \/ kanata_id_counter = MaxId
                     THEN 0 ELSE Min({fetch_wait + 1, SLOW})
  /\ mem_wait' = IF ready THEN 0 ELSE mem_wait + 1

Turn ==
  /\ ~ended /\ LoopGuard
  /\ \E ready \in BOOLEAN :
       \/ Cycle(FALSE, NopInstr, ready) /\ Waits(FALSE, ready)
       \/ \E instr \in Instrs : Cycle(TRUE, instr, ready) /\ Waits(TRUE, ready)
  /\ CountCommit
  /\ print_commit
  /\ print_kanata
  /\ ReadTrace
  /\ gotFinish' = finish_store
  /\ UNCHANGED ended

LeaveLoop ==
  /\ ~ended /\ ~LoopGuard
  /\ ended' = TRUE
  /\ UNCHANGED << vars, gotFinish, cycles_without_commit, commit_file, instruction_stage, lane,
                  fetch_wait, mem_wait >>

Returned == ended /\ UNCHANGED << vars, sim_vars >>

SimNext == Turn \/ LeaveLoop \/ Returned

SimSpec == SimInit /\ [][SimNext]_<< vars, sim_vars >>

-----------------------------------------------------------------------------

\* "Execution killed for more than 100 cycles without commiting instructions"
killed_message == ended /\ cycles_without_commit >= WATCHDOG

\* The watchdog never stops a program that is still running, and its message is
\* not printed for one that finished: while the caches answer in bounded time,
\* every stall, flush and refill of the pipeline is over well before it.
WatchdogJust ==
  killed_message => /\ ~gotFinish
                    /\ kanata_id_counter = MaxId
                    /\ \A i \in RB!Idx : ~rob_q[i].valid

\* The commit log is the program: what commits next is the successor of the last
\* line, or after a taken branch the first instruction of the path it has taken.
\* Nothing is left out, nothing is printed twice or out of order.
Due == IF commit_file # << >> /\ commit_file[Len(commit_file)] >= path_id
         THEN commit_file[Len(commit_file)] + 1 ELSE path_id
LogInOrder == RB!commit_valid_o => commit_id = Due

\* Until an entry is reused too early the simulation finishes only at a store that
\* has committed: its line is in the commit log, and so is the line of everything
\* that committed before it.  (After that the slot of a store from the wrong path
\* may be committed for another store's.)
FinishIsCommitted ==
  (clean /\ finish_store) =>
    \E i \in 1 .. Len(commit_file) :
      Value(commit_file[i]) = store_buffer_q[sb_head_ptr_q].data

\* Until then the trace shows every committed instruction but the first in every
\* stage, in order, each stage ended before the next begins, and retires it as
\* committed before it says anything else of its end.  (Id 0 is also the id of empty
\* pipeline registers: the first instruction's entry is overwritten and its lane
\* never ends.)
TracedCompletely ==
  clean =>
    \A i \in 1 .. Len(commit_file) :
      commit_file[i] # 0 =>
        lane[commit_file[i]] =
          [open |-> "WRITEBACK", passed |-> Stages, retired |-> "commit", bad |-> FALSE]
=============================================================================
