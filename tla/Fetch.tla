-------------------------------- MODULE Fetch --------------------------------
(***************************************************************************)
(* The fetch stage: the program counter (rtl/datapath/fetch/fetch.sv), the *)
(* two-way instruction cache (rtl/caches/icache.sv) and the instruction    *)
(* memory behind it (rtl/caches/imem_wrapper.sv).  One step is one rising  *)
(* edge of clk_i.                                                          *)
(*                                                                         *)
(* A program counter is counted in words, and wraps.  The instructions of  *)
(* a line are represented by the line's number, so a cached line holds the *)
(* number of the line whose instructions it really contains.               *)
(***************************************************************************)
EXTENDS Integers

CONSTANTS
  LAT,             \* cycles of each delay line of the wrapper (5)
  NUM_SETS,        \* 16
  WORDS_PER_LINE,  \* 16
  NUM_TAGS

ASSUME FetchAssumption ==
  /\ LAT \in Nat /\ LAT >= 2
  /\ NUM_SETS \in Nat \ {0}
  /\ WORDS_PER_LINE \in Nat \ {0}
  /\ NUM_TAGS \in Nat \ {0}

VARIABLES
  pc_q,                            \* fetch.sv
  cache_mem, lru_counter,          \* icache.sv
  pending_req,                     \* pending_index and pending_tag are never read
  req_valid_pipe, req_addr_pipe,   \* imem_wrapper.sv
  valid_pipe, data_pipe, rsp_mem_addr_pipe

req_vars == <<req_valid_pipe, req_addr_pipe>>
rsp_vars == <<valid_pipe, data_pipe, rsp_mem_addr_pipe>>
vars == <<pc_q, cache_mem, lru_counter, pending_req, req_vars, rsp_vars>>

Lines == 0 .. NUM_TAGS * NUM_SETS - 1
Pcs   == 0 .. NUM_TAGS * NUM_SETS * WORDS_PER_LINE - 1
Sets  == 0 .. NUM_SETS - 1
Ways  == {0, 1}
Stage == 0 .. LAT - 1

LineOf(pc)  == pc \div WORDS_PER_LINE
IndexOf(l)  == l % NUM_SETS
TagOf(l)    == l \div NUM_SETS

line_aligned_addr == LineOf(pc_q)

----------------------------------------------------------------------------
(* icache.sv, outputs. *)

Holds(i, w, l) ==
  cache_mem[i][w].valid /\ i = IndexOf(l) /\ cache_mem[i][w].tag = TagOf(l)

HitInWayZero ==  \* mutant of hit
  Holds(IndexOf(line_aligned_addr), 0, line_aligned_addr)
hit == \E w \in Ways : Holds(IndexOf(line_aligned_addr), w, line_aligned_addr)

(* The loop keeps the last way that matches. *)
hit_way_sel ==
  IF Holds(IndexOf(line_aligned_addr), 1, line_aligned_addr) THEN 1 ELSE 0

valid_o == hit
FetchedLine == cache_mem[IndexOf(line_aligned_addr)][hit_way_sel].data

req_valid_o == ~hit /\ ~pending_req

(* imem_wrapper.sv, outputs. *)
req_ready_o == \A i \in Stage : ~valid_pipe[i] /\ ~req_valid_pipe[i]
rsp_valid_o == valid_pipe[LAT - 1]

----------------------------------------------------------------------------
(* fetch.sv.  The datapath stalls the stage at least while valid_o is low. *)

NextPc(stall, taken, new_pc) ==
  pc_q' = CASE taken -> new_pc
            [] ~taken /\ ~stall -> (pc_q + 1) % (NUM_TAGS * NUM_SETS * WORDS_PER_LINE)
            [] OTHER -> pc_q

----------------------------------------------------------------------------
(* icache.sv, registers. *)

NextPending ==
  pending_req' = IF req_valid_o /\ req_ready_o THEN TRUE
                   ELSE pending_req /\ ~rsp_valid_o

rsp_line  == rsp_mem_addr_pipe[LAT - 1]
rsp_index == IndexOf(rsp_line)

(* One bit per set chooses the victim. *)
lru_way == IF lru_counter[rsp_index] = 1 THEN 1 ELSE 0

FillUnderPcTag ==  \* mutant of Fill
  cache_mem' =
    IF rsp_valid_o
      THEN [cache_mem EXCEPT ![IndexOf(line_aligned_addr)][lru_way] =
              [valid |-> TRUE, tag |-> TagOf(line_aligned_addr), data |-> data_pipe[LAT - 1]]]
      ELSE cache_mem
FillForgetsValid ==  \* mutant of Fill
  cache_mem' =
    IF rsp_valid_o
      THEN [cache_mem EXCEPT ![rsp_index][lru_way].tag = TagOf(rsp_line)]
      ELSE cache_mem
Fill ==
  cache_mem' =
    IF rsp_valid_o
      THEN [cache_mem EXCEPT ![rsp_index][lru_way] =
              [valid |-> TRUE, tag |-> TagOf(rsp_line), data |-> data_pipe[LAT - 1]]]
      ELSE cache_mem

(* A hit clears the bit of its set and a fill toggles its own; the fill is *)
(* later in the block and wins.                                            *)
NextLru ==
  lru_counter' =
    [i \in Sets |->
       CASE rsp_valid_o /\ i = rsp_index -> 1 - lru_counter[i]
         [] ~(rsp_valid_o /\ i = rsp_index) /\ hit /\ i = IndexOf(line_aligned_addr) -> 0
         [] OTHER -> lru_counter[i]]

----------------------------------------------------------------------------
(* imem_wrapper.sv.  A request is taken whether or not req_ready_o is      *)
(* high.  An answer moves on when the stage after it is empty, and the     *)
(* last stage empties in one cycle because the cache is always ready.      *)

RequestPipe ==
  /\ req_valid_pipe' =
       [i \in Stage |-> IF i = 0 THEN req_valid_o ELSE req_valid_pipe[i - 1]]
  /\ req_addr_pipe' =
       [i \in Stage |-> IF i = 0 THEN line_aligned_addr ELSE req_addr_pipe[i - 1]]

Leaves(i) == i = LAT - 1 \/ ~valid_pipe[i + 1]

ValidPipe ==
  valid_pipe' =
    [i \in Stage |->
       CASE i = 0 -> req_valid_pipe[LAT - 1] \/ (valid_pipe[0] /\ ~Leaves(0))
         [] i > 0 /\ ~valid_pipe[i] -> valid_pipe[i - 1]
         [] OTHER -> ~Leaves(i)]

(* What moves along with an answer; read is the value a request reads.     *)
Moves(pipe, read) ==
  [i \in Stage |->
     CASE i = 0 -> IF req_valid_pipe[LAT - 1] THEN read ELSE pipe[0]
       [] i > 0 /\ ~valid_pipe[i] -> pipe[i - 1]
       [] OTHER -> pipe[i]]

AnswerPipe ==
  /\ ValidPipe
  /\ data_pipe' = Moves(data_pipe, req_addr_pipe[LAT - 1])
  /\ rsp_mem_addr_pipe' = Moves(rsp_mem_addr_pipe, req_addr_pipe[LAT - 1])

----------------------------------------------------------------------------

Init ==
  /\ pc_q = 0
  /\ cache_mem = [i \in Sets |-> [w \in Ways |-> [valid |-> FALSE, tag |-> 0, data |-> 0]]]
  /\ lru_counter = [i \in Sets |-> 1]
  /\ pending_req = FALSE
  /\ req_valid_pipe = [i \in Stage |-> FALSE]
  /\ req_addr_pipe = [i \in Stage |-> 0]
  /\ valid_pipe = [i \in Stage |-> FALSE]
  /\ data_pipe = [i \in Stage |-> 0]
  /\ rsp_mem_addr_pipe = [i \in Stage |-> 0]

Clock(stall, taken, new_pc) ==
  /\ NextPc(stall, taken, new_pc)
  /\ NextPending
  /\ Fill
  /\ NextLru
  /\ RequestPipe
  /\ AnswerPipe

Next ==
  \/ \E stall \in BOOLEAN : (~valid_o => stall) /\ Clock(stall, FALSE, 0)
  \/ \E new_pc \in Pcs : Clock(TRUE, TRUE, new_pc)  \* a taken branch commits

Spec == Init /\ [][Next]_vars

(* The clock ticks as long as a tick changes the cache or the wrapper.     *)
(* Nothing says that a branch is ever taken.                               *)
FairSpec == Spec /\ WF_<<cache_mem, pending_req, req_vars, rsp_vars>>(Next)

----------------------------------------------------------------------------
(* Properties. *)

(* What the fetch stage delivers is the instruction at the program         *)
(* counter, although a branch may have moved the program counter while the *)
(* line of an older one was under way.                                     *)
FetchIsMemory == valid_o => FetchedLine = line_aligned_addr

(* A line is never in both ways of its set, whatever is fetched twice. *)
NoDuplicateLines ==
  \A i \in Sets, l \in Lines : ~(Holds(i, 0, l) /\ Holds(i, 1, l))

(* A miss is served, unless a branch moves the program counter first. *)
MissServed ==
  \A pc \in Pcs : (pc_q = pc /\ ~valid_o) ~> (valid_o \/ pc_q # pc)
=============================================================================
