------------------------------- MODULE DCache -------------------------------
(***************************************************************************)
(* The data cache (rtl/caches/dcache.sv), the memory behind it             *)
(* (rtl/caches/dmem_wrapper.sv) and the port that the memory stage shares  *)
(* between a load and the head of the store buffer (mem.sv).  One step is  *)
(* one rising edge of clk_i.                                               *)
(*                                                                         *)
(* The cache is direct-mapped and writes through.  The wrapper is two      *)
(* delay lines of LAT cycles: requests are shifted to the memory and       *)
(* answers are shifted back.  A write that hits is requested again in      *)
(* every cycle until some answer arrives, so several copies of it, and     *)
(* later several answers, are under way.                                   *)
(***************************************************************************)
EXTENDS Integers

CONSTANTS
  LAT,       \* cycles of each delay line of the wrapper (5)
  Tags, NUM_SETS, Words,
  Data,
  None       \* no request

ASSUME LatAssumption == LAT \in Nat /\ LAT >= 1
ASSUME SetsAssumption == NUM_SETS \in Nat /\ NUM_SETS >= 1
ASSUME DataAssumption == 0 \in Data
ASSUME TagsAssumption == Tags # {}

VARIABLES
  state, cache_mem,          \* dcache.sv
  req_pipe,                  \* req_valid_pipe, req_addr_pipe, we_pipe, data_wr_pipe
  rsp_valid_pipe, data_pipe, \* dmem_wrapper.sv; nothing reads the answer's address
  mem,                       \* unified_mem.cpp, by line
  load,                      \* the load in exe_to_mem_q
  head,                      \* the committed head of the store buffer
  arch,   \* history: what the accepted stores left in memory
  asked,  \* history: the line that was requested in this miss, or None
  clean   \* history: every fill so far was of the line that was requested

cache_vars   == <<state, cache_mem>>
wrapper_vars == <<req_pipe, rsp_valid_pipe, data_pipe, mem>>
vars == <<cache_vars, wrapper_vars, load, head, arch, asked, clean>>

Index == 0 .. NUM_SETS - 1
Lines == Tags \X Index
Line  == [Words -> Data]
ZeroLine == [w \in Words |-> 0]
Addr  == [tag : Tags, index : Index, word : Words]
Store == [addr : Addr, data : Data]
Load  == [addr : Addr, bypass : BOOLEAN]  \* bypass: a slot of the buffer has it
Stage == 0 .. LAT - 1

ASSUME NoneAssumption == None \notin Load /\ None \notin Store /\ None \notin Lines

LineOf(a) == <<a.tag, a.index>>

----------------------------------------------------------------------------
(* The port: a store at the head of the buffer takes it from a load. *)

mem_we == head # None
request_to_dcache == load # None \/ head # None
dcache_addr == IF mem_we THEN head.addr ELSE load.addr

is_collision == load # None /\ mem_we /\ ~load.bypass

----------------------------------------------------------------------------
(* dcache.sv, outputs. *)

TagIgnored ==  \* mutant of hit
  cache_mem[dcache_addr.index].valid
hit ==
  LET line == cache_mem[dcache_addr.index]
  IN  line.valid /\ line.tag = dcache_addr.tag

mem_rsp_valid == rsp_valid_pipe[LAT - 1]

ReadsNeedAnswer ==  \* mutant of ready_o
  state = "IDLE" /\ (request_to_dcache => hit /\ mem_rsp_valid)
ready_o ==
  /\ state = "IDLE"
  /\ request_to_dcache => hit /\ (mem_we => mem_rsp_valid)

data_rd_o == cache_mem[dcache_addr.index].data[dcache_addr.word]

(* The line with the store's word replaced. *)
MergedLine ==
  [cache_mem[dcache_addr.index].data EXCEPT ![head.addr.word] = head.data]

(* Requests under way make the wrapper busy. *)
mem_req_ready == \A i \in Stage : ~req_pipe[i].valid /\ ~rsp_valid_pipe[i]

WritesHit == state = "IDLE" /\ mem_we /\ hit
ReadsLine == state = "MISS" /\ mem_req_ready

NoRequest == [valid |-> FALSE, line |-> CHOOSE l \in Lines : TRUE,
              we |-> FALSE, data |-> ZeroLine]

mem_request ==
  CASE WritesHit -> [valid |-> TRUE, line |-> LineOf(dcache_addr),
                     we |-> TRUE, data |-> MergedLine]
    [] ReadsLine -> [valid |-> TRUE, line |-> LineOf(dcache_addr),
                     we |-> FALSE, data |-> ZeroLine]
    [] OTHER -> NoRequest

----------------------------------------------------------------------------
(* dcache.sv, registers. *)

MissDoesNotWait ==  \* mutant of next_state
  CASE state = "IDLE" -> IF request_to_dcache /\ ~hit THEN "MISS" ELSE "IDLE"
    [] state = "MISS" -> "LOAD_LINE"
    [] OTHER -> "IDLE"
next_state ==
  CASE state = "IDLE" -> IF request_to_dcache /\ ~hit THEN "MISS" ELSE "IDLE"
    [] state = "MISS" -> IF mem_rsp_valid THEN "LOAD_LINE" ELSE "MISS"
    [] OTHER -> "IDLE"

CacheClock ==
  /\ state' = next_state
  /\ cache_mem' =
       CASE WritesHit ->
              [cache_mem EXCEPT ![dcache_addr.index].data = MergedLine]
         [] state = "LOAD_LINE" ->
              [cache_mem EXCEPT ![dcache_addr.index] =
                 [valid |-> TRUE, tag |-> dcache_addr.tag,
                  data  |-> data_pipe[LAT - 1]]]
         [] OTHER -> cache_mem

----------------------------------------------------------------------------
(* dmem_wrapper.sv. *)

WritesDropped == mem' = mem  \* mutant of WriteMemory
WriteMemory ==
  LET last == req_pipe[LAT - 1]
  IN  mem' = IF last.valid /\ last.we THEN [mem EXCEPT ![last.line] = last.data]
                                      ELSE mem

WrapperClock ==
  LET last == req_pipe[LAT - 1]
  IN  /\ req_pipe' = [i \in Stage |-> IF i = 0 THEN mem_request ELSE req_pipe[i - 1]]
      /\ rsp_valid_pipe' =
           [i \in Stage |-> IF i = 0 THEN last.valid ELSE rsp_valid_pipe[i - 1]]
      /\ data_pipe' =
           [i \in Stage |->
              CASE i > 0 -> data_pipe[i - 1]
                [] i = 0 /\ last.valid /\ ~last.we -> mem[last.line]
                [] OTHER -> data_pipe[0]]
      /\ WriteMemory

----------------------------------------------------------------------------
(* The requesters.  A load keeps the port until the cache is ready and no  *)
(* store collides; a store until the cache is ready.  A load that the      *)
(* store buffer answers asks the cache as well, and waits for it to be     *)
(* ready, but does not take its data.  No store enters the buffer          *)
(* meanwhile, but a discarded slot drains whatever the cache does, which   *)
(* can end the bypass.  A load may collide with the committed store of its *)
(* own address: a full buffer does not compare its head.                   *)

LoadDone  == load # None /\ ready_o /\ ~is_collision
StoreDone == head # None /\ ready_o

NextLoad ==
  \/ load = None /\ load' = None
  \/ /\ load # None /\ ~LoadDone
     /\ load' \in Load /\ load'.addr = load.addr
     /\ load'.bypass => load.bypass
  \/ LoadDone /\ load' = None
  \/ (load = None \/ LoadDone) /\ load' \in Load

NextHead ==
  \/ head = None /\ head' = None
  \/ head # None /\ ~StoreDone /\ head' = head
  \/ StoreDone /\ head' = None
  \/ (head = None \/ StoreDone) /\ head' \in Store

Requesters == NextLoad /\ NextHead

(* The fill takes the address at the port, which need not be the one that  *)
(* was requested, and need not follow a request at all.                    *)
FillsAsked == state = "LOAD_LINE" => asked = LineOf(dcache_addr)

History ==
  /\ arch' = IF StoreDone THEN [arch EXCEPT ![head.addr] = head.data] ELSE arch
  /\ asked' = CASE ReadsLine -> LineOf(dcache_addr)
                [] state = "IDLE" -> None
                [] OTHER -> asked
  /\ clean' = (clean /\ FillsAsked)

----------------------------------------------------------------------------

(* The program loader fills the memory before the clock starts; the        *)
(* wrapper's answer pipes have no reset and start at 0.                    *)
Init ==
  /\ state = "IDLE"
  /\ cache_mem = [i \in Index |-> [valid |-> FALSE, tag |-> CHOOSE t \in Tags : TRUE,
                                   data |-> ZeroLine]]
  /\ req_pipe = [i \in Stage |-> NoRequest]
  /\ rsp_valid_pipe = [i \in Stage |-> FALSE]
  /\ data_pipe = [i \in Stage |-> ZeroLine]
  /\ mem \in [Lines -> Line]
  /\ load = None
  /\ head = None
  /\ arch = [a \in Addr |-> mem[LineOf(a)][a.word]]
  /\ asked = None
  /\ clean = TRUE

Clock ==
  /\ CacheClock
  /\ WrapperClock
  /\ Requesters
  /\ History

Next == Clock

Spec == Init /\ [][Next]_vars

(* The clock ticks as long as a tick changes the cache or the wrapper.     *)
(* Nothing says that a request ever arrives.                               *)
FairSpec == Spec /\ WF_<<cache_vars, wrapper_vars>>(Next)

----------------------------------------------------------------------------
(* Properties. *)

(* A load gets from the cache what the last store to its address wrote.    *)
LoadReturnsStored ==
  (LoadDone /\ ~load.bypass) => data_rd_o = arch[load.addr]

(* The same as long as no miss was ended by an answer that was not its own *)
(* or filled under the address of another request: nothing else, neither   *)
(* the store's repeated writes nor stores and loads back to back, makes a  *)
(* load wrong.                                                             *)
LoadRightWhileClean == clean => LoadReturnsStored

(* A miss that asked for the line at the port finds that line, as memory   *)
(* has it now, in the data pipe when it fills, although the answer carries *)
(* no address and writes may be under way when the miss begins.            *)
FilledFromMemory ==
  (state = "LOAD_LINE" /\ FillsAsked) =>
    data_pipe[LAT - 1] = mem[LineOf(dcache_addr)]

(* Write-through: when the wrapper is idle and no store is at the port,    *)
(* memory holds every accepted store, also those accepted on the answer to *)
(* an earlier write.                                                       *)
MemoryCatchesUp ==
  (clean /\ mem_req_ready /\ head = None) =>
    \A a \in Addr : mem[LineOf(a)][a.word] = arch[a]

(* No request waits for ever: a store at the port is accepted, and a load  *)
(* is answered or gives way to a store.                                    *)
RequestsServed ==
  /\ (head # None) ~> StoreDone
  /\ (load # None) ~> (LoadDone \/ head # None)
=============================================================================
