----------------------------- MODULE FetchProofs -----------------------------
(***************************************************************************)
(* Theorems about the fetch stage, for every number of sets, tags and      *)
(* words per line and every length of the wrapper's pipes.                 *)
(***************************************************************************)
EXTENDS Fetch, TLAPS

Tags == 0 .. NUM_TAGS - 1

TypeOK ==
  /\ pc_q \in Pcs
  /\ cache_mem \in [Sets -> [Ways -> [valid : BOOLEAN, tag : Tags, data : Lines]]]
  /\ lru_counter \in [Sets -> {0, 1}]
  /\ pending_req \in BOOLEAN
  /\ req_valid_pipe \in [Stage -> BOOLEAN] /\ req_addr_pipe \in [Stage -> Lines]
  /\ valid_pipe \in [Stage -> BOOLEAN]
  /\ data_pipe \in [Stage -> Lines] /\ rsp_mem_addr_pipe \in [Stage -> Lines]

(* A line number is its tag and its index. *)
LEMMA LineParts ==
  ASSUME NEW l \in Lines
  PROVE  /\ IndexOf(l) \in Sets /\ TagOf(l) \in Tags
         /\ l = TagOf(l) * NUM_SETS + IndexOf(l)
<1>1. l \in Nat /\ l < NUM_TAGS * NUM_SETS /\ NUM_SETS \in Nat \ {0} /\ NUM_TAGS \in Nat \ {0}
  BY FetchAssumption DEF Lines
<1>2. IndexOf(l) \in Sets /\ TagOf(l) \in Nat /\ l = TagOf(l) * NUM_SETS + IndexOf(l)
  BY <1>1 DEF IndexOf, TagOf, Sets
<1>3. TagOf(l) < NUM_TAGS
  BY <1>1, <1>2 DEF Sets
<1> QED
  BY <1>1, <1>2, <1>3 DEF Tags

(* The line of a program counter is a line. *)
LEMMA LineOfPc ==
  ASSUME NEW pc \in Pcs
  PROVE  LineOf(pc) \in Lines
<1> DEFINE N == NUM_TAGS * NUM_SETS
<1>1. /\ N \in Nat \ {0} /\ WORDS_PER_LINE \in Nat \ {0}
      /\ pc \in Nat /\ pc < N * WORDS_PER_LINE
  BY FetchAssumption DEF Pcs
<1> HIDE DEF N
<1>2. LineOf(pc) \in Nat /\ LineOf(pc) * WORDS_PER_LINE <= pc
  BY <1>1 DEF LineOf
<1>3. LineOf(pc) < N
  BY <1>1, <1>2
<1> QED
  BY <1>1, <1>2, <1>3 DEF Lines, N

(* One clock edge, whatever the inputs. *)
Tick == \E stall, taken \in BOOLEAN, new_pc \in Pcs : Clock(stall, taken, new_pc)

LEMMA NextIsTick == TypeOK /\ Next => Tick
<1>1. 0 \in Pcs
  <2> DEFINE N == NUM_TAGS * NUM_SETS
  <2>1. N \in Nat \ {0}
    BY FetchAssumption
  <2> HIDE DEF N
  <2>2. N * WORDS_PER_LINE \in Nat \ {0}
    BY <2>1, FetchAssumption
  <2> QED
    BY <2>2 DEF Pcs, N
<1> QED
  BY <1>1 DEF Next, Tick

(* Every register of the stage, the cache and the wrapper keeps its type   *)
(* (fetch.sv, icache.sv and imem_wrapper.sv, the always_ff blocks): the    *)
(* program counter wraps and no line, tag or index leaves its range.       *)
THEOREM TypeCorrect == Spec => []TypeOK
<1>1. Init => TypeOK
  <2> DEFINE N == NUM_TAGS * NUM_SETS
  <2>1. N \in Nat \ {0} /\ NUM_TAGS \in Nat \ {0} /\ NUM_SETS \in Nat \ {0}
    BY FetchAssumption
  <2> HIDE DEF N
  <2>2. N * WORDS_PER_LINE \in Nat \ {0}
    BY <2>1, FetchAssumption
  <2>3. 0 \in Lines /\ 0 \in Pcs /\ 0 \in Tags
    BY <2>1, <2>2 DEF N, Lines, Pcs, Tags
  <2> DEFINE empty == [valid |-> FALSE, tag |-> 0, data |-> 0]
  <2>4. empty \in [valid : BOOLEAN, tag : Tags, data : Lines]
    BY <2>3
  <2>5. Init => cache_mem = [i \in Sets |-> [w \in Ways |-> empty]]
    BY DEF Init
  <2> HIDE DEF empty
  <2>6. Init => cache_mem \in [Sets -> [Ways -> [valid : BOOLEAN, tag : Tags, data : Lines]]]
    BY <2>4, <2>5
  <2> QED
    BY <2>3, <2>6 DEF Init, TypeOK
<1>2. TypeOK /\ [Next]_vars => TypeOK'
  <2> SUFFICES ASSUME TypeOK, [Next]_vars
               PROVE  TypeOK'
    OBVIOUS
  <2>1. ASSUME NEW stall \in BOOLEAN, NEW taken \in BOOLEAN, NEW new_pc \in Pcs,
               Clock(stall, taken, new_pc)
        PROVE  TypeOK'
    <3>0. /\ 0 \in Stage /\ LAT - 1 \in Stage
          /\ \A i \in Stage : i > 0 => i - 1 \in Stage
      BY FetchAssumption DEF Stage
    <3>1. pc_q' \in Pcs
      <4> DEFINE N == NUM_TAGS * NUM_SETS * WORDS_PER_LINE
      <4>1. N \in Nat
        BY FetchAssumption
      <4>2. pc_q' \in {new_pc, (pc_q + 1) % N, pc_q}
        BY <2>1 DEF Clock, NextPc
      <4>3. pc_q \in 0 .. N - 1 /\ new_pc \in 0 .. N - 1
        BY DEF TypeOK, Pcs
      <4> HIDE DEF N
      <4>4. (pc_q + 1) % N \in 0 .. N - 1
        BY <4>1, <4>3
      <4> QED
        BY <4>2, <4>3, <4>4 DEF Pcs, N
    <3>2. cache_mem' \in [Sets -> [Ways -> [valid : BOOLEAN, tag : Tags, data : Lines]]]
      <4> DEFINE new == [valid |-> TRUE, tag |-> TagOf(rsp_line), data |-> data_pipe[LAT - 1]]
      <4>1. rsp_line \in Lines /\ data_pipe[LAT - 1] \in Lines
        BY <3>0 DEF TypeOK, rsp_line
      <4>2. rsp_index \in Sets /\ new \in [valid : BOOLEAN, tag : Tags, data : Lines]
        BY <4>1, LineParts DEF rsp_index
      <4>3. cache_mem' = IF rsp_valid_o THEN [cache_mem EXCEPT ![rsp_index][lru_way] = new]
                                        ELSE cache_mem
        BY <2>1 DEF Clock, Fill
      <4>4. lru_way \in Ways
        BY DEF lru_way, Ways
      <4> HIDE DEF new
      <4> QED
        BY <4>2, <4>3, <4>4 DEF TypeOK
    <3>3. lru_counter' \in [Sets -> {0, 1}]
      <4>1. lru_counter' =
              [i \in Sets |->
                 CASE rsp_valid_o /\ i = rsp_index -> 1 - lru_counter[i]
                   [] ~(rsp_valid_o /\ i = rsp_index) /\ hit /\ i = IndexOf(line_aligned_addr) -> 0
                   [] OTHER -> lru_counter[i]]
        BY <2>1 DEF Clock, NextLru
      <4> QED
        BY <4>1 DEF TypeOK
    <3>4. pending_req' \in BOOLEAN
      BY <2>1 DEF Clock, NextPending, TypeOK
    <3>5. req_valid_pipe' \in [Stage -> BOOLEAN] /\ req_addr_pipe' \in [Stage -> Lines]
      <4>1. req_valid_o \in BOOLEAN /\ line_aligned_addr \in Lines
        BY LineOfPc DEF req_valid_o, line_aligned_addr, TypeOK
      <4> QED
        BY <2>1, <3>0, <4>1 DEF Clock, RequestPipe, TypeOK, Stage
    <3>6. valid_pipe' \in [Stage -> BOOLEAN]
      BY <2>1, <3>0 DEF Clock, AnswerPipe, ValidPipe, TypeOK, Stage, Leaves
    <3>7. data_pipe' \in [Stage -> Lines] /\ rsp_mem_addr_pipe' \in [Stage -> Lines]
      BY <2>1, <3>0 DEF Clock, AnswerPipe, Moves, TypeOK, Stage
    <3> QED
      BY <3>1, <3>2, <3>3, <3>4, <3>5, <3>6, <3>7 DEF TypeOK
  <2>2. CASE UNCHANGED vars
    BY <2>2 DEF vars, req_vars, rsp_vars, TypeOK
  <2> QED
    BY <2>1, <2>2, NextIsTick DEF Tick
<1> QED
  BY <1>1, <1>2, PTL DEF Spec

----------------------------------------------------------------------------
(* The inductive invariant. *)

(* At most one request is under way, and the cache knows of it: the        *)
(* wrapper's pipes are empty whenever pending_req is low.                  *)
OneRequest ==
  \A i, j \in Stage :
    /\ req_valid_pipe[i] => pending_req /\ ~valid_pipe[j] /\ (req_valid_pipe[j] => i = j)
    /\ valid_pipe[i] => pending_req /\ (valid_pipe[j] => i = j)

(* What an answer carries is the line its address names. *)
HonestAnswers == \A i \in Stage : valid_pipe[i] => data_pipe[i] = rsp_mem_addr_pipe[i]

(* A valid line is where its number says and contains itself. *)
HonestLines ==
  \A i \in Sets, w \in Ways :
    cache_mem[i][w].valid => /\ IndexOf(cache_mem[i][w].data) = i
                             /\ TagOf(cache_mem[i][w].data) = cache_mem[i][w].tag

(* The line under way is not in the cache yet. *)
NotHeld(l) == \A w \in Ways : ~Holds(IndexOf(l), w, l)
AskedIsMissing ==
  \A i \in Stage : /\ req_valid_pipe[i] => NotHeld(req_addr_pipe[i])
                   /\ valid_pipe[i] => NotHeld(rsp_mem_addr_pipe[i])

IInv == OneRequest /\ HonestAnswers /\ HonestLines /\ AskedIsMissing /\ NoDuplicateLines

(* What a clock edge does to the pipes while one request is under way: the *)
(* request, or its answer, moves on by one stage, from the last stage of   *)
(* one pipe to the first of the other.                                     *)
LEMMA PipeStep ==
  ASSUME TypeOK, OneRequest, NEW stall, NEW taken, NEW new_pc, Clock(stall, taken, new_pc)
  PROVE  \A i \in Stage :
           /\ req_valid_pipe'[i] <=> IF i = 0 THEN req_valid_o ELSE req_valid_pipe[i - 1]
           /\ req_addr_pipe'[i] = IF i = 0 THEN line_aligned_addr ELSE req_addr_pipe[i - 1]
           /\ valid_pipe'[i] <=> IF i = 0 THEN req_valid_pipe[LAT - 1] ELSE valid_pipe[i - 1]
           /\ valid_pipe'[i] =>
                /\ data_pipe'[i] = IF i = 0 THEN req_addr_pipe[LAT - 1] ELSE data_pipe[i - 1]
                /\ rsp_mem_addr_pipe'[i] =
                     IF i = 0 THEN req_addr_pipe[LAT - 1] ELSE rsp_mem_addr_pipe[i - 1]
<1> SUFFICES ASSUME NEW i \in Stage
             PROVE  /\ req_valid_pipe'[i] <=> IF i = 0 THEN req_valid_o ELSE req_valid_pipe[i - 1]
                    /\ req_addr_pipe'[i] = IF i = 0 THEN line_aligned_addr ELSE req_addr_pipe[i - 1]
                    /\ valid_pipe'[i] <=> IF i = 0 THEN req_valid_pipe[LAT - 1] ELSE valid_pipe[i - 1]
                    /\ valid_pipe'[i] =>
                         /\ data_pipe'[i] = IF i = 0 THEN req_addr_pipe[LAT - 1] ELSE data_pipe[i - 1]
                         /\ rsp_mem_addr_pipe'[i] =
                              IF i = 0 THEN req_addr_pipe[LAT - 1] ELSE rsp_mem_addr_pipe[i - 1]
  OBVIOUS
<1>0. /\ LAT \in Nat /\ LAT >= 2 /\ LAT - 1 \in Stage /\ i \in 0 .. LAT - 1
      /\ i # LAT - 1 => i + 1 \in Stage
      /\ i # 0 => i - 1 \in Stage /\ i - 1 # LAT - 1 /\ (i - 1) + 1 = i
  BY FetchAssumption DEF Stage
<1>1. /\ req_valid_pipe'[i] <=> IF i = 0 THEN req_valid_o ELSE req_valid_pipe[i - 1]
      /\ req_addr_pipe'[i] = IF i = 0 THEN line_aligned_addr ELSE req_addr_pipe[i - 1]
  BY <1>0 DEF Clock, RequestPipe, TypeOK, req_valid_o
(* An answer finds the stage after it empty. *)
<1>2. \A k \in Stage : valid_pipe[k] => Leaves(k) /\ (k # 0 => ~valid_pipe[k - 1])
  BY <1>0, FetchAssumption DEF OneRequest, Leaves, Stage
<1>3. valid_pipe'[i] = CASE i = 0 -> req_valid_pipe[LAT - 1] \/ (valid_pipe[0] /\ ~Leaves(0))
                         [] i > 0 /\ ~valid_pipe[i] -> valid_pipe[i - 1]
                         [] OTHER -> ~Leaves(i)
  BY DEF Clock, AnswerPipe, ValidPipe
<1>4. valid_pipe'[i] <=> IF i = 0 THEN req_valid_pipe[LAT - 1] ELSE valid_pipe[i - 1]
  <2>1. CASE i = 0
    <3>1. 0 \in Stage /\ ~(valid_pipe[0] /\ ~Leaves(0))
      BY <1>2, <2>1
    <3>2. valid_pipe'[i] = (req_valid_pipe[LAT - 1] \/ (valid_pipe[0] /\ ~Leaves(0)))
      BY <1>3, <2>1
    <3> QED
      BY <2>1, <3>1, <3>2
  <2>2. CASE i # 0 /\ ~valid_pipe[i]
    <3>1. i > 0
      BY <1>0, <2>2
    <3> QED
      BY <1>3, <2>2, <3>1
  <2>3. CASE i # 0 /\ valid_pipe[i]
    <3>1. ~(i > 0 /\ ~valid_pipe[i]) /\ ~valid_pipe[i - 1] /\ Leaves(i)
      BY <1>2, <2>3
    <3> QED
      BY <1>3, <2>3, <3>1
  <2> QED
    BY <2>1, <2>2, <2>3
<1>5. valid_pipe'[i] => (i # 0 => ~valid_pipe[i])
  BY <1>0, <1>2, <1>4 DEF OneRequest
<1>6. valid_pipe'[i] =>
        /\ data_pipe'[i] = IF i = 0 THEN req_addr_pipe[LAT - 1] ELSE data_pipe[i - 1]
        /\ rsp_mem_addr_pipe'[i] =
             IF i = 0 THEN req_addr_pipe[LAT - 1] ELSE rsp_mem_addr_pipe[i - 1]
  BY <1>0, <1>4, <1>5 DEF Clock, AnswerPipe, Moves
<1> QED
  BY <1>1, <1>4, <1>6

(* The pipes of the wrapper are clear when no request is pending, so a     *)
(* request is only sent to a wrapper that is ready, and becomes pending.   *)
LEMMA SentWhenReady == TypeOK /\ OneRequest /\ req_valid_o => req_ready_o
BY FetchAssumption DEF OneRequest, req_valid_o, req_ready_o, TypeOK

LEMMA OneRequestStep ==
  ASSUME TypeOK, OneRequest, NEW stall, NEW taken, NEW new_pc, Clock(stall, taken, new_pc)
  PROVE  OneRequest'
<1> DEFINE rv == req_valid_pipe
           av == valid_pipe
<1>0. /\ LAT \in Nat /\ LAT >= 2 /\ LAT - 1 \in Stage /\ 0 \in Stage
      /\ \A i \in Stage : i # 0 => i - 1 \in Stage /\ i - 1 # LAT - 1
      /\ \A i, j \in Stage : i - 1 = j - 1 => i = j
  BY FetchAssumption DEF Stage
<1>1. /\ pending_req' <=> (req_valid_o \/ (pending_req /\ ~rsp_valid_o))
  BY SentWhenReady DEF Clock, NextPending, TypeOK, req_valid_o
<1>2. req_valid_o => \A i \in Stage : ~rv[i] /\ ~av[i]
  BY SentWhenReady DEF req_ready_o
<1>3. \A i, j \in Stage :
        /\ rv[i] => pending_req /\ ~av[j] /\ (rv[j] => i = j)
        /\ av[i] => pending_req /\ (av[j] => i = j)
  BY DEF OneRequest
<1>4. \A i \in Stage : /\ rv'[i] <=> IF i = 0 THEN req_valid_o ELSE rv[i - 1]
                       /\ av'[i] <=> IF i = 0 THEN rv[LAT - 1] ELSE av[i - 1]
  BY PipeStep
<1>5. rsp_valid_o <=> av[LAT - 1]
  BY DEF rsp_valid_o
<1> HIDE DEF rv, av
<1>6. ASSUME NEW i \in Stage, NEW j \in Stage, rv'[i]
      PROVE  pending_req' /\ ~av'[j] /\ (rv'[j] => i = j)
  <2>1. CASE req_valid_o
    BY <1>0, <1>1, <1>2, <1>4, <1>6, <2>1
  <2>2. CASE ~req_valid_o
    <3>1. i # 0 /\ rv[i - 1] /\ i - 1 \in Stage
      BY <1>0, <1>4, <1>6, <2>2
    <3> QED
      BY <1>0, <1>1, <1>3, <1>4, <1>5, <2>2, <3>1
  <2> QED
    BY <2>1, <2>2
<1>7. ASSUME NEW i \in Stage, NEW j \in Stage, av'[i]
      PROVE  pending_req' /\ (av'[j] => i = j)
  <2>1. CASE i = 0
    BY <1>0, <1>1, <1>3, <1>4, <1>5, <1>7, <2>1
  <2>2. CASE i # 0
    BY <1>0, <1>1, <1>3, <1>4, <1>5, <1>7, <2>2
  <2> QED
    BY <2>1, <2>2
<1> QED
  BY <1>6, <1>7 DEF OneRequest, rv, av

(* What a fill leaves: its own line in one way of the set, the rest as it  *)
(* was.                                                                    *)
LEMMA FillStep ==
  ASSUME TypeOK, NEW stall, NEW taken, NEW new_pc, Clock(stall, taken, new_pc)
  PROVE  /\ rsp_index \in Sets /\ lru_way \in Ways /\ rsp_line \in Lines
         /\ \A i \in Sets, w \in Ways :
              cache_mem'[i][w] =
                IF rsp_valid_o /\ i = rsp_index /\ w = lru_way
                  THEN [valid |-> TRUE, tag |-> TagOf(rsp_line), data |-> data_pipe[LAT - 1]]
                  ELSE cache_mem[i][w]
<1> DEFINE new == [valid |-> TRUE, tag |-> TagOf(rsp_line), data |-> data_pipe[LAT - 1]]
<1>1. rsp_line \in Lines
  BY FetchAssumption DEF rsp_line, TypeOK, Stage
<1>2. rsp_index \in Sets /\ lru_way \in Ways
  BY <1>1, LineParts DEF rsp_index, lru_way, Ways
<1>3. cache_mem' = IF rsp_valid_o THEN [cache_mem EXCEPT ![rsp_index][lru_way] = new]
                                  ELSE cache_mem
  BY DEF Clock, Fill
<1> HIDE DEF new
<1>4. \A i \in Sets, w \in Ways :
        cache_mem'[i][w] = IF rsp_valid_o /\ i = rsp_index /\ w = lru_way THEN new
                                                                          ELSE cache_mem[i][w]
  BY <1>2, <1>3 DEF TypeOK
<1> QED
  BY <1>1, <1>2, <1>4 DEF new

LEMMA IInvStep ==
  ASSUME TypeOK, TypeOK', IInv, NEW stall, NEW taken, NEW new_pc, Clock(stall, taken, new_pc)
  PROVE  IInv'
<1>0. /\ LAT \in Nat /\ LAT >= 2 /\ LAT - 1 \in Stage /\ 0 \in Stage
      /\ \A i \in Stage : i # 0 => i - 1 \in Stage
  BY FetchAssumption DEF Stage
<1>1. OneRequest'
  BY OneRequestStep DEF IInv
<1>2. HonestAnswers'
  BY <1>0, PipeStep DEF IInv, HonestAnswers
<1>3. HonestLines'
  <2> SUFFICES ASSUME NEW i \in Sets, NEW w \in Ways, cache_mem'[i][w].valid
               PROVE  /\ IndexOf(cache_mem'[i][w].data) = i
                      /\ TagOf(cache_mem'[i][w].data) = cache_mem'[i][w].tag
    BY DEF HonestLines
  <2>1. CASE rsp_valid_o /\ i = rsp_index /\ w = lru_way
    <3>1. data_pipe[LAT - 1] = rsp_line
      BY <1>0, <2>1 DEF IInv, HonestAnswers, rsp_valid_o, rsp_line
    <3> QED
      BY <2>1, <3>1, FillStep DEF rsp_index
  <2>2. CASE ~(rsp_valid_o /\ i = rsp_index /\ w = lru_way)
    BY <2>2, FillStep DEF IInv, HonestLines
  <2> QED
    BY <2>1, <2>2
(* Another line is in the cache after a fill only if it was before it.     *)
<1>4. ASSUME NEW l \in Lines, NEW w \in Ways, Holds(IndexOf(l), w, l)',
             ~(rsp_valid_o /\ l = rsp_line)
      PROVE  Holds(IndexOf(l), w, l)
  <2>1. IndexOf(l) \in Sets
    BY LineParts
  <2>2. CASE rsp_valid_o /\ IndexOf(l) = rsp_index /\ w = lru_way
    <3>1. TagOf(l) = TagOf(rsp_line) /\ IndexOf(l) = IndexOf(rsp_line)
      BY <1>4, <2>1, <2>2, FillStep DEF Holds, rsp_index
    <3>2. l = rsp_line
      BY <3>1, LineParts, FillStep
    <3> QED
      BY <1>4, <2>2, <3>2
  <2>3. CASE ~(rsp_valid_o /\ IndexOf(l) = rsp_index /\ w = lru_way)
    BY <1>4, <2>1, <2>3, FillStep DEF Holds
  <2> QED
    BY <2>2, <2>3
(* The only answer under way is the one that fills.                        *)
<1>5. AskedIsMissing'
  <2>1. ASSUME NEW i \in Stage, req_valid_pipe'[i]
        PROVE  NotHeld(req_addr_pipe[i])'
    <3> DEFINE l == req_addr_pipe'[i]
    <3>1. l \in Lines
      BY DEF TypeOK
    <3>2. NotHeld(l) /\ ~rsp_valid_o
      <4>1. CASE i = 0
        BY <1>0, <2>1, <4>1, PipeStep, SentWhenReady
           DEF req_valid_o, hit, NotHeld, req_ready_o, rsp_valid_o, IInv
      <4>2. CASE i # 0
        BY <1>0, <2>1, <4>2, PipeStep DEF IInv, OneRequest, AskedIsMissing, rsp_valid_o
      <4> QED
        BY <4>1, <4>2
    <3> QED
      BY <1>4, <3>1, <3>2 DEF NotHeld
  <2>2. ASSUME NEW i \in Stage, valid_pipe'[i]
        PROVE  NotHeld(rsp_mem_addr_pipe[i])'
    <3> DEFINE l == rsp_mem_addr_pipe'[i]
    <3>1. l \in Lines
      BY DEF TypeOK
    <3>2. NotHeld(l) /\ ~rsp_valid_o
      <4>1. CASE i = 0
        BY <1>0, <2>2, <4>1, PipeStep DEF IInv, OneRequest, AskedIsMissing, rsp_valid_o
      <4>2. CASE i # 0
        <5>1. /\ valid_pipe[i - 1] /\ i - 1 \in Stage /\ i - 1 # LAT - 1
              /\ l = rsp_mem_addr_pipe[i - 1]
          BY <1>0, <2>2, <4>2, PipeStep DEF IInv, Stage
        <5> QED
          BY <1>0, <5>1 DEF IInv, OneRequest, AskedIsMissing, rsp_valid_o
      <4> QED
        BY <4>1, <4>2
    <3> QED
      BY <1>4, <3>1, <3>2 DEF NotHeld
  <2> QED
    BY <2>1, <2>2 DEF AskedIsMissing
(* The way that is not filled does not hold the line of the answer.        *)
<1>6. NoDuplicateLines'
  <2> SUFFICES ASSUME NEW i \in Sets, NEW l \in Lines, Holds(i, 0, l)', Holds(i, 1, l)'
               PROVE  FALSE
    BY DEF NoDuplicateLines
  <2>1. i = IndexOf(l)
    BY DEF Holds
  <2>2. CASE rsp_valid_o /\ l = rsp_line
    <3>1. NotHeld(l)
      BY <1>0, <2>2 DEF IInv, AskedIsMissing, rsp_valid_o, rsp_line
    <3>2. PICK w \in Ways : w # lru_way
      BY FillStep DEF Ways
    <3>3. Holds(i, w, l)
      BY <3>2, FillStep DEF Holds, Ways
    <3> QED
      BY <2>1, <3>1, <3>3 DEF NotHeld
  <2>3. CASE ~(rsp_valid_o /\ l = rsp_line)
    BY <1>4, <2>1, <2>3 DEF IInv, NoDuplicateLines, Ways
  <2> QED
    BY <2>2, <2>3
<1> QED
  BY <1>1, <1>2, <1>3, <1>5, <1>6 DEF IInv

LEMMA InvariantHolds == Spec => []IInv
<1>1. Init => IInv
  BY DEF Init, IInv, OneRequest, HonestAnswers, HonestLines, AskedIsMissing, NoDuplicateLines,
         Holds, Ways
<1>2. TypeOK /\ TypeOK' /\ IInv /\ [Next]_vars => IInv'
  <2> SUFFICES ASSUME TypeOK, TypeOK', IInv, [Next]_vars
               PROVE  IInv'
    OBVIOUS
  <2>1. ASSUME Next
        PROVE  IInv'
    BY <2>1, NextIsTick, IInvStep DEF Tick
  <2>2. CASE UNCHANGED vars
    BY <2>2 DEF vars, req_vars, rsp_vars, IInv, OneRequest, HonestAnswers, HonestLines,
                AskedIsMissing, NotHeld, NoDuplicateLines, Holds
  <2> QED
    BY <2>1, <2>2
<1> QED
  BY <1>1, <1>2, TypeCorrect, PTL DEF Spec

----------------------------------------------------------------------------

(* The fetch stage delivers the instruction at the program counter         *)
(* (icache.sv, the hit logic and the fill), whatever branches move it and  *)
(* whenever the answer to an older miss arrives.                           *)
THEOREM FetchCorrect == Spec => []FetchIsMemory
<1>1. TypeOK /\ IInv => FetchIsMemory
  <2> SUFFICES ASSUME TypeOK, IInv, hit
               PROVE  FetchedLine = line_aligned_addr
    BY DEF FetchIsMemory, valid_o
  <2> DEFINE l == line_aligned_addr
             way == cache_mem[IndexOf(l)][hit_way_sel]
  <2>1. l \in Lines /\ IndexOf(l) \in Sets
    BY LineOfPc, LineParts DEF line_aligned_addr, TypeOK
  <2>2. hit_way_sel \in Ways /\ Holds(IndexOf(l), hit_way_sel, l)
    BY DEF hit, hit_way_sel, Ways
  <2>3. way.valid /\ way.tag = TagOf(l) /\ way.data \in Lines
    BY <2>1, <2>2 DEF Holds, TypeOK
  <2>4. IndexOf(way.data) = IndexOf(l) /\ TagOf(way.data) = TagOf(l)
    BY <2>1, <2>2, <2>3 DEF IInv, HonestLines
  <2> QED
    BY <2>1, <2>3, <2>4, LineParts DEF FetchedLine
<1> QED
  BY <1>1, TypeCorrect, InvariantHolds, PTL

(* A line is never cached twice (icache.sv), although nothing in a fill    *)
(* looks at the other way of the set: only one request is under way, and   *)
(* it is for a line that is in neither way.                                *)
THEOREM NoDuplicates == Spec => []NoDuplicateLines
<1>1. IInv => NoDuplicateLines
  BY DEF IInv
<1> QED
  BY <1>1, InvariantHolds, PTL

(* imem_wrapper.sv shifts a request in whether or not it is ready for one; *)
(* the cache never sends one it is not ready for.                          *)
THEOREM NeverSentWhileBusy == Spec => [](req_valid_o => req_ready_o)
<1>1. TypeOK /\ IInv => (req_valid_o => req_ready_o)
  BY SentWhenReady DEF IInv
<1> QED
  BY <1>1, TypeCorrect, InvariantHolds, PTL
=============================================================================
