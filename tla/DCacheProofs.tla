---------------------------- MODULE DCacheProofs ----------------------------
(***************************************************************************)
(* Theorems about the data cache, for every set of tags, number of sets,   *)
(* words per line and values, and every length of the wrapper's pipes.     *)
(***************************************************************************)
EXTENDS DCache, TLAPS

CacheLine == [valid : BOOLEAN, tag : Tags, data : Line]
Request   == [valid : BOOLEAN, line : Lines, we : BOOLEAN, data : Line]

TypeOK ==
  /\ state \in {"IDLE", "MISS", "LOAD_LINE"}
  /\ state # "IDLE" => request_to_dcache
  /\ cache_mem \in [Index -> CacheLine]
  /\ req_pipe \in [Stage -> Request]
  /\ rsp_valid_pipe \in [Stage -> BOOLEAN] /\ data_pipe \in [Stage -> Line]
  /\ mem \in [Lines -> Line]
  /\ load \in Load \cup {None} /\ head \in Store \cup {None}
  /\ arch \in [Addr -> Data]
  /\ asked \in Lines \cup {None}
  /\ clean \in BOOLEAN

(* The wrapper is never asked to do anything in an idle cycle.             *)
LEMMA Basics ==
  /\ LAT \in Nat /\ LAT >= 1 /\ 0 \in Stage /\ LAT - 1 \in Stage
  /\ \A i \in Stage : i # 0 => i - 1 \in Stage /\ i - 1 # LAT - 1
  /\ ZeroLine \in Line /\ NoRequest \in Request /\ ~NoRequest.valid
<1>1. /\ LAT \in Nat /\ LAT >= 1 /\ 0 \in Stage /\ LAT - 1 \in Stage
      /\ \A i \in Stage : i # 0 => i - 1 \in Stage /\ i - 1 # LAT - 1
  BY LatAssumption DEF Stage
<1>2. ZeroLine \in Line
  BY DataAssumption DEF ZeroLine, Line
<1>3. Lines # {}
  <2>1. 0 \in Index
    BY SetsAssumption DEF Index
  <2>2. PICK t \in Tags : TRUE
    BY TagsAssumption
  <2>3. << t, 0 >> \in Lines
    BY <2>1, <2>2 DEF Lines
  <2> QED
    BY <2>3
<1>4. (CHOOSE l \in Lines : TRUE) \in Lines
  BY <1>3
<1>5. NoRequest \in Request /\ ~NoRequest.valid
  BY <1>2, <1>4 DEF NoRequest, Request
<1> QED
  BY <1>1, <1>2, <1>5

(* The request at the port. *)
LEMMA Port ==
  ASSUME TypeOK
  PROVE  /\ mem_we => /\ head \in Store /\ dcache_addr = head.addr
                      /\ head.addr \in Addr /\ head.data \in Data
         /\ request_to_dcache =>
              /\ dcache_addr \in Addr /\ LineOf(dcache_addr) \in Lines
              /\ dcache_addr.index \in Index /\ dcache_addr.tag \in Tags
              /\ dcache_addr.word \in Words
<1>1. mem_we => /\ head \in Store /\ dcache_addr = head.addr
                /\ head.addr \in Addr /\ head.data \in Data
  BY DEF TypeOK, mem_we, dcache_addr, Store
<1>2. request_to_dcache => dcache_addr \in Addr
  BY <1>1 DEF TypeOK, request_to_dcache, mem_we, dcache_addr, Load
<1>3. \A a \in Addr : /\ LineOf(a) \in Lines /\ a.index \in Index /\ a.tag \in Tags
                      /\ a.word \in Words
  BY DEF Addr, LineOf, Lines
<1> QED
  BY <1>1, <1>2, <1>3

(* A request is accepted only in the idle state. *)
LEMMA DoneFacts ==
  ASSUME TypeOK, Requesters
  PROVE  /\ state # "IDLE" => ~LoadDone /\ ~StoreDone
         /\ head' \in Store \cup {None} /\ load' \in Load \cup {None}
         /\ head # None /\ ~StoreDone => head' = head
         /\ load # None /\ ~LoadDone => load' \in Load /\ load'.addr = load.addr
BY DEF TypeOK, Requesters, NextHead, NextLoad, LoadDone, StoreDone, ready_o

(* The line a store leaves in the cache. *)
LEMMA Merged ==
  ASSUME TypeOK, mem_we
  PROVE  /\ MergedLine \in Line
         /\ \A w \in Words : MergedLine[w] =
              IF w = head.addr.word THEN head.data
                                    ELSE cache_mem[head.addr.index].data[w]
<1>1. /\ head \in Store /\ dcache_addr = head.addr /\ head.data \in Data
      /\ head.addr.index \in Index /\ head.addr.word \in Words
  BY Port DEF request_to_dcache, mem_we
<1>2. cache_mem[head.addr.index].data \in Line
  BY <1>1 DEF TypeOK, CacheLine
<1>3. MergedLine = [cache_mem[head.addr.index].data EXCEPT ![head.addr.word] = head.data]
  BY <1>1 DEF MergedLine
<1> QED
  BY <1>1, <1>2, <1>3 DEF Line

(* What is sent to the wrapper. *)
LEMMA RequestFacts ==
  ASSUME TypeOK
  PROVE  /\ mem_request \in Request
         /\ WritesHit => /\ mem_we /\ mem_request.valid /\ mem_request.we
                         /\ mem_request.line = LineOf(head.addr)
                         /\ mem_request.data = MergedLine
         /\ ReadsLine => /\ mem_request.valid /\ ~mem_request.we
                         /\ mem_request.line = LineOf(dcache_addr)
         /\ mem_request.valid => WritesHit \/ ReadsLine
<1>1. CASE WritesHit
  <2>1. mem_we /\ ~ReadsLine /\ LineOf(dcache_addr) \in Lines /\ dcache_addr = head.addr
    BY <1>1, Port DEF WritesHit, ReadsLine, request_to_dcache, mem_we
  <2>2. mem_request = [valid |-> TRUE, line |-> LineOf(dcache_addr), we |-> TRUE, data |-> MergedLine]
    BY <1>1, <2>1 DEF mem_request
  <2> QED
    BY <1>1, <2>1, <2>2, Merged DEF Request
<1>2. CASE ReadsLine
  <2>1. ~WritesHit /\ LineOf(dcache_addr) \in Lines
    BY <1>2, Port DEF WritesHit, ReadsLine, TypeOK
  <2>2. mem_request = [valid |-> TRUE, line |-> LineOf(dcache_addr), we |-> FALSE, data |-> ZeroLine]
    BY <1>2, <2>1 DEF mem_request
  <2> QED
    BY <1>2, <2>1, <2>2, Basics DEF Request
<1>3. CASE ~WritesHit /\ ~ReadsLine
  BY <1>3, Basics DEF mem_request
<1> QED
  BY <1>1, <1>2, <1>3

(* The pipes after a clock edge. *)
LEMMA PipeStep ==
  ASSUME TypeOK, WrapperClock
  PROVE  /\ \A i \in Stage :
              /\ req_pipe'[i] = IF i = 0 THEN mem_request ELSE req_pipe[i - 1]
              /\ rsp_valid_pipe'[i] = IF i = 0 THEN req_pipe[LAT - 1].valid ELSE rsp_valid_pipe[i - 1]
              /\ i # 0 => data_pipe'[i] = data_pipe[i - 1]
         /\ req_pipe[LAT - 1].valid /\ ~req_pipe[LAT - 1].we =>
              data_pipe'[0] = mem[req_pipe[LAT - 1].line]
         /\ ~(req_pipe[LAT - 1].valid /\ ~req_pipe[LAT - 1].we) => data_pipe'[0] = data_pipe[0]
         /\ mem' = IF req_pipe[LAT - 1].valid /\ req_pipe[LAT - 1].we
                     THEN [mem EXCEPT ![req_pipe[LAT - 1].line] = req_pipe[LAT - 1].data] ELSE mem
         /\ req_pipe' \in [Stage -> Request] /\ rsp_valid_pipe' \in [Stage -> BOOLEAN]
         /\ data_pipe' \in [Stage -> Line] /\ mem' \in [Lines -> Line]
<1> DEFINE last == req_pipe[LAT - 1]
<1>1. /\ req_pipe' = [i \in Stage |-> IF i = 0 THEN mem_request ELSE req_pipe[i - 1]]
      /\ rsp_valid_pipe' = [i \in Stage |-> IF i = 0 THEN last.valid ELSE rsp_valid_pipe[i - 1]]
      /\ data_pipe' = [i \in Stage |->
                         CASE i > 0 -> data_pipe[i - 1]
                           [] i = 0 /\ last.valid /\ ~last.we -> mem[last.line]
                           [] OTHER -> data_pipe[0]]
      /\ mem' = IF last.valid /\ last.we THEN [mem EXCEPT ![last.line] = last.data] ELSE mem
  BY DEF WrapperClock, WriteMemory
<1>2. /\ req_pipe \in [Stage -> Request] /\ rsp_valid_pipe \in [Stage -> BOOLEAN]
      /\ data_pipe \in [Stage -> Line] /\ mem \in [Lines -> Line]
  BY DEF TypeOK
<1>3. last \in Request
  BY <1>2, Basics
<1>4. last.valid \in BOOLEAN /\ last.we \in BOOLEAN /\ last.line \in Lines /\ last.data \in Line
  BY <1>3 DEF Request
<1> HIDE DEF last
<1>5. \A i \in Stage : i # 0 => i > 0
  BY DEF Stage
<1>6. ASSUME NEW i \in Stage, i # 0
      PROVE  data_pipe'[i] = data_pipe[i - 1]
  BY <1>1, <1>5, <1>6
<1>7. /\ last.valid /\ ~last.we => data_pipe'[0] = mem[last.line]
      /\ ~(last.valid /\ ~last.we) => data_pipe'[0] = data_pipe[0]
  <2>1. data_pipe'[0] = CASE 0 > 0 -> data_pipe[0 - 1]
                          [] 0 = 0 /\ last.valid /\ ~last.we -> mem[last.line]
                          [] OTHER -> data_pipe[0]
    BY <1>1, Basics
  <2> QED
    BY <2>1
<1>8. \A i \in Stage : data_pipe'[i] \in Line
  BY <1>2, <1>4, <1>6, <1>7, Basics
<1>9. data_pipe' \in [Stage -> Line]
  BY <1>1, <1>8
<1>10. mem' \in [Lines -> Line]
  BY <1>1, <1>2, <1>4
<1>11. req_pipe' \in [Stage -> Request] /\ rsp_valid_pipe' \in [Stage -> BOOLEAN]
  <2>1. mem_request \in Request
    BY RequestFacts
  <2> QED
    BY <1>1, <1>2, <1>4, <2>1, Basics
<1>12. \A i \in Stage :
         /\ req_pipe'[i] = IF i = 0 THEN mem_request ELSE req_pipe[i - 1]
         /\ rsp_valid_pipe'[i] = IF i = 0 THEN last.valid ELSE rsp_valid_pipe[i - 1]
  BY <1>1
<1> QED
  BY <1>1, <1>6, <1>7, <1>9, <1>10, <1>11, <1>12 DEF last

(* The cache after a clock edge. *)
LEMMA CacheStep ==
  ASSUME TypeOK, CacheClock
  PROVE  /\ cache_mem' \in [Index -> CacheLine]
         /\ WritesHit =>
              /\ head.addr.index \in Index
              /\ cache_mem[head.addr.index].valid
              /\ cache_mem[head.addr.index].tag = head.addr.tag
              /\ \A i \in Index :
                   /\ cache_mem'[i].valid = cache_mem[i].valid
                   /\ cache_mem'[i].tag = cache_mem[i].tag
                   /\ cache_mem'[i].data = IF i = head.addr.index THEN MergedLine
                                                                  ELSE cache_mem[i].data
         /\ state = "LOAD_LINE" =>
              /\ dcache_addr.index \in Index
              /\ \A i \in Index :
                   cache_mem'[i] = IF i = dcache_addr.index
                                     THEN [valid |-> TRUE, tag |-> dcache_addr.tag,
                                           data |-> data_pipe[LAT - 1]]
                                     ELSE cache_mem[i]
         /\ ~WritesHit /\ state # "LOAD_LINE" => cache_mem' = cache_mem
<1>1. cache_mem \in [Index -> CacheLine]
  BY DEF TypeOK
<1>2. CASE WritesHit
  <2>1. /\ mem_we /\ dcache_addr = head.addr /\ head.addr.index \in Index /\ state # "LOAD_LINE"
        /\ MergedLine \in Line
    BY <1>2, Port, Merged DEF WritesHit, request_to_dcache, mem_we
  <2>2. /\ cache_mem[head.addr.index].valid
        /\ cache_mem[head.addr.index].tag = head.addr.tag
    BY <1>2, <2>1 DEF WritesHit, hit
  <2>3. cache_mem' = [cache_mem EXCEPT ![head.addr.index].data = MergedLine]
    BY <1>2, <2>1 DEF CacheClock
  <2>4. cache_mem' \in [Index -> CacheLine]
    BY <1>1, <2>1, <2>3 DEF CacheLine
  <2>5. \A i \in Index :
          /\ cache_mem'[i].valid = cache_mem[i].valid
          /\ cache_mem'[i].tag = cache_mem[i].tag
          /\ cache_mem'[i].data = IF i = head.addr.index THEN MergedLine ELSE cache_mem[i].data
    BY <1>1, <2>1, <2>3 DEF CacheLine
  <2> QED
    BY <1>2, <2>1, <2>2, <2>4, <2>5
<1>3. CASE state = "LOAD_LINE"
  <2> DEFINE new == [valid |-> TRUE, tag |-> dcache_addr.tag, data |-> data_pipe[LAT - 1]]
  <2>1. ~WritesHit /\ dcache_addr.index \in Index /\ dcache_addr.tag \in Tags
    BY <1>3, Port DEF WritesHit, TypeOK
  <2>2. new \in CacheLine
    BY <2>1, Basics DEF CacheLine, TypeOK
  <2>3. cache_mem' = [cache_mem EXCEPT ![dcache_addr.index] = new]
    BY <1>3, <2>1 DEF CacheClock
  <2> HIDE DEF new
  <2>4. /\ cache_mem' \in [Index -> CacheLine]
        /\ \A i \in Index : cache_mem'[i] = IF i = dcache_addr.index THEN new ELSE cache_mem[i]
    BY <1>1, <2>1, <2>2, <2>3
  <2> QED
    BY <1>3, <2>1, <2>4 DEF new
<1>4. CASE ~WritesHit /\ state # "LOAD_LINE"
  BY <1>1, <1>4 DEF CacheClock
<1> QED
  BY <1>2, <1>3, <1>4

----------------------------------------------------------------------------
(* The inductive invariant. *)

Writes(i, l) == req_pipe[i].valid /\ req_pipe[i].we /\ req_pipe[i].line = l
Empty(i) == ~req_pipe[i].valid /\ ~rsp_valid_pipe[i]

(* A miss that has asked for its line: its read is the only request under  *)
(* way, or its answer is and has left memory's line in the stages behind   *)
(* it ...                                                                  *)
ReadUnderWay(i) ==
  /\ req_pipe[i].valid /\ ~req_pipe[i].we /\ req_pipe[i].line = asked
  /\ \A j \in Stage : ~rsp_valid_pipe[j] /\ (j # i => ~req_pipe[j].valid)
AnswerUnderWay(i) ==
  /\ rsp_valid_pipe[i]
  /\ \A j \in Stage : /\ ~req_pipe[j].valid /\ (j # i => ~rsp_valid_pipe[j])
                      /\ j <= i => data_pipe[j] = mem[asked]
MissAsked ==
  (state = "MISS" /\ asked # None) =>
    \E i \in Stage : ReadUnderWay(i) \/ AnswerUnderWay(i)

(* ... and when it fills, nothing is under way and every stage of the data *)
(* pipe holds that line.                                                   *)
FillAsked ==
  (state = "LOAD_LINE" /\ asked # None) =>
    \A j \in Stage : Empty(j) /\ data_pipe[j] = mem[asked]

(* What a copy of line l may hold: what the accepted stores left there and,*)
(* at the address of the store at the port, also what that store writes.   *)
AddrOf(l, w) == [tag |-> l[1], index |-> l[2], word |-> w]
Fits(l, data, stored, h) ==
  \A w \in Words :
    \/ data[w] = stored[AddrOf(l, w)]
    \/ h # None /\ h.addr = AddrOf(l, w) /\ data[w] = h.data
Current(l, data) == Fits(l, data, arch, head)

(* Every valid line of the cache is current, and so is what memory will    *)
(* hold of a line when the writes under way have reached it: the youngest  *)
(* of them, or memory itself if there is none.                             *)
CacheCurrent ==
  \A i \in Index : cache_mem[i].valid => Current(<< cache_mem[i].tag, i >>, cache_mem[i].data)
WritesCurrent ==
  \A l \in Lines, i \in Stage :
    (Writes(i, l) /\ \A j \in Stage : j < i => ~Writes(j, l)) => Current(l, req_pipe[i].data)
MemoryCurrent ==
  \A l \in Lines : (\A i \in Stage : ~Writes(i, l)) => Current(l, mem[l])

IInv == /\ MissAsked /\ FillAsked
        /\ clean => CacheCurrent /\ WritesCurrent /\ MemoryCurrent

LEMMA TypeStep ==
  ASSUME TypeOK, Clock
  PROVE  TypeOK'
<1>0. CacheClock /\ WrapperClock /\ Requesters /\ History
  BY DEF Clock
<1>1. state' \in {"IDLE", "MISS", "LOAD_LINE"}
  BY <1>0 DEF CacheClock, next_state
<1>2. (state # "IDLE" => request_to_dcache)'
  <2> SUFFICES ASSUME state' # "IDLE"
               PROVE  request_to_dcache'
    OBVIOUS
  <2>1. request_to_dcache
    BY <1>0 DEF CacheClock, next_state, TypeOK
  <2>2. ~LoadDone /\ ~StoreDone
    <3>1. CASE state # "IDLE"
      BY <1>0, <3>1, DoneFacts
    <3>2. CASE state = "IDLE"
      <4>1. ~hit
        BY <1>0, <3>2 DEF CacheClock, next_state
      <4> QED
        BY <2>1, <4>1 DEF LoadDone, StoreDone, ready_o
    <3> QED
      BY <3>1, <3>2
  <2>3. (head # None => head' = head) /\ (load # None => load' \in Load)
    BY <1>0, <2>2, DoneFacts
  <2> QED
    BY <2>1, <2>3, NoneAssumption DEF request_to_dcache
<1>3. cache_mem' \in [Index -> CacheLine]
  BY <1>0, CacheStep
<1>4. /\ req_pipe' \in [Stage -> Request] /\ rsp_valid_pipe' \in [Stage -> BOOLEAN]
      /\ data_pipe' \in [Stage -> Line] /\ mem' \in [Lines -> Line]
  BY <1>0, PipeStep
<1>5. load' \in Load \cup {None} /\ head' \in Store \cup {None}
  BY <1>0, DoneFacts
<1>6. arch' \in [Addr -> Data]
  <2>1. StoreDone => head.addr \in Addr /\ head.data \in Data
    BY Port DEF StoreDone, mem_we
  <2>2. arch' = IF StoreDone THEN [arch EXCEPT ![head.addr] = head.data] ELSE arch
    BY <1>0 DEF History
  <2> QED
    BY <2>1, <2>2 DEF TypeOK
<1>7. asked' \in Lines \cup {None}
  <2>1. ReadsLine => LineOf(dcache_addr) \in Lines
    BY Port DEF ReadsLine, TypeOK
  <2> QED
    BY <1>0, <2>1 DEF History, TypeOK
<1>8. clean' \in BOOLEAN
  BY <1>0 DEF History, TypeOK
<1> QED
  BY <1>1, <1>2, <1>3, <1>4, <1>5, <1>6, <1>7, <1>8 DEF TypeOK

(* A miss, from its request to the fill. *)
LEMMA MissStep ==
  ASSUME TypeOK, MissAsked, FillAsked, Clock
  PROVE  MissAsked' /\ FillAsked'
<1>0. CacheClock /\ WrapperClock /\ History /\ state' = next_state
  BY DEF Clock, CacheClock
<1>1. /\ req_pipe \in [Stage -> Request] /\ rsp_valid_pipe \in [Stage -> BOOLEAN]
      /\ state \in {"IDLE", "MISS", "LOAD_LINE"}
  BY DEF TypeOK
<1>2. asked' = CASE ReadsLine -> LineOf(dcache_addr) [] state = "IDLE" -> None [] OTHER -> asked
  BY <1>0 DEF History
<1> DEFINE last == req_pipe[LAT - 1]
<1>3. /\ \A i \in Stage :
           /\ req_pipe'[i] = IF i = 0 THEN mem_request ELSE req_pipe[i - 1]
           /\ rsp_valid_pipe'[i] = IF i = 0 THEN last.valid ELSE rsp_valid_pipe[i - 1]
           /\ i # 0 => data_pipe'[i] = data_pipe[i - 1]
      /\ last.valid /\ ~last.we => data_pipe'[0] = mem[last.line]
      /\ ~(last.valid /\ ~last.we) => data_pipe'[0] = data_pipe[0]
      /\ mem' = IF last.valid /\ last.we THEN [mem EXCEPT ![last.line] = last.data] ELSE mem
  BY <1>0, PipeStep
<1> SUFFICES ASSUME state' # "IDLE", asked' # None
             PROVE  /\ state' = "MISS" => (\E i \in Stage : ReadUnderWay(i) \/ AnswerUnderWay(i))'
                    /\ state' = "LOAD_LINE" =>
                         \A j \in Stage : Empty(j)' /\ data_pipe'[j] = mem'[asked']
  BY DEF MissAsked, FillAsked
<1>4. state = "MISS"
  <2>1. state # "IDLE"
    <3>1. state = "IDLE" => ~ReadsLine
      BY DEF ReadsLine
    <3> QED
      BY <1>2, <3>1
  <2>2. state # "LOAD_LINE"
    BY <1>0 DEF next_state
  <2> QED
    BY <1>1, <2>1, <2>2
<1>5. /\ ~WritesHit
      /\ state' = IF rsp_valid_pipe[LAT - 1] THEN "LOAD_LINE" ELSE "MISS"
  BY <1>0, <1>4 DEF WritesHit, next_state, mem_rsp_valid
(* The read is sent: the wrapper was empty.                                *)
<1>6. CASE ReadsLine
  <2>1. \A i \in Stage : ~req_pipe[i].valid /\ ~rsp_valid_pipe[i]
    BY <1>6 DEF ReadsLine, mem_req_ready
  <2>2. state' = "MISS" /\ asked' = LineOf(dcache_addr)
    BY <1>2, <1>5, <1>6, <2>1, Basics
  <2>3. mem_request.valid /\ ~mem_request.we /\ mem_request.line = asked'
    BY <1>6, <2>2, RequestFacts
  <2>4. ReadUnderWay(0)'
    BY <1>3, <2>1, <2>3, Basics DEF ReadUnderWay
  <2> QED
    BY <2>2, <2>4, Basics
<1>7. CASE ~ReadsLine
  <2>1. asked' = asked /\ asked # None
    BY <1>2, <1>4, <1>7
  <2>2. ~mem_request.valid
    BY <1>5, <1>7, RequestFacts
  <2>3. PICK i \in Stage : ReadUnderWay(i) \/ AnswerUnderWay(i)
    BY <1>4, <2>1 DEF MissAsked
  <2>4. i # LAT - 1 => i + 1 \in Stage /\ i + 1 # 0 /\ (i + 1) - 1 = i
    BY Basics DEF Stage
  <2>5. CASE ReadUnderWay(i)
    <3>0. /\ req_pipe[i].valid /\ ~req_pipe[i].we /\ req_pipe[i].line = asked
          /\ \A j \in Stage : ~rsp_valid_pipe[j] /\ (j # i => ~req_pipe[j].valid)
      BY <2>5 DEF ReadUnderWay
    <3>1. mem' = mem /\ state' = "MISS"
      BY <1>3, <1>5, <3>0, Basics
    <3>2. CASE i # LAT - 1
      <4>1. ReadUnderWay(i + 1)'
        <5> SUFFICES /\ req_pipe'[i + 1].valid /\ ~req_pipe'[i + 1].we
                     /\ req_pipe'[i + 1].line = asked
                     /\ \A j \in Stage : ~rsp_valid_pipe'[j] /\ (j # i + 1 => ~req_pipe'[j].valid)
          BY <2>1 DEF ReadUnderWay
        <5>1. req_pipe'[i + 1] = req_pipe[i]
          BY <1>3, <2>4, <3>2
        <5>2. ASSUME NEW j \in Stage
              PROVE  ~rsp_valid_pipe'[j] /\ (j # i + 1 => ~req_pipe'[j].valid)
          <6>1. j # i + 1 => j - 1 # i
            BY DEF Stage
          <6> QED
            BY <1>3, <2>2, <3>0, <3>2, <6>1, Basics
        <5> QED
          BY <3>0, <5>1, <5>2
      <4> QED
        BY <2>4, <3>1, <3>2, <4>1
    <3>3. CASE i = LAT - 1
      <4>1. last.valid /\ ~last.we /\ last.line = asked
        BY <3>0, <3>3
      <4>2. data_pipe'[0] = mem'[asked'] /\ rsp_valid_pipe'[0]
        BY <1>3, <2>1, <3>1, <4>1, Basics
      <4>3. \A j \in Stage : ~req_pipe'[j].valid /\ (j # 0 => ~rsp_valid_pipe'[j])
        BY <1>3, <2>2, <3>0, <3>3, Basics
      <4>4. \A j \in Stage : j <= 0 => j = 0
        BY DEF Stage
      <4>5. AnswerUnderWay(0)'
        BY <4>2, <4>3, <4>4 DEF AnswerUnderWay
      <4> QED
        BY <3>1, <4>5, Basics
    <3> QED
      BY <3>2, <3>3
  <2>6. CASE AnswerUnderWay(i)
    <3>0. /\ rsp_valid_pipe[i]
          /\ \A j \in Stage : /\ ~req_pipe[j].valid /\ (j # i => ~rsp_valid_pipe[j])
                              /\ j <= i => data_pipe[j] = mem[asked]
      BY <2>6 DEF AnswerUnderWay
    <3>1. mem' = mem /\ data_pipe'[0] = data_pipe[0] /\ ~last.valid
      BY <1>3, <3>0, Basics
    <3>2. \A j \in Stage : j - 1 <= i => data_pipe'[j] = mem'[asked']
      <4>1. 0 <= i
        BY DEF Stage
      <4> QED
        BY <1>3, <2>1, <3>0, <3>1, <4>1, Basics
    <3>3. \A j \in Stage : ~req_pipe'[j].valid
      BY <1>3, <2>2, <3>0, Basics
    <3>4. CASE i # LAT - 1
      <4>1. state' = "MISS"
        BY <1>5, <3>0, <3>4, Basics
      <4>2. AnswerUnderWay(i + 1)'
        <5>1. rsp_valid_pipe'[i + 1]
          BY <1>3, <2>4, <3>0, <3>4
        <5>2. ASSUME NEW j \in Stage
              PROVE  /\ j # i + 1 => ~rsp_valid_pipe'[j]
                     /\ j <= i + 1 => data_pipe'[j] = mem'[asked']
          <6>1. (j # i + 1 => j - 1 # i) /\ (j <= i + 1 => j - 1 <= i)
            BY DEF Stage
          <6> QED
            BY <1>3, <3>0, <3>1, <3>2, <6>1, Basics
        <5> QED
          BY <3>3, <5>1, <5>2 DEF AnswerUnderWay
      <4> QED
        BY <2>4, <3>4, <4>1, <4>2
    <3>5. CASE i = LAT - 1
      <4>1. state' = "LOAD_LINE"
        BY <1>5, <3>0, <3>5
      <4>2. \A j \in Stage : ~rsp_valid_pipe'[j]
        BY <1>3, <3>0, <3>1, <3>5, Basics
      <4>3. \A j \in Stage : j - 1 <= i
        BY <3>5 DEF Stage
      <4> QED
        BY <3>2, <3>3, <4>1, <4>2, <4>3 DEF Empty
    <3> QED
      BY <3>4, <3>5
  <2> QED
    BY <2>3, <2>5, <2>6
<1> QED
  BY <1>6, <1>7

LEMMA AddrFacts ==
  /\ \A l \in Lines, w \in Words : AddrOf(l, w) \in Addr
  /\ \A a \in Addr : /\ LineOf(a) \in Lines /\ a.word \in Words
                      /\ AddrOf(LineOf(a), a.word) = a
  /\ \A l \in Lines, w \in Words : LineOf(AddrOf(l, w)) = l
<1>1. \A l \in Lines : l[1] \in Tags /\ l[2] \in Index /\ l = << l[1], l[2] >>
  BY DEF Lines
<1>2. \A l \in Lines, w \in Words :
        /\ AddrOf(l, w) \in Addr
        /\ AddrOf(l, w).tag = l[1] /\ AddrOf(l, w).index = l[2]
  BY <1>1 DEF AddrOf, Addr
<1>3. \A l \in Lines, w \in Words : LineOf(AddrOf(l, w)) = l
  BY <1>1, <1>2 DEF LineOf
<1>4. \A a \in Addr : LineOf(a) \in Lines /\ a.word \in Words
  BY DEF Addr, LineOf, Lines
<1>5. \A a \in Addr : AddrOf(LineOf(a), a.word) = a
  BY DEF Addr, LineOf, AddrOf
<1> QED
  BY <1>2, <1>3, <1>4, <1>5

(* A store is accepted while it is written to the line that hits. *)
LEMMA StoreWrites ==
  ASSUME TypeOK, StoreDone
  PROVE  WritesHit /\ head \in Store /\ head.addr \in Addr /\ LineOf(head.addr) \in Lines
<1>1. WritesHit
  BY DEF StoreDone, ready_o, WritesHit, request_to_dcache, mem_we
<1> QED
  BY <1>1, Port, AddrFacts DEF WritesHit

(* What was current stays so, except that the line of an accepted store    *)
(* must have that store's word.                                            *)
LEMMA CurrentStep ==
  ASSUME TypeOK, Requesters, History
  PROVE  \A l \in Lines, data \in Line :
           /\ Fits(l, data, arch, head)
           /\ StoreDone => l # LineOf(head.addr) \/ data[head.addr.word] = head.data
           => Fits(l, data, arch', head')
<1> SUFFICES ASSUME NEW l \in Lines, NEW data \in Line, NEW w \in Words,
                    \/ data[w] = arch[AddrOf(l, w)]
                    \/ head # None /\ head.addr = AddrOf(l, w) /\ data[w] = head.data,
                    StoreDone => l # LineOf(head.addr) \/ data[head.addr.word] = head.data
             PROVE  \/ data[w] = arch'[AddrOf(l, w)]
                    \/ head' # None /\ head'.addr = AddrOf(l, w) /\ data[w] = head'.data
  BY DEF Fits
<1> DEFINE a == AddrOf(l, w)
<1>1. a \in Addr /\ LineOf(a) = l
  BY AddrFacts
<1>2. a.word = w
  BY DEF AddrOf
<1>3. arch \in [Addr -> Data]
  BY DEF TypeOK
<1>4. CASE ~StoreDone
  <2>1. arch' = arch
    BY <1>4 DEF History
  <2>2. head # None => head' = head
    BY <1>4, DoneFacts
  <2> QED
    BY <2>1, <2>2
<1>5. CASE StoreDone
  <2>1. head.addr \in Addr
    BY <1>5, StoreWrites
  <2>2. arch' = [arch EXCEPT ![head.addr] = head.data]
    BY <1>5 DEF History
  <2>3. arch'[a] = IF a = head.addr THEN head.data ELSE arch[a]
    BY <1>1, <1>3, <2>1, <2>2
  <2> HIDE DEF a
  <2>4. CASE a = head.addr
    BY <1>1, <1>2, <1>5, <2>3, <2>4 DEF a
  <2>5. CASE a # head.addr
    BY <2>3, <2>5 DEF a
  <2> QED
    BY <2>4, <2>5
<1> QED
  BY <1>4, <1>5

(* A store's line, merged into a current line that hits, is current before *)
(* and after the store is accepted.                                        *)
LEMMA MergedCurrent ==
  ASSUME TypeOK, Requesters, History, CacheCurrent, WritesHit
  PROVE  /\ MergedLine \in Line
         /\ Fits(LineOf(head.addr), MergedLine, arch', head')
<1> DEFINE i == head.addr.index
           l == LineOf(head.addr)
<1>1. /\ mem_we /\ dcache_addr = head.addr /\ head.addr \in Addr
      /\ i \in Index /\ head # None /\ l \in Lines
  BY Port, AddrFacts DEF WritesHit, mem_we, request_to_dcache
<1>2. /\ MergedLine \in Line
      /\ \A w \in Words : MergedLine[w] =
           IF w = head.addr.word THEN head.data ELSE cache_mem[i].data[w]
  BY <1>1, Merged
<1>3. l = << cache_mem[i].tag, i >> /\ cache_mem[i].valid
  BY <1>1 DEF WritesHit, hit, LineOf
<1>4. Fits(l, cache_mem[i].data, arch, head)
  BY <1>1, <1>3 DEF CacheCurrent, Current
<1>5. head.addr = AddrOf(l, head.addr.word) /\ head.addr.word \in Words
  BY <1>1, AddrFacts
<1>6. \A w \in Words : AddrOf(l, w).word = w
  BY DEF AddrOf
<1> HIDE DEF l, i
<1>7. Fits(l, MergedLine, arch, head)
  BY <1>1, <1>2, <1>4, <1>5, <1>6 DEF Fits
<1>8. MergedLine[head.addr.word] = head.data
  BY <1>2, <1>5
<1> QED
  BY <1>1, <1>2, <1>7, <1>8, CurrentStep DEF l

(* The cache stays current, unless a fill takes a line it did not ask for. *)
LEMMA CacheCurrentStep ==
  ASSUME TypeOK, FillAsked, CacheCurrent, MemoryCurrent, Clock, FillsAsked
  PROVE  CacheCurrent'
<1>0. CacheClock /\ Requesters /\ History
  BY DEF Clock
<1> SUFFICES ASSUME NEW i \in Index, cache_mem'[i].valid
             PROVE  Fits(<< cache_mem'[i].tag, i >>, cache_mem'[i].data, arch', head')
  BY DEF CacheCurrent, Current
<1>1. cache_mem[i] \in CacheLine
  BY DEF TypeOK
<1> DEFINE l == << cache_mem[i].tag, i >>
<1>2. l \in Lines /\ cache_mem[i].data \in Line
  BY <1>1 DEF CacheLine, Lines
<1>3. cache_mem[i].valid => Fits(l, cache_mem[i].data, arch, head)
  BY DEF CacheCurrent, Current
<1> HIDE DEF l
<1>4. cache_mem[i].valid /\ (StoreDone => l # LineOf(head.addr))
        => Fits(l, cache_mem[i].data, arch', head')
  BY <1>0, <1>2, <1>3, CurrentStep
<1>5. CASE WritesHit
  <2>1. /\ cache_mem'[i].valid = cache_mem[i].valid
        /\ cache_mem'[i].tag = cache_mem[i].tag
        /\ cache_mem'[i].data = IF i = head.addr.index THEN MergedLine ELSE cache_mem[i].data
        /\ cache_mem[head.addr.index].tag = head.addr.tag
    BY <1>0, <1>5, CacheStep
  <2>2. CASE i = head.addr.index
    <3>1. << cache_mem'[i].tag, i >> = LineOf(head.addr)
      BY <2>1, <2>2 DEF LineOf
    <3>2. cache_mem'[i].data = MergedLine
      BY <2>1, <2>2
    <3> QED
      BY <1>0, <1>5, <3>1, <3>2, MergedCurrent
  <2>3. CASE i # head.addr.index
    <3>1. l # LineOf(head.addr)
      BY <2>3 DEF l, LineOf
    <3> QED
      BY <1>4, <2>1, <2>3, <3>1 DEF l
  <2> QED
    BY <2>2, <2>3
<1>6. CASE state = "LOAD_LINE"
  <2>1. dcache_addr.index \in Index
        /\ cache_mem'[i] = IF i = dcache_addr.index
                             THEN [valid |-> TRUE, tag |-> dcache_addr.tag,
                                   data |-> data_pipe[LAT - 1]]
                             ELSE cache_mem[i]
    BY <1>0, <1>6, CacheStep
  <2>2. ~StoreDone
    BY <1>0, <1>6, DoneFacts
  <2>3. CASE i = dcache_addr.index
    <3>1. LineOf(dcache_addr) \in Lines /\ asked = LineOf(dcache_addr)
      BY <1>6, Port DEF TypeOK, FillsAsked
    <3>2. \A j \in Stage : Empty(j) /\ data_pipe[j] = mem[asked]
      BY <1>6, <3>1, NoneAssumption DEF FillAsked
    <3>3. Fits(asked, mem[asked], arch, head) /\ mem[asked] \in Line
      BY <3>1, <3>2 DEF MemoryCurrent, Writes, Empty, Current, TypeOK
    <3>4. Fits(asked, mem[asked], arch', head')
      BY <1>0, <2>2, <3>1, <3>3, CurrentStep
    <3>5. cache_mem'[i].data = mem[asked]
      BY <2>1, <2>3, <3>2, Basics
    <3>6. << cache_mem'[i].tag, i >> = asked
      BY <2>1, <2>3, <3>1 DEF LineOf
    <3> QED
      BY <3>4, <3>5, <3>6
  <2>4. CASE i # dcache_addr.index
    BY <1>4, <2>1, <2>2, <2>4 DEF l
  <2> QED
    BY <2>3, <2>4
<1>7. CASE ~WritesHit /\ state # "LOAD_LINE"
  <2>1. ~StoreDone
    BY <1>7, StoreWrites
  <2>2. cache_mem' = cache_mem
    BY <1>0, <1>7, CacheStep
  <2> QED
    BY <1>4, <2>1, <2>2 DEF l
<1> QED
  BY <1>5, <1>6, <1>7

(* So does what memory will hold of every line. *)
LEMMA MemoryCurrentStep ==
  ASSUME TypeOK, CacheCurrent, WritesCurrent, MemoryCurrent, Clock
  PROVE  WritesCurrent' /\ MemoryCurrent'
<1>0. WrapperClock /\ Requesters /\ History
  BY DEF Clock
<1> DEFINE last == req_pipe[LAT - 1]
<1>1. /\ \A i \in Stage : req_pipe'[i] = IF i = 0 THEN mem_request ELSE req_pipe[i - 1]
      /\ mem' = IF last.valid /\ last.we THEN [mem EXCEPT ![last.line] = last.data] ELSE mem
  BY <1>0, PipeStep
<1>2. \A j \in Stage : j # LAT - 1 =>
        j + 1 \in Stage /\ j + 1 # 0 /\ req_pipe'[j + 1] = req_pipe[j]
  <2>1. \A j \in Stage : j # LAT - 1 => j + 1 \in Stage /\ j + 1 # 0 /\ (j + 1) - 1 = j
    BY Basics DEF Stage
  <2> QED
    BY <1>1, <2>1
<1>3. \A i \in Stage : /\ req_pipe[i].data \in Line /\ req_pipe[i].line \in Lines
  BY DEF TypeOK, Request
<1>4. StoreDone => /\ req_pipe'[0].valid /\ req_pipe'[0].we
                   /\ req_pipe'[0].line = LineOf(head.addr)
  BY <1>1, StoreWrites, RequestFacts, Basics
<1>5. WritesCurrent'
  <2> SUFFICES ASSUME NEW l \in Lines, NEW i \in Stage, Writes(i, l)',
                      \A j \in Stage : j < i => ~Writes(j, l)'
               PROVE  Fits(l, req_pipe'[i].data, arch', head')
    BY DEF WritesCurrent, Current
  <2>1. CASE i = 0
    <3>1. mem_request.valid /\ mem_request.we /\ mem_request.line = l
      BY <1>1, <2>1 DEF Writes
    <3>2. WritesHit
      BY <3>1, RequestFacts
    <3> QED
      BY <1>0, <1>1, <2>1, <3>1, <3>2, RequestFacts, MergedCurrent
  <2>2. CASE i # 0
    <3>1. i - 1 \in Stage /\ req_pipe'[i] = req_pipe[i - 1] /\ 0 < i
      BY <1>1, <2>2, Basics DEF Stage
    <3>2. Writes(i - 1, l)
      BY <3>1 DEF Writes
    <3>3. ASSUME NEW j \in Stage, j < i - 1
          PROVE  ~Writes(j, l)
      <4>1. j # LAT - 1 /\ j + 1 < i
        BY <3>3 DEF Stage
      <4> QED
        BY <1>2, <4>1 DEF Writes
    <3>4. Fits(l, req_pipe[i - 1].data, arch, head)
      BY <3>1, <3>2, <3>3 DEF WritesCurrent, Current
    <3>5. StoreDone => l # LineOf(head.addr)
      BY <1>4, <3>1, Basics DEF Writes
    <3> QED
      BY <1>0, <1>3, <3>1, <3>4, <3>5, CurrentStep
  <2> QED
    BY <2>1, <2>2
<1>6. MemoryCurrent'
  <2> SUFFICES ASSUME NEW l \in Lines, \A i \in Stage : ~Writes(i, l)'
               PROVE  Fits(l, mem'[l], arch', head')
    BY DEF MemoryCurrent, Current
  <2>1. \A j \in Stage : j # LAT - 1 => ~Writes(j, l)
    BY <1>2 DEF Writes
  <2>2. StoreDone => l # LineOf(head.addr)
    BY <1>4, Basics DEF Writes
  <2>3. mem \in [Lines -> Line] /\ last.line \in Lines
    BY <1>3, Basics DEF TypeOK
  <2>4. CASE Writes(LAT - 1, l)
    <3>1. \A j \in Stage : j < LAT - 1 => ~Writes(j, l)
      BY <2>1, Basics
    <3>2. Fits(l, last.data, arch, head)
      BY <2>4, <3>1, Basics DEF WritesCurrent, Current
    <3>3. mem'[l] = last.data
      BY <1>1, <2>3, <2>4 DEF Writes
    <3> QED
      BY <1>0, <1>3, <2>2, <3>2, <3>3, CurrentStep, Basics
  <2>5. CASE ~Writes(LAT - 1, l)
    <3>1. Fits(l, mem[l], arch, head)
      BY <2>1, <2>5 DEF MemoryCurrent, Current
    <3>2. mem'[l] = mem[l]
      BY <1>1, <2>3, <2>5 DEF Writes
    <3> QED
      BY <1>0, <2>2, <2>3, <3>1, <3>2, CurrentStep
  <2> QED
    BY <2>4, <2>5
<1> QED
  BY <1>5, <1>6
----------------------------------------------------------------------------

LEMMA InitHolds ==
  Init => TypeOK /\ IInv
<1> SUFFICES ASSUME Init
             PROVE  TypeOK /\ IInv
  OBVIOUS
<1>1. arch \in [Addr -> Data]
  <2>1. arch = [a \in Addr |-> mem[LineOf(a)][a.word]] /\ mem \in [Lines -> Line]
    BY DEF Init
  <2>2. \A a \in Addr : mem[LineOf(a)][a.word] \in Data
    BY <2>1, AddrFacts DEF Line
  <2> QED
    BY <2>1, <2>2
<1>2. cache_mem \in [Index -> CacheLine] /\ \A i \in Index : ~cache_mem[i].valid
  <2>1. (CHOOSE t \in Tags : TRUE) \in Tags
    BY TagsAssumption
  <2> QED
    BY <2>1, Basics DEF Init, CacheLine
<1>3. /\ req_pipe \in [Stage -> Request] /\ rsp_valid_pipe \in [Stage -> BOOLEAN]
      /\ data_pipe \in [Stage -> Line]
      /\ \A i \in Stage : ~req_pipe[i].valid
  BY Basics DEF Init
<1>4. TypeOK
  BY <1>1, <1>2, <1>3 DEF Init, TypeOK
<1>5. MissAsked /\ FillAsked
  BY DEF Init, MissAsked, FillAsked
<1>6. CacheCurrent /\ WritesCurrent
  BY <1>2, <1>3 DEF CacheCurrent, WritesCurrent, Writes
<1>7. MemoryCurrent
  <2>1. ASSUME NEW l \in Lines, NEW w \in Words
        PROVE  mem[l][w] = arch[AddrOf(l, w)]
    <3>1. AddrOf(l, w) \in Addr /\ LineOf(AddrOf(l, w)) = l /\ AddrOf(l, w).word = w
      BY AddrFacts DEF AddrOf
    <3> QED
      BY <3>1 DEF Init
  <2> QED
    BY <2>1 DEF MemoryCurrent, Current, Fits
<1> QED
  BY <1>4, <1>5, <1>6, <1>7 DEF IInv

LEMMA InvariantStep ==
  ASSUME TypeOK, IInv, [Next]_vars
  PROVE  TypeOK' /\ IInv'
<1>1. CASE Clock
  <2>1. TypeOK'
    BY <1>1, TypeStep
  <2>2. MissAsked' /\ FillAsked'
    BY <1>1, MissStep DEF IInv
  <2>3. ASSUME clean'
        PROVE  CacheCurrent' /\ WritesCurrent' /\ MemoryCurrent'
    <3>1. clean /\ FillsAsked
      BY <1>1, <2>3 DEF Clock, History
    <3>2. CacheCurrent /\ WritesCurrent /\ MemoryCurrent /\ FillAsked
      BY <3>1 DEF IInv
    <3>3. CacheCurrent'
      BY <1>1, <3>1, <3>2, CacheCurrentStep
    <3>4. WritesCurrent' /\ MemoryCurrent'
      BY <1>1, <3>2, MemoryCurrentStep
    <3> QED
      BY <3>3, <3>4
  <2> QED
    BY <2>1, <2>2, <2>3 DEF IInv
<1>2. CASE UNCHANGED vars
  <2>1. TypeOK'
    BY <1>2 DEF vars, cache_vars, wrapper_vars, TypeOK, request_to_dcache
  <2>2. MissAsked' /\ FillAsked'
    BY <1>2 DEF vars, cache_vars, wrapper_vars, IInv, MissAsked, FillAsked,
                ReadUnderWay, AnswerUnderWay, Empty
  <2>3. clean' => CacheCurrent' /\ WritesCurrent' /\ MemoryCurrent'
    BY <1>2 DEF vars, cache_vars, wrapper_vars, IInv, CacheCurrent, WritesCurrent,
                MemoryCurrent, Writes, Current, Fits
  <2> QED
    BY <2>1, <2>2, <2>3 DEF IInv
<1> QED
  BY <1>1, <1>2 DEF Next

LEMMA InvariantHolds ==
  Spec => [](TypeOK /\ IInv)
<1>1. TypeOK /\ IInv /\ [Next]_vars => TypeOK' /\ IInv'
  BY InvariantStep
<1> QED
  BY InitHolds, <1>1, PTL DEF Spec

----------------------------------------------------------------------------

(* The registers of dcache.sv and dmem_wrapper.sv stay in their ranges, and*)
(* the cache leaves its idle state only with a request at the port, which  *)
(* stays there until the state is idle again.                              *)
THEOREM TypeCorrect == Spec => []TypeOK
BY InvariantHolds, PTL

(* dcache.sv fills a line with whatever dmem_wrapper.sv's data pipe shows  *)
(* one cycle after an answer that carries no address.  When the line asked *)
(* for is still the one at the port, that is memory's line.                *)
THEOREM FillCorrect == Spec => []FilledFromMemory
<1>1. TypeOK /\ IInv => FilledFromMemory
  <2> SUFFICES ASSUME TypeOK, IInv, state = "LOAD_LINE", FillsAsked
               PROVE  data_pipe[LAT - 1] = mem[LineOf(dcache_addr)]
    BY DEF FilledFromMemory
  <2>1. asked = LineOf(dcache_addr) /\ LineOf(dcache_addr) \in Lines
    BY Port DEF FillsAsked, TypeOK
  <2> QED
    BY <2>1, NoneAssumption, Basics DEF IInv, FillAsked
<1> QED
  BY <1>1, InvariantHolds, PTL

(* A load that dcache.sv answers gets what the last accepted store to its  *)
(* address wrote, until a miss is filled for a line it did not ask for: by *)
(* the answer to a write that a later miss of any line takes for its own   *)
(* (dcache.sv:83), or under another address at the port (mem.sv:59).       *)
THEOREM LoadCorrect == Spec => []LoadRightWhileClean
<1>1. TypeOK /\ IInv => LoadRightWhileClean
  <2> SUFFICES ASSUME TypeOK, IInv, clean, LoadDone, ~load.bypass
               PROVE  data_rd_o = arch[load.addr]
    BY DEF LoadRightWhileClean, LoadReturnsStored
  <2> DEFINE i == load.addr.index
             l == LineOf(load.addr)
             w == load.addr.word
  <2>1. head = None /\ load # None /\ dcache_addr = load.addr /\ hit
    BY DEF LoadDone, is_collision, mem_we, ready_o, request_to_dcache, dcache_addr
  <2>2. load.addr \in Addr
    BY <2>1 DEF TypeOK, Load
  <2>3. i \in Index /\ w \in Words /\ AddrOf(l, w) = load.addr
    BY <2>1, <2>2, AddrFacts, Port DEF request_to_dcache
  <2>4. cache_mem[i].valid /\ << cache_mem[i].tag, i >> = l
    BY <2>1 DEF hit, LineOf
  <2> HIDE DEF i, l, w
  <2>5. Fits(l, cache_mem[i].data, arch, head)
    BY <2>3, <2>4 DEF IInv, CacheCurrent, Current
  <2>6. cache_mem[i].data[w] = arch[AddrOf(l, w)]
    BY <2>1, <2>3, <2>5 DEF Fits
  <2> QED
    BY <2>1, <2>3, <2>6 DEF data_rd_o, i, w
<1> QED
  BY <1>1, InvariantHolds, PTL

(* dcache.sv writes through: with dmem_wrapper.sv idle and no store at the *)
(* port, memory holds what every accepted store wrote, until a miss is     *)
(* filled for a line it did not ask for.                                   *)
THEOREM WriteThroughCorrect == Spec => []MemoryCatchesUp
<1>1. TypeOK /\ IInv => MemoryCatchesUp
  <2> SUFFICES ASSUME TypeOK, IInv, clean, mem_req_ready, head = None, NEW a \in Addr
               PROVE  mem[LineOf(a)][a.word] = arch[a]
    BY DEF MemoryCatchesUp
  <2>1. LineOf(a) \in Lines /\ a.word \in Words /\ AddrOf(LineOf(a), a.word) = a
    BY AddrFacts
  <2>2. Fits(LineOf(a), mem[LineOf(a)], arch, head)
    BY <2>1 DEF IInv, MemoryCurrent, mem_req_ready, Writes, Current
  <2> QED
    BY <2>1, <2>2 DEF Fits
<1> QED
  BY <1>1, InvariantHolds, PTL
=============================================================================
