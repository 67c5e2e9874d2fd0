------------------------------- MODULE VmProofs -------------------------------
(***************************************************************************)
(* Theorems about the virtual-memory environment, for every LFSR_BITS for  *)
(* which MAX_TEST_PAGES is the period of the LFSR, every page size and     *)
(* every set of values.                                                    *)
(***************************************************************************)
EXTENDS Vm, FiniteSetTheorems, WellFoundedInduction, TLAPS

Pte == [frame : {0} \cup Frames, a : BOOLEAN, d : BOOLEAN]
Page == [Words -> Values]
Accesses == [page : Pages, kind : {"fetch", "load", "store"}, word : Words, value : Values]

TypeOK ==
  /\ hwad \in BOOLEAN
  /\ node \in [Nodes -> [addr : {0} \cup Frames, next : Nodes \cup {Null}]]
  /\ freelist_head \in Nodes \cup {Null} /\ freelist_tail \in Nodes \cup {Null}
  /\ user_llpt \in [Pages -> Pte] /\ tlb \in [Pages -> Pte]
  /\ frame \in [Frames -> Page] /\ kernel \in [Pages -> Page] /\ view \in [Pages -> Page]
  /\ access \in Accesses \cup {Idle}
  /\ cause \in {"none", "fetch", "load", "store"}
  /\ evicting \in 0 .. MAX_TEST_PAGES
  /\ tohost \in {"running", "assert", "wtf", "result"}

(* The nodes are told apart by what they are nodes of.                     *)
LEMMA NodeFacts ==
  /\ \A i \in Index : Freelist(i) \in Nodes
  /\ \A p \in Pages : Mapping(p) \in Nodes
  /\ \A i, j \in Index : Freelist(i) = Freelist(j) => i = j
  /\ \A p, q \in Pages : Mapping(p) = Mapping(q) => p = q
  /\ \A i \in Index, p \in Pages : Freelist(i) # Mapping(p)
  /\ \A i \in Index : Freelist(i) # Null
BY DEF Nodes, Freelist, Mapping, Null

LEMMA Sizes ==
  /\ MAX_TEST_PAGES \in Nat /\ MAX_TEST_PAGES >= 2
  /\ 0 \in Index /\ MAX_TEST_PAGES - 1 \in Index
  /\ \A f \in Frames : f # 0
  /\ NoPte \in Pte /\ NoPte.frame = 0 /\ Idle \notin Accesses
BY LfsrAssumption DEF Index, Frames, NoPte, Pte, Idle, Accesses

(* memcmp finds no difference only between equal pages (string.c).         *)
LEMMA LeastElement ==
  ASSUME NEW S, S \subseteq Nat, S # {}
  PROVE  \E k \in S : \A j \in S : k <= j
<1>1. PICK k \in S : \A j \in S : ~(<<j, k>> \in OpToRel(<, Nat))
  BY WFMin, NatLessThanWellFounded
<1>2. \A j \in S : ~(j < k)
  BY <1>1 DEF OpToRel
<1> QED
  BY <1>2

LEMMA MemcmpDiffers ==
  ASSUME NEW a \in Page, NEW b \in Page
  PROVE  memcmp(a, b) <=> a # b
<1>1. a = b => ~memcmp(a, b)
  BY DEF memcmp
<1>2. ASSUME a # b
      PROVE  memcmp(a, b)
  <2> DEFINE D == {w \in Words : a[w] # b[w]}
  <2>1. D # {}
    BY <1>2 DEF Page
  <2>2. D \subseteq Nat
    BY PageAssumption
  <2>3. PICK w \in D : \A x \in D : w <= x
    <3> HIDE DEF D
    <3> QED
      BY <2>1, <2>2, LeastElement
  <2>4. \A x \in Words : x < w => x \notin D
    BY <2>2, <2>3, PageAssumption
  <2> QED
    BY <2>3, <2>4 DEF memcmp
<1> QED
  BY <1>1, <1>2

(* The pages that have a frame, and how many more may get one.             *)
Mapped == {p \in Pages : user_llpt[p].frame # 0}

LEMMA MappedCount ==
  /\ Cardinality(Mapped) \in 0 .. MAX_TEST_PAGES - 1
  /\ \A p \in Pages \ Mapped :
       /\ Cardinality(Mapped) < MAX_TEST_PAGES - 1
       /\ Cardinality(Mapped \cup {p}) = Cardinality(Mapped) + 1
<1>1. IsFiniteSet(Pages) /\ Cardinality(Pages) = MAX_TEST_PAGES - 1
  BY Sizes, FS_Interval DEF Pages
<1>2. Mapped \in SUBSET Pages
  BY DEF Mapped
<1>3. /\ IsFiniteSet(Mapped) /\ Cardinality(Mapped) \in Nat
      /\ Cardinality(Mapped) <= MAX_TEST_PAGES - 1
  BY <1>1, <1>2, FS_Subset, FS_CardinalityType
<1>4. ASSUME NEW p \in Pages \ Mapped
      PROVE  /\ Cardinality(Mapped) < MAX_TEST_PAGES - 1
             /\ Cardinality(Mapped \cup {p}) = Cardinality(Mapped) + 1
  <2>1. Cardinality(Mapped) # MAX_TEST_PAGES - 1
    BY <1>1, <1>2, <1>4, FS_Subset
  <2>2. Cardinality(Mapped \cup {p}) = Cardinality(Mapped) + 1
    BY <1>3, <1>4, FS_AddElement
  <2> QED
    BY <1>3, <2>1, <2>2, Sizes
<1> QED
  BY <1>3, <1>4, Sizes

----------------------------------------------------------------------------
(* The inductive invariant. *)

(* The free list, until eviction begins: the nodes of freelist_nodes, each *)
(* with a frame of its own, in order from the first that is not taken yet. *)
FreeFrames ==
  /\ \A i \in Index : node[Freelist(i)].addr \in Frames
  /\ \A i, j \in Index : node[Freelist(i)].addr = node[Freelist(j)].addr => i = j
FreeListOrder ==
  evicting = 0 =>
    /\ freelist_head = Freelist(Cardinality(Mapped))
    /\ \A i \in Index : node[Freelist(i)].next =
                          IF i = MAX_TEST_PAGES - 1 THEN Null ELSE Freelist(i + 1)

(* The frames of the pages are of nodes already taken, and different.      *)
FramesTaken ==
  /\ \A p \in Mapped : \E i \in 0 .. Cardinality(Mapped) - 1 :
       user_llpt[p].frame = node[Freelist(i)].addr
  /\ \A p, q \in Mapped : user_llpt[p].frame = user_llpt[q].frame => p = q

(* user_mapping and the page table agree, but for the pages evicted.       *)
MappingsAgree ==
  \A p \in Pages :
    /\ node[Mapping(p)].addr = IF p < evicting THEN 0 ELSE user_llpt[p].frame
    /\ user_llpt[p].frame = 0 => user_llpt[p] = NoPte

(* Where the contents of a page are.                                       *)
Contents ==
  \A p \in Pages :
    /\ p \in Mapped => frame[user_llpt[p].frame] = view[p]
    /\ p \notin Mapped \/ p < evicting \/ ~user_llpt[p].d => kernel[p] = view[p]

(* The TLB grants no more than the page table.                             *)
TlbFollows ==
  \A p \in Pages :
    tlb[p].frame # 0 => /\ tlb[p].frame = user_llpt[p].frame
                        /\ tlb[p].a => user_llpt[p].a
                        /\ tlb[p].d => user_llpt[p].d

(* A page is mapped without A only while the access that wanted it is      *)
(* still to be completed, and a fault is for a bit that is missing.        *)
AccessPending ==
  /\ \A p \in Mapped : ~user_llpt[p].a => access # Idle /\ access.page = p
  /\ cause # "none" => /\ access # Idle /\ cause = access.kind
                       /\ ~Allows(user_llpt[access.page], cause)

Phases ==
  /\ evicting # 0 => access = Idle /\ cause = "none"
  /\ tohost = "result" => evicting = MAX_TEST_PAGES

IInv == /\ FreeFrames /\ FreeListOrder /\ FramesTaken /\ MappingsAgree /\ Contents
        /\ TlbFollows /\ AccessPending /\ Phases /\ NoAssertFails

----------------------------------------------------------------------------
(* Types. *)

(* What a walk finds has a frame only if the page table's entry has it.    *)
LEMMA WalkFacts ==
  ASSUME NEW pte \in Pte, NEW kind, hwad \in BOOLEAN
  PROVE  /\ Walked(pte, kind) \in Pte
         /\ Walked(pte, kind).frame = pte.frame
         /\ pte.a => Walked(pte, kind).a
         /\ pte.d => Walked(pte, kind).d
         /\ hwad /\ pte.frame # 0 => Allows(Walked(pte, kind), kind)
         /\ ~hwad \/ pte.frame = 0 => Walked(pte, kind) = pte
BY DEF Walked, Pte, Allows

(* The variables after an access that the hardware completes.              *)
LEMMA CompleteFacts ==
  ASSUME TypeOK, NEW p \in Pages, NEW pte \in Pte, access # Idle, access.page = p,
         Allows(pte, access.kind), Complete(p, pte)
  PROVE  /\ access' = Idle /\ cause' = cause
         /\ tlb' = [tlb EXCEPT ![p] = pte] /\ tlb' \in [Pages -> Pte]
         /\ \/ /\ access.kind = "store" /\ pte.d /\ pte.frame \in Frames
               /\ frame' = [frame EXCEPT ![pte.frame][access.word] = access.value]
               /\ view' = [view EXCEPT ![p][access.word] = access.value]
            \/ frame' = frame /\ view' = view
         /\ frame' \in [Frames -> Page] /\ view' \in [Pages -> Page]
<1>1. /\ access.word \in Words /\ access.value \in Values
      /\ tlb \in [Pages -> Pte] /\ frame \in [Frames -> Page] /\ view \in [Pages -> Page]
  BY DEF TypeOK, Accesses
<1>2. pte.frame \in Frames
  BY DEF Allows, Pte
<1>3. access' = Idle /\ cause' = cause /\ tlb' = [tlb EXCEPT ![p] = pte]
  BY DEF Complete
<1>4. tlb' \in [Pages -> Pte]
  BY <1>1, <1>3
<1>5. CASE access.kind = "store"
  <2>1. /\ frame' = [frame EXCEPT ![pte.frame][access.word] = access.value]
        /\ view' = [view EXCEPT ![p][access.word] = access.value]
        /\ pte.d
    BY <1>5 DEF Complete, Allows
  <2>2. frame' \in [Frames -> Page] /\ view' \in [Pages -> Page]
    BY <1>1, <1>2, <2>1 DEF Page
  <2> QED
    BY <1>2, <1>3, <1>4, <1>5, <2>1, <2>2
<1>6. CASE access.kind # "store"
  BY <1>1, <1>3, <1>4, <1>6 DEF Complete
<1> QED
  BY <1>5, <1>6

(* The three outcomes of an access: through the TLB, after a walk, a trap. *)
LEMMA AccessCases ==
  ASSUME TypeOK, Access
  PROVE  LET p == access.page
             walked == Walked(user_llpt[p], access.kind)
         IN  /\ p \in Pages /\ access # Idle /\ cause = "none" /\ evicting = 0
             /\ access.kind \in {"fetch", "load", "store"}
             /\ UNCHANGED << hwad, node, FreeList, kernel, evicting, tohost >>
             /\ \/ /\ Allows(tlb[p], access.kind) /\ Complete(p, tlb[p])
                   /\ UNCHANGED user_llpt
                \/ /\ Allows(walked, access.kind) /\ Complete(p, walked)
                   /\ user_llpt' = [user_llpt EXCEPT ![p] = walked]
                \/ /\ ~Allows(walked, access.kind) /\ cause' = access.kind
                   /\ UNCHANGED << access, frame, view, tlb, user_llpt >>
<1>1. access \in Accesses /\ access # Idle /\ cause = "none" /\ evicting = 0
  BY DEF Access, Running, TypeOK
<1>2. access.page \in Pages /\ access.kind \in {"fetch", "load", "store"}
  BY <1>1 DEF Accesses
<1> QED
  BY <1>1, <1>2 DEF Access

(* What the fault handler does for a page that has its frame.              *)
LEMMA SetBitFacts ==
  ASSUME TypeOK, NEW p \in Pages, SetBit(p)
  PROVE  \E pte \in Pte :
           /\ user_llpt' = [user_llpt EXCEPT ![p] = pte]
           /\ pte.frame = user_llpt[p].frame
           /\ pte.a /\ (user_llpt[p].d => pte.d)
           /\ tlb' = [tlb EXCEPT ![p] = NoPte]
           /\ UNCHANGED << node, FreeList, frame >>
           /\ tohost' = IF ~user_llpt[p].a \/ (~user_llpt[p].d /\ cause = "store")
                          THEN tohost ELSE "assert"
<1> DEFINE pte == IF user_llpt[p].a THEN [user_llpt[p] EXCEPT !.d = TRUE]
                                    ELSE [user_llpt[p] EXCEPT !.a = TRUE]
<1>1. user_llpt[p] \in Pte
  BY DEF TypeOK
<1>2. /\ pte \in Pte /\ pte.frame = user_llpt[p].frame
      /\ pte.a /\ (user_llpt[p].d => pte.d)
  BY <1>1 DEF Pte
<1>3. user_llpt' = [user_llpt EXCEPT ![p] = pte]
  BY DEF SetBit
<1> HIDE DEF pte
<1> QED
  BY <1>2, <1>3 DEF SetBit, flush_page, assert

(* The free list's head is a node while a page is without a frame.         *)
LEMMA HeadIsNode ==
  ASSUME TypeOK, IInv, evicting = 0, NEW p \in Pages, user_llpt[p].frame = 0
  PROVE  LET k == Cardinality(Mapped)
         IN  /\ k \in Index /\ k + 1 \in Index /\ freelist_head = Freelist(k)
             /\ node[freelist_head].addr \in Frames
             /\ node[freelist_head].next = Freelist(k + 1)
             /\ node[Mapping(p)].addr = 0
<1>0. p \in Pages \ Mapped
  BY DEF Mapped
<1>1. Cardinality(Mapped) \in 0 .. MAX_TEST_PAGES - 2
  <2>1. /\ Cardinality(Mapped) \in 0 .. MAX_TEST_PAGES - 1
        /\ Cardinality(Mapped) < MAX_TEST_PAGES - 1
    BY <1>0, MappedCount
  <2> HIDE DEF Mapped
  <2> QED
    BY <2>1, Sizes
<1>2. Cardinality(Mapped) \in Index /\ Cardinality(Mapped) + 1 \in Index
  BY <1>1, Sizes DEF Index
<1>3. node[Mapping(p)].addr = 0
  BY DEF IInv, MappingsAgree
<1> QED
  BY <1>1, <1>2, <1>3, Sizes DEF IInv, FreeListOrder, FreeFrames

(* What the fault handler does for a page that has no frame yet.           *)
LEMMA MapPageFacts ==
  ASSUME TypeOK, IInv, evicting = 0, NEW p \in Pages, MapPage(p)
  PROVE  LET k == Cardinality(Mapped)
             f == node[Freelist(k)].addr
         IN  /\ user_llpt[p].frame = 0 /\ f \in Frames
             /\ k \in Index /\ k + 1 \in Index
             /\ freelist_head' = Freelist(k + 1)
             /\ freelist_tail' \in {freelist_tail, Null}
             /\ node' = [node EXCEPT ![Mapping(p)] = node[Freelist(k)]]
             /\ frame' = [frame EXCEPT ![f] = kernel[p]]
             /\ user_llpt' = [user_llpt EXCEPT ![p] = [frame |-> f, a |-> FALSE, d |-> FALSE]]
             /\ tlb' = [tlb EXCEPT ![p] = NoPte]
             /\ tohost' = tohost
<1>1. user_llpt[p].frame = 0
  BY Sizes DEF MapPage
<1>2. ~(freelist_head = Null \/ node[Mapping(p)].addr # 0)
  BY <1>1, HeadIsNode, NodeFacts
<1> QED
  BY <1>1, <1>2, HeadIsNode DEF MapPage, PopFreelist, flush_page

(* The handler handles the page of the access.                             *)
LEMMA FaultCases ==
  ASSUME TypeOK, IInv, handle_fault
  PROVE  LET p == access.page
         IN  /\ p \in Pages /\ access # Idle /\ evicting = 0 /\ cause = access.kind
             /\ tohost = "running" /\ cause' = "none"
             /\ UNCHANGED << hwad, kernel, access, evicting, view >>
             /\ SetBit(p) \/ MapPage(p)
<1>1. access # Idle /\ evicting = 0 /\ cause = access.kind
  BY DEF handle_fault, IInv, AccessPending, Phases
<1>2. access.page \in Pages
  BY <1>1 DEF TypeOK, Accesses
<1> QED
  BY <1>1, <1>2 DEF handle_fault

(* One page is evicted: nothing but its mapping, its contents where it was *)
(* loaded and the order of the free list changes.                          *)
LEMMA EvictFacts ==
  ASSUME TypeOK, evict
  PROVE  LET p == evicting
             page == frame[user_llpt[p].frame]
         IN  /\ p \in Pages /\ tohost = "running" /\ evicting' = p + 1
             /\ UNCHANGED << hwad, user_llpt, tlb, frame, access, cause, view >>
             /\ node' \in [Nodes -> [addr : {0} \cup Frames, next : Nodes \cup {Null}]]
             /\ \A m \in Nodes : node'[m].addr = IF m = Mapping(p) THEN 0 ELSE node[m].addr
             /\ freelist_head' \in Nodes \cup {Null} /\ freelist_tail' \in Nodes \cup {Null}
             /\ \/ node[Mapping(p)].addr = 0 /\ kernel' = kernel /\ tohost' = tohost
                \/ /\ node[Mapping(p)].addr # 0
                   /\ kernel' = [kernel EXCEPT ![p] =
                                   IF memcmp(page, kernel[p]) THEN page ELSE kernel[p]]
                   /\ tohost' = IF user_llpt[p].a /\ (memcmp(page, kernel[p]) => user_llpt[p].d)
                                  THEN tohost ELSE "assert"
<1> DEFINE p == evicting
           n == Mapping(p)
           page == frame[user_llpt[p].frame]
           Node == [addr : {0} \cup Frames, next : Nodes \cup {Null}]
<1>1. /\ p \in Pages /\ n \in Nodes /\ node \in [Nodes -> Node]
      /\ freelist_head \in Nodes \cup {Null} /\ freelist_tail \in Nodes \cup {Null}
  BY NodeFacts DEF evict, TypeOK
<1>2. CASE node[n].addr = 0
  <2>1. /\ UNCHANGED << node, FreeList, kernel, tohost >>
        /\ evicting' = p + 1 /\ tohost = "running"
        /\ UNCHANGED << hwad, user_llpt, tlb, frame, access, cause, view >>
    BY <1>2 DEF evict
  <2>2. node' = node /\ freelist_head' = freelist_head /\ freelist_tail' = freelist_tail
    BY <2>1 DEF FreeList
  <2> HIDE DEF n, Node
  <2>3. \A m \in Nodes : node'[m].addr = IF m = n THEN 0 ELSE node[m].addr
    BY <1>2, <2>2
  <2> QED
    BY <1>1, <1>2, <2>1, <2>2, <2>3 DEF n, Node
<1>3. CASE node[n].addr # 0
  <2>1. /\ tohost' = IF user_llpt[p].a /\ (memcmp(page, kernel[p]) => user_llpt[p].d)
                       THEN tohost ELSE "assert"
        /\ kernel' = [kernel EXCEPT ![p] = IF memcmp(page, kernel[p]) THEN page ELSE kernel[p]]
        /\ node' = [m \in Nodes |->
                      IF m = n THEN [node[m] EXCEPT !.addr = 0]
                      ELSE IF m = freelist_tail THEN [node[m] EXCEPT !.next = n] ELSE node[m]]
        /\ evicting' = p + 1 /\ tohost = "running"
        /\ UNCHANGED << hwad, user_llpt, tlb, frame, access, cause, view >>
        /\ freelist_tail' = n
        /\ freelist_head' = IF freelist_tail = Null THEN n ELSE freelist_head
    BY <1>3 DEF evict, assert, AppendFreelist
  <2>2. ASSUME NEW m \in Nodes
        PROVE  /\ node'[m] \in Node
               /\ node'[m].addr = IF m = n THEN 0 ELSE node[m].addr
    <3> HIDE DEF n
    <3>1. node'[m] = IF m = n THEN [node[m] EXCEPT !.addr = 0]
                     ELSE IF m = freelist_tail THEN [node[m] EXCEPT !.next = n] ELSE node[m]
      BY <2>1
    <3> QED
      BY <1>1, <3>1
  <2>3. node' \in [Nodes -> Node]
    <3> HIDE DEF n, Node
    <3> QED
      BY <2>1, <2>2
  <2> HIDE DEF n, Node
  <2> QED
    BY <1>1, <1>3, <2>1, <2>2, <2>3 DEF n, Node
<1> QED
  BY <1>2, <1>3

(* Every step of the program, the hardware and the supervisor keeps the    *)
(* types.                                                                  *)
LEMMA TypeStep ==
  ASSUME TypeOK, IInv, Next
  PROVE  TypeOK'
<1>1. CASE Issue
  <2>1. access' \in Accesses
    BY <1>1 DEF Issue, Accesses
  <2> QED
    BY <1>1, <2>1 DEF Issue, FreeList, TypeOK
<1>2. CASE Access
  <2> DEFINE p == access.page
             walked == Walked(user_llpt[p], access.kind)
  <2>1. p \in Pages /\ hwad \in BOOLEAN /\ user_llpt[p] \in Pte /\ tlb[p] \in Pte
    BY <1>2, AccessCases DEF TypeOK
  <2>2. walked \in Pte
    BY <2>1, WalkFacts
  <2>3. /\ tlb' \in [Pages -> Pte] /\ user_llpt' \in [Pages -> Pte]
        /\ frame' \in [Frames -> Page] /\ view' \in [Pages -> Page]
        /\ access' \in Accesses \cup {Idle} /\ cause' \in {"none", "fetch", "load", "store"}
    <3>1. CASE Allows(tlb[p], access.kind) /\ Complete(p, tlb[p]) /\ UNCHANGED user_llpt
      BY <1>2, <2>1, <3>1, AccessCases, CompleteFacts DEF TypeOK
    <3>2. CASE /\ Allows(walked, access.kind) /\ Complete(p, walked)
               /\ user_llpt' = [user_llpt EXCEPT ![p] = walked]
      <4> HIDE DEF walked
      <4> QED
        BY <1>2, <2>1, <2>2, <3>2, AccessCases, CompleteFacts DEF TypeOK
    <3>3. CASE cause' = access.kind /\ UNCHANGED << access, frame, view, tlb, user_llpt >>
      BY <1>2, <3>3, AccessCases DEF TypeOK
    <3> QED
      BY <1>2, <3>1, <3>2, <3>3, AccessCases
  <2> QED
    BY <1>2, <2>3, AccessCases DEF TypeOK, FreeList
<1>3. CASE TlbDrop
  BY <1>3, Sizes DEF TlbDrop, FreeList, TypeOK
<1>4. CASE handle_fault
  <2> DEFINE p == access.page
             k == Cardinality(Mapped)
             f == node[Freelist(k)].addr
  <2>1. /\ p \in Pages /\ evicting = 0
        /\ UNCHANGED << hwad, kernel, access, evicting, view >> /\ cause' = "none"
    BY <1>4, FaultCases
  <2>2. CASE SetBit(p)
    <3>1. PICK pte \in Pte :
            /\ user_llpt' = [user_llpt EXCEPT ![p] = pte]
            /\ tlb' = [tlb EXCEPT ![p] = NoPte]
            /\ UNCHANGED << node, FreeList, frame >>
            /\ tohost' \in {tohost, "assert"}
      BY <2>1, <2>2, SetBitFacts
    <3> QED
      BY <2>1, <3>1, Sizes DEF TypeOK, FreeList
  <2>3. CASE MapPage(p)
    <3>1. /\ f \in Frames /\ k \in Index /\ k + 1 \in Index
          /\ freelist_head' = Freelist(k + 1)
          /\ freelist_tail' \in {freelist_tail, Null}
          /\ node' = [node EXCEPT ![Mapping(p)] = node[Freelist(k)]]
          /\ frame' = [frame EXCEPT ![f] = kernel[p]]
          /\ user_llpt' = [user_llpt EXCEPT ![p] = [frame |-> f, a |-> FALSE, d |-> FALSE]]
          /\ tlb' = [tlb EXCEPT ![p] = NoPte]
          /\ tohost' = tohost
      BY <2>1, <2>3, MapPageFacts
    <3> HIDE DEF f, k
    <3>2. [frame |-> f, a |-> FALSE, d |-> FALSE] \in Pte
      BY <3>1 DEF Pte
    <3>3. node' \in [Nodes -> [addr : {0} \cup Frames, next : Nodes \cup {Null}]]
      BY <2>1, <3>1, NodeFacts DEF TypeOK
    <3>4. user_llpt' \in [Pages -> Pte] /\ tlb' \in [Pages -> Pte]
      BY <2>1, <3>1, <3>2, Sizes DEF TypeOK
    <3>5. frame' \in [Frames -> Page]
      BY <2>1, <3>1 DEF TypeOK
    <3>6. freelist_head' \in Nodes \cup {Null} /\ freelist_tail' \in Nodes \cup {Null}
      BY <3>1, NodeFacts DEF TypeOK
    <3> QED
      BY <2>1, <3>1, <3>3, <3>4, <3>5, <3>6 DEF TypeOK
  <2> QED
    BY <1>4, <2>2, <2>3, FaultCases
<1>5. CASE Ecall
  BY <1>5, Sizes DEF Ecall, FreeList, TypeOK
<1>6. CASE evict
  <2> DEFINE p == evicting
             page == frame[user_llpt[p].frame]
  <2>1. /\ p \in Pages /\ evicting' = p + 1
        /\ UNCHANGED << hwad, user_llpt, tlb, frame, access, cause, view >>
        /\ node' \in [Nodes -> [addr : {0} \cup Frames, next : Nodes \cup {Null}]]
        /\ freelist_head' \in Nodes \cup {Null} /\ freelist_tail' \in Nodes \cup {Null}
        /\ tohost' \in {tohost, "assert"}
    BY <1>6, EvictFacts
  <2>2. evicting' \in 0 .. MAX_TEST_PAGES
    BY <2>1, Sizes DEF Pages
  <2>3. kernel' \in [Pages -> Page]
    <3>1. \/ kernel' = kernel
          \/ /\ node[Mapping(p)].addr # 0
             /\ kernel' = [kernel EXCEPT ![p] = IF memcmp(page, kernel[p]) THEN page ELSE kernel[p]]
      BY <1>6, EvictFacts
    <3>2. node[Mapping(p)].addr # 0 => page \in Page
      <4>1. node[Mapping(p)].addr # 0 => user_llpt[p].frame # 0
        BY <2>1 DEF IInv, MappingsAgree
      <4> QED
        BY <2>1, <4>1 DEF TypeOK, Pte
    <3> QED
      BY <2>1, <3>1, <3>2 DEF TypeOK
  <2> QED
    BY <2>1, <2>2, <2>3 DEF TypeOK
<1>7. CASE EndOfTest
  BY <1>7 DEF EndOfTest, terminate, FreeList, TypeOK
<1>8. CASE wtf
  BY <1>8 DEF wtf, terminate, FreeList, TypeOK
<1>9. CASE Terminated
  BY <1>9 DEF Terminated, vars, TypeOK
<1> QED
  BY <1>1, <1>2, <1>3, <1>4, <1>5, <1>6, <1>7, <1>8, <1>9 DEF Next

----------------------------------------------------------------------------
(* The invariant is kept, action by action. *)

(* An access: only the accessed page's entry, translation and contents     *)
(* change, and a store changes the contents only through an entry with D.  *)
LEMMA AccessStep ==
  ASSUME TypeOK, IInv, Access
  PROVE  IInv'
<1> DEFINE p == access.page
           walked == Walked(user_llpt[p], access.kind)
<1>0. /\ p \in Pages /\ access # Idle /\ cause = "none" /\ evicting = 0
      /\ node' = node /\ freelist_head' = freelist_head /\ freelist_tail' = freelist_tail
      /\ hwad' = hwad /\ kernel' = kernel /\ evicting' = evicting /\ tohost' = tohost
  BY AccessCases DEF FreeList
<1>1. /\ hwad \in BOOLEAN /\ user_llpt \in [Pages -> Pte] /\ tlb \in [Pages -> Pte]
      /\ frame \in [Frames -> Page] /\ view \in [Pages -> Page]
  BY DEF TypeOK
<1>2. walked \in Pte
  BY <1>0, <1>1, WalkFacts
<1>3. ASSUME NEW pte \in Pte, Allows(pte, access.kind), Complete(p, pte),
             pte.frame = user_llpt[p].frame, NEW entry \in Pte,
             entry.frame = pte.frame, pte.a => entry.a, pte.d => entry.d,
             user_llpt[p].a => entry.a, user_llpt[p].d => entry.d,
             user_llpt' = [user_llpt EXCEPT ![p] = entry]
      PROVE  IInv'
  <2>1. /\ access' = Idle /\ cause' = cause
        /\ tlb' = [tlb EXCEPT ![p] = pte]
        /\ \/ /\ access.kind = "store" /\ pte.d /\ pte.frame \in Frames
              /\ frame' = [frame EXCEPT ![pte.frame][access.word] = access.value]
              /\ view' = [view EXCEPT ![p][access.word] = access.value]
           \/ frame' = frame /\ view' = view
    BY <1>0, <1>3, CompleteFacts
  <2>2. pte.a /\ pte.frame # 0 /\ entry.a
    BY <1>3 DEF Allows
  <2>3. \A q \in Pages : /\ user_llpt'[q].frame = user_llpt[q].frame
                         /\ q # p => user_llpt'[q] = user_llpt[q]
                         /\ user_llpt[q].a => user_llpt'[q].a
                         /\ user_llpt[q].d => user_llpt'[q].d
    BY <1>0, <1>1, <1>3
  <2>4. Mapped' = Mapped /\ p \in Mapped /\ Mapped \subseteq Pages
    BY <1>0, <1>3, <2>2, <2>3 DEF Mapped
  <2>5. FreeFrames' /\ FreeListOrder' /\ FramesTaken'
    <3>1. FreeFrames' /\ FreeListOrder'
      BY <1>0, <2>4 DEF IInv, FreeFrames, FreeListOrder
    <3>2. FramesTaken'
      BY <1>0, <2>3, <2>4 DEF IInv, FramesTaken
    <3> QED
      BY <3>1, <3>2
  <2>6. MappingsAgree'
    BY <1>0, <2>2, <2>3, <2>4 DEF IInv, MappingsAgree, Mapped
  <2>7. Contents'
    <3> SUFFICES ASSUME NEW q \in Pages
                 PROVE  /\ q \in Mapped => frame'[user_llpt'[q].frame] = view'[q]
                        /\ q \notin Mapped \/ q < evicting \/ ~user_llpt'[q].d
                             => kernel[q] = view'[q]
      BY <1>0, <2>4 DEF Contents
    <3>1. /\ q \in Mapped => frame[user_llpt[q].frame] = view[q] /\ user_llpt[q].frame \in Frames
          /\ q \notin Mapped \/ q < evicting \/ ~user_llpt[q].d => kernel[q] = view[q]
      BY <1>1 DEF IInv, Contents, Mapped, Pte
    <3>2. CASE frame' = frame /\ view' = view
      BY <2>3, <3>1, <3>2
    <3>3. CASE /\ pte.d /\ pte.frame \in Frames
               /\ frame' = [frame EXCEPT ![pte.frame][access.word] = access.value]
               /\ view' = [view EXCEPT ![p][access.word] = access.value]
      <4>1. CASE q = p
        <5>1. frame[pte.frame] = view[p] /\ entry.d /\ user_llpt'[p].frame = pte.frame
          BY <1>3, <2>3, <2>4, <3>1, <3>3, <4>1
        <5>2. frame'[pte.frame] = view'[p]
          BY <1>0, <1>1, <3>3, <5>1
        <5>3. user_llpt'[p].d
          BY <1>0, <1>1, <1>3, <5>1
        <5> QED
          BY <1>0, <2>4, <4>1, <5>1, <5>2, <5>3, Sizes DEF Pages
      <4>2. CASE q # p
        <5>1. view'[q] = view[q]
          BY <1>1, <3>3, <4>2
        <5>2. q \in Mapped => user_llpt[q].frame # pte.frame
          BY <1>3, <2>4, <4>2 DEF IInv, FramesTaken
        <5>3. q \in Mapped => frame'[user_llpt[q].frame] = frame[user_llpt[q].frame]
          BY <1>1, <3>1, <3>3, <5>2
        <5> QED
          BY <2>3, <3>1, <4>2, <5>1, <5>3
      <4> QED
        BY <4>1, <4>2
    <3> QED
      BY <2>1, <3>2, <3>3
  <2>8. TlbFollows'
    <3> SUFFICES ASSUME NEW q \in Pages, tlb'[q].frame # 0
                 PROVE  /\ tlb'[q].frame = user_llpt'[q].frame
                        /\ tlb'[q].a => user_llpt'[q].a
                        /\ tlb'[q].d => user_llpt'[q].d
      BY DEF TlbFollows
    <3>1. CASE q = p
      <4>1. tlb'[q] = pte /\ user_llpt'[q] = entry
        BY <1>0, <1>1, <1>3, <2>1, <3>1
      <4> QED
        BY <1>3, <4>1
    <3>2. CASE q # p
      BY <1>1, <1>3, <2>1, <2>3, <3>2 DEF IInv, TlbFollows
    <3> QED
      BY <3>1, <3>2
  <2>9. AccessPending'
    <3>1. user_llpt'[p].a
      BY <1>0, <1>1, <1>3, <2>2
    <3>2. ASSUME NEW q \in Mapped
          PROVE  user_llpt'[q].a
      <4>1. user_llpt[q].a \/ q = p
        BY DEF IInv, AccessPending
      <4> QED
        BY <2>3, <2>4, <3>1, <4>1
    <3> QED
      BY <1>0, <2>1, <2>4, <3>2 DEF AccessPending
  <2>10. Phases' /\ NoAssertFails'
    BY <1>0, <2>1 DEF IInv, Phases, NoAssertFails
  <2> QED
    BY <2>5, <2>6, <2>7, <2>8, <2>9, <2>10 DEF IInv
<1>4. CASE Allows(tlb[p], access.kind) /\ Complete(p, tlb[p]) /\ UNCHANGED user_llpt
  <2>1. tlb[p].frame # 0
    BY <1>4 DEF Allows
  <2>2. /\ tlb[p].frame = user_llpt[p].frame
        /\ tlb[p].a => user_llpt[p].a
        /\ tlb[p].d => user_llpt[p].d
    BY <1>0, <2>1 DEF IInv, TlbFollows
  <2>3. user_llpt' = [user_llpt EXCEPT ![p] = user_llpt[p]]
    BY <1>1, <1>4
  <2>4. tlb[p] \in Pte /\ user_llpt[p] \in Pte
    BY <1>0, <1>1
  <2> HIDE DEF p
  <2> QED
    BY <1>3, <1>4, <2>2, <2>3, <2>4
<1>5. CASE /\ Allows(walked, access.kind) /\ Complete(p, walked)
           /\ user_llpt' = [user_llpt EXCEPT ![p] = walked]
  <2>1. /\ walked.frame = user_llpt[p].frame
        /\ user_llpt[p].a => walked.a
        /\ user_llpt[p].d => walked.d
    BY <1>0, <1>1, WalkFacts
  <2> HIDE DEF p, walked
  <2> QED
    BY <1>2, <1>3, <1>5, <2>1
<1>6. CASE /\ ~Allows(walked, access.kind) /\ cause' = access.kind
           /\ UNCHANGED << access, frame, view, tlb, user_llpt >>
  <2>1. ~Allows(user_llpt[p], access.kind)
    <3>1. CASE hwad /\ user_llpt[p].frame # 0
      BY <1>0, <1>1, <1>6, <3>1, WalkFacts
    <3>2. CASE ~(hwad /\ user_llpt[p].frame # 0)
      BY <1>0, <1>1, <1>6, <3>2, WalkFacts
    <3> QED
      BY <3>1, <3>2
  <2> QED
    BY <1>0, <1>6, <2>1
       DEF IInv, FreeFrames, FreeListOrder, FramesTaken, MappingsAgree, Contents, TlbFollows,
           AccessPending, Phases, NoAssertFails, Mapped
<1> QED
  BY <1>4, <1>5, <1>6, AccessCases

(* A fault on a page that has its frame: the missing bit is set.           *)
LEMMA SetBitStep ==
  ASSUME TypeOK, IInv, handle_fault, SetBit(access.page)
  PROVE  IInv'
<1> DEFINE p == access.page
<1>0. /\ p \in Pages /\ access # Idle /\ evicting = 0 /\ cause = access.kind
      /\ cause' = "none" /\ cause # "none" /\ tohost = "running"
      /\ hwad' = hwad /\ kernel' = kernel /\ access' = access /\ evicting' = evicting
      /\ view' = view
  BY FaultCases DEF handle_fault
<1>1. user_llpt \in [Pages -> Pte] /\ tlb \in [Pages -> Pte]
  BY DEF TypeOK
<1>2. PICK pte \in Pte :
        /\ user_llpt' = [user_llpt EXCEPT ![p] = pte]
        /\ pte.frame = user_llpt[p].frame
        /\ pte.a /\ (user_llpt[p].d => pte.d)
        /\ tlb' = [tlb EXCEPT ![p] = NoPte]
        /\ UNCHANGED << node, FreeList, frame >>
        /\ tohost' = IF ~user_llpt[p].a \/ (~user_llpt[p].d /\ cause = "store")
                       THEN tohost ELSE "assert"
  BY <1>0, SetBitFacts
<1>3. /\ node' = node /\ frame' = frame
      /\ freelist_head' = freelist_head /\ freelist_tail' = freelist_tail
  BY <1>2 DEF FreeList
<1>4. user_llpt[p].frame # 0
  BY <1>0 DEF SetBit, IInv, MappingsAgree
<1>5. tohost' = "running"
  BY <1>0, <1>2, <1>4 DEF IInv, AccessPending, Allows
<1>6. \A q \in Pages : /\ user_llpt'[q].frame = user_llpt[q].frame
                       /\ q # p => user_llpt'[q] = user_llpt[q]
                       /\ user_llpt[q].a => user_llpt'[q].a
                       /\ user_llpt[q].d => user_llpt'[q].d
  BY <1>0, <1>1, <1>2
<1>7. Mapped' = Mapped /\ Mapped \subseteq Pages
  BY <1>0, <1>6 DEF Mapped
<1>8. FreeFrames' /\ FreeListOrder'
  BY <1>0, <1>3, <1>7 DEF IInv, FreeFrames, FreeListOrder
<1>9. FramesTaken'
  BY <1>3, <1>6, <1>7 DEF IInv, FramesTaken
<1>10. MappingsAgree'
  BY <1>0, <1>3, <1>4, <1>6 DEF IInv, MappingsAgree
<1>11. Contents'
  BY <1>0, <1>3, <1>6, <1>7 DEF IInv, Contents
<1>12. TlbFollows'
  BY <1>0, <1>1, <1>2, <1>6, Sizes DEF IInv, TlbFollows
<1>13. AccessPending'
  BY <1>0, <1>6, <1>7 DEF IInv, AccessPending
<1>14. Phases' /\ NoAssertFails'
  BY <1>0, <1>5 DEF IInv, Phases, NoAssertFails
<1> QED
  BY <1>8, <1>9, <1>10, <1>11, <1>12, <1>13, <1>14 DEF IInv

(* The first fault on a page: it gets the first free frame, which no page  *)
(* has, with its contents.                                                 *)
LEMMA MapPageStep ==
  ASSUME TypeOK, IInv, handle_fault, MapPage(access.page)
  PROVE  IInv'
<1> DEFINE p == access.page
           k == Cardinality(Mapped)
           f == node[Freelist(k)].addr
           new == [frame |-> f, a |-> FALSE, d |-> FALSE]
<1>0. /\ p \in Pages /\ access # Idle /\ evicting = 0
      /\ cause' = "none" /\ tohost = "running"
      /\ hwad' = hwad /\ kernel' = kernel /\ access' = access /\ evicting' = evicting
      /\ view' = view
  BY FaultCases
<1>1. /\ user_llpt \in [Pages -> Pte] /\ tlb \in [Pages -> Pte]
      /\ frame \in [Frames -> Page]
      /\ node \in [Nodes -> [addr : {0} \cup Frames, next : Nodes \cup {Null}]]
  BY DEF TypeOK
<1>2. /\ user_llpt[p].frame = 0 /\ f \in Frames
      /\ k \in Index /\ k + 1 \in Index
      /\ freelist_head' = Freelist(k + 1)
      /\ node' = [node EXCEPT ![Mapping(p)] = node[Freelist(k)]]
      /\ frame' = [frame EXCEPT ![f] = kernel[p]]
      /\ user_llpt' = [user_llpt EXCEPT ![p] = new]
      /\ tlb' = [tlb EXCEPT ![p] = NoPte]
      /\ tohost' = tohost
  BY <1>0, MapPageFacts
<1>3. f # 0 /\ new.frame = f /\ ~new.a /\ ~new.d
  BY <1>2, Sizes
<1>4. k \in Nat
  BY <1>2 DEF Index
<1> HIDE DEF k, f, new, p
<1>5. user_llpt'[p] = new /\ \A q \in Pages : q # p => user_llpt'[q] = user_llpt[q]
  BY <1>0, <1>1, <1>2
<1>6. /\ p \notin Mapped /\ Mapped \subseteq Pages
      /\ Mapped' = Mapped \cup {p} /\ Cardinality(Mapped)' = k + 1
  <2>1. p \in Pages \ Mapped /\ Mapped \subseteq Pages
    BY <1>0, <1>2 DEF Mapped
  <2>2. Mapped' = Mapped \cup {p}
    BY <1>0, <1>3, <1>5 DEF Mapped
  <2> QED
    BY <2>1, <2>2, MappedCount DEF k
<1>7. /\ node'[Mapping(p)] = node[Freelist(k)] /\ node'[Mapping(p)].addr = f
      /\ \A i \in Index : node'[Freelist(i)] = node[Freelist(i)]
      /\ \A q \in Pages : q # p => node'[Mapping(q)] = node[Mapping(q)]
  <2>1. node[Freelist(k)].addr = f
    BY DEF f
  <2> QED
    BY <1>0, <1>1, <1>2, <2>1, NodeFacts
<1>8. FreeFrames'
  BY <1>7 DEF IInv, FreeFrames
<1>9. FreeListOrder'
  BY <1>0, <1>2, <1>6, <1>7 DEF IInv, FreeListOrder
(* The frame of node k is not that of a page that had one.                 *)
<1>10. ASSUME NEW q \in Mapped
       PROVE  /\ user_llpt[q].frame # f
              /\ \E i \in 0 .. k - 1 : user_llpt[q].frame = node[Freelist(i)].addr
  <2>1. PICK i \in 0 .. k - 1 : user_llpt[q].frame = node[Freelist(i)].addr
    BY DEF IInv, FramesTaken, k
  <2>2. i \in Index /\ i # k
    BY <1>2, <1>4, <2>1, Sizes DEF Index
  <2>3. user_llpt[q].frame # f
    BY <1>2, <2>1, <2>2 DEF IInv, FreeFrames, f
  <2> QED
    BY <2>1, <2>3
<1>11. FramesTaken'
  <2>1. ASSUME NEW q \in Mapped'
        PROVE  \E i \in 0 .. (k + 1) - 1 : user_llpt'[q].frame = node'[Freelist(i)].addr
    <3>1. CASE q = p
      <4>1. user_llpt'[q].frame = node'[Freelist(k)].addr
        BY <1>2, <1>3, <1>5, <1>7, <3>1 DEF f
      <4> QED
        BY <1>4, <4>1
    <3>2. CASE q # p
      <4>1. q \in Mapped
        BY <1>6, <2>1, <3>2
      <4>2. PICK i \in 0 .. k - 1 : user_llpt[q].frame = node[Freelist(i)].addr
        BY <1>10, <4>1
      <4>3. i \in Index /\ i \in 0 .. (k + 1) - 1
        BY <1>2, <1>4, <4>2, Sizes DEF Index
      <4>4. user_llpt'[q] = user_llpt[q] /\ node'[Freelist(i)] = node[Freelist(i)]
        BY <1>5, <1>6, <1>7, <3>2, <4>1, <4>3
      <4> QED
        BY <4>2, <4>3, <4>4
    <3> QED
      BY <3>1, <3>2
  <2>2. ASSUME NEW q \in Mapped', NEW r \in Mapped', user_llpt'[q].frame = user_llpt'[r].frame
        PROVE  q = r
    <3>1. \A x \in Mapped : user_llpt'[x] = user_llpt[x] /\ user_llpt'[x].frame # user_llpt'[p].frame
      BY <1>3, <1>5, <1>6, <1>10
    <3> QED
      BY <1>6, <2>2, <3>1 DEF IInv, FramesTaken
  <2> QED
    BY <1>6, <2>1, <2>2 DEF FramesTaken
<1>12. MappingsAgree'
  <2> SUFFICES ASSUME NEW q \in Pages
               PROVE  /\ node'[Mapping(q)].addr = user_llpt'[q].frame
                      /\ user_llpt'[q].frame = 0 => user_llpt'[q] = NoPte
    BY <1>0, Sizes DEF MappingsAgree, Pages
  <2>1. CASE q = p
    BY <1>3, <1>5, <1>7, <2>1
  <2>2. CASE q # p
    <3>1. node[Mapping(q)].addr = user_llpt[q].frame
      BY <1>0, Sizes DEF IInv, MappingsAgree, Pages
    <3> QED
      BY <1>5, <1>7, <2>2, <3>1 DEF IInv, MappingsAgree
  <2> QED
    BY <2>1, <2>2
<1>13. Contents'
  <2> SUFFICES ASSUME NEW q \in Pages
               PROVE  /\ q \in Mapped' => frame'[user_llpt'[q].frame] = view[q]
                      /\ q \notin Mapped' \/ q < evicting \/ ~user_llpt'[q].d => kernel[q] = view[q]
    BY <1>0 DEF Contents
  <2>1. CASE q = p
    <3>1. kernel[p] = view[p]
      BY <1>0, <1>6 DEF IInv, Contents
    <3>2. frame'[f] = kernel[p]
      BY <1>1, <1>2
    <3> QED
      BY <1>3, <1>5, <2>1, <3>1, <3>2
  <2>2. CASE q # p
    <3>1. user_llpt'[q] = user_llpt[q] /\ (q \in Mapped' <=> q \in Mapped)
      BY <1>5, <1>6, <2>2
    <3>2. q \in Mapped => frame'[user_llpt[q].frame] = frame[user_llpt[q].frame]
      <4>1. q \in Mapped => user_llpt[q].frame # f /\ user_llpt[q].frame \in Frames
        BY <1>1, <1>10 DEF Mapped, Pte
      <4> QED
        BY <1>1, <1>2, <4>1
    <3> QED
      BY <3>1, <3>2 DEF IInv, Contents
  <2> QED
    BY <2>1, <2>2
<1>14. TlbFollows'
  BY <1>0, <1>1, <1>2, <1>5, Sizes DEF IInv, TlbFollows
<1>15. AccessPending'
  BY <1>0, <1>5, <1>6 DEF IInv, AccessPending, p
<1>16. Phases' /\ NoAssertFails'
  BY <1>0, <1>2 DEF IInv, Phases, NoAssertFails
<1> QED
  BY <1>8, <1>9, <1>11, <1>12, <1>13, <1>14, <1>15, <1>16 DEF IInv

(* A page is evicted: it has A, and D if its frame differs from where it   *)
(* was loaded, and what the program stored is copied there.                *)
LEMMA EvictStep ==
  ASSUME TypeOK, IInv, evict
  PROVE  IInv'
<1> DEFINE p == evicting
           page == frame[user_llpt[p].frame]
<1>0. /\ p \in Pages /\ tohost = "running" /\ evicting' = p + 1
      /\ user_llpt' = user_llpt /\ tlb' = tlb /\ frame' = frame /\ access' = access
      /\ cause' = cause /\ view' = view
      /\ \A m \in Nodes : node'[m].addr = IF m = Mapping(p) THEN 0 ELSE node[m].addr
      /\ \/ node[Mapping(p)].addr = 0 /\ kernel' = kernel /\ tohost' = tohost
         \/ /\ node[Mapping(p)].addr # 0
            /\ kernel' = [kernel EXCEPT ![p] = IF memcmp(page, kernel[p]) THEN page ELSE kernel[p]]
            /\ tohost' = IF user_llpt[p].a /\ (memcmp(page, kernel[p]) => user_llpt[p].d)
                           THEN tohost ELSE "assert"
  BY EvictFacts
<1>1. /\ kernel \in [Pages -> Page] /\ frame \in [Frames -> Page]
      /\ user_llpt \in [Pages -> Pte]
  BY DEF TypeOK
<1>2. p \in Int /\ p # 0 /\ evicting' # 0 /\ Pages \subseteq Int
  BY <1>0, Sizes DEF Pages
<1>3. access = Idle /\ cause = "none"
  BY <1>2 DEF IInv, Phases
<1>4. Mapped' = Mapped
  BY <1>0 DEF Mapped
<1>5. node[Mapping(p)].addr = user_llpt[p].frame
  BY <1>0, <1>2 DEF IInv, MappingsAgree
(* A mapped page has A, and its frame holds what the program stored.       *)
<1>6. ASSUME p \in Mapped
      PROVE  /\ user_llpt[p].a /\ page = view[p] /\ page \in Page /\ kernel[p] \in Page
             /\ page # kernel[p] => user_llpt[p].d
  <2>1. user_llpt[p].a
    BY <1>3, <1>6 DEF IInv, AccessPending
  <2>2. page = view[p] /\ (~user_llpt[p].d => kernel[p] = view[p])
    BY <1>0, <1>6 DEF IInv, Contents
  <2>3. page \in Page /\ kernel[p] \in Page
    BY <1>0, <1>1, <1>6 DEF Mapped, Pte
  <2> QED
    BY <2>1, <2>2, <2>3
<1>7. tohost' = "running" /\ kernel'[p] = view[p]
  <2>1. CASE p \in Mapped
    <3>1. memcmp(page, kernel[p]) <=> page # kernel[p]
      BY <1>6, <2>1, MemcmpDiffers
    <3>2. /\ kernel' = [kernel EXCEPT ![p] = IF memcmp(page, kernel[p]) THEN page ELSE kernel[p]]
          /\ tohost' = IF user_llpt[p].a /\ (memcmp(page, kernel[p]) => user_llpt[p].d)
                         THEN tohost ELSE "assert"
      BY <1>0, <1>5, <2>1 DEF Mapped
    <3> HIDE DEF page, p
    <3> QED
      BY <1>0, <1>1, <1>6, <2>1, <3>1, <3>2
  <2>2. CASE p \notin Mapped
    BY <1>0, <1>5, <2>2 DEF IInv, Contents, Mapped
  <2> QED
    BY <2>1, <2>2
<1>8. \A q \in Pages : q # p => kernel'[q] = kernel[q]
  BY <1>0, <1>1
<1> HIDE DEF page
<1>9. FreeFrames' /\ FreeListOrder'
  <2>1. \A i \in Index : node'[Freelist(i)].addr = node[Freelist(i)].addr
    BY <1>0, NodeFacts
  <2> QED
    BY <1>2, <2>1 DEF IInv, FreeFrames, FreeListOrder
<1>10. FramesTaken'
  <2>1. \A i \in 0 .. Cardinality(Mapped) - 1 : node'[Freelist(i)].addr = node[Freelist(i)].addr
    <3>1. \A i \in 0 .. Cardinality(Mapped) - 1 : i \in Index
      BY MappedCount, Sizes DEF Index
    <3> QED
      BY <1>0, <3>1, NodeFacts
  <2> QED
    BY <1>0, <1>4, <2>1 DEF IInv, FramesTaken
<1>11. MappingsAgree'
  <2> SUFFICES ASSUME NEW q \in Pages
               PROVE  /\ node'[Mapping(q)].addr = IF q < p + 1 THEN 0 ELSE user_llpt[q].frame
                      /\ user_llpt[q].frame = 0 => user_llpt[q] = NoPte
    BY <1>0 DEF MappingsAgree
  <2>1. node'[Mapping(q)].addr = IF q = p THEN 0 ELSE node[Mapping(q)].addr
    BY <1>0, NodeFacts
  <2> QED
    BY <1>2, <2>1 DEF IInv, MappingsAgree
<1>12. Contents'
  <2> SUFFICES ASSUME NEW q \in Pages
               PROVE  /\ q \in Mapped => frame[user_llpt[q].frame] = view[q]
                      /\ q \notin Mapped \/ q < p + 1 \/ ~user_llpt[q].d => kernel'[q] = view[q]
    BY <1>0, <1>4 DEF Contents
  <2>1. CASE q = p
    BY <1>7, <2>1 DEF IInv, Contents
  <2>2. CASE q # p
    <3>1. q < p + 1 => q < p
      BY <1>2, <2>2
    <3> QED
      BY <1>8, <2>2, <3>1 DEF IInv, Contents
  <2> QED
    BY <2>1, <2>2
<1>13. TlbFollows' /\ AccessPending'
  BY <1>0, <1>4 DEF IInv, TlbFollows, AccessPending
<1>14. Phases' /\ NoAssertFails'
  BY <1>0, <1>3, <1>7 DEF Phases, NoAssertFails
<1> QED
  BY <1>9, <1>10, <1>11, <1>12, <1>13, <1>14 DEF IInv

(* The other steps change no page, frame or node.                          *)
LEMMA OtherSteps ==
  ASSUME TypeOK, IInv, Issue \/ TlbDrop \/ Ecall \/ EndOfTest \/ wtf \/ UNCHANGED vars
  PROVE  IInv'
<1>1. /\ node' = node /\ user_llpt' = user_llpt /\ frame' = frame /\ kernel' = kernel
      /\ view' = view /\ cause' = cause /\ freelist_head' = freelist_head
      /\ tlb \in [Pages -> Pte]
  BY DEF Issue, TlbDrop, Ecall, EndOfTest, wtf, vars, FreeList, TypeOK
<1>2. Mapped' = Mapped
  BY <1>1 DEF Mapped
<1>3. TlbFollows'
  <2>1. ASSUME NEW q \in Pages
        PROVE  tlb'[q] = tlb[q] \/ tlb'[q].frame = 0
    BY <1>1, Sizes DEF Issue, TlbDrop, Ecall, EndOfTest, wtf, vars
  <2> QED
    BY <1>1, <2>1 DEF IInv, TlbFollows
<1>4. CASE Issue
  <2>1. access = Idle /\ evicting' = evicting /\ tohost' = tohost /\ cause = "none" /\ evicting = 0
    BY <1>4 DEF Issue, Running
  <2> QED
    BY <1>1, <1>2, <1>3, <2>1
       DEF IInv, FreeFrames, FreeListOrder, FramesTaken, MappingsAgree, Contents,
           AccessPending, Phases, NoAssertFails
<1>5. CASE TlbDrop \/ UNCHANGED vars
  <2>1. access' = access /\ evicting' = evicting /\ tohost' = tohost
    BY <1>5 DEF TlbDrop, vars
  <2> QED
    BY <1>1, <1>2, <1>3, <2>1
       DEF IInv, FreeFrames, FreeListOrder, FramesTaken, MappingsAgree, Contents,
           AccessPending, Phases, NoAssertFails
<1>6. CASE Ecall
  <2>1. /\ access = Idle /\ access' = access /\ evicting = 0 /\ evicting' = 1
        /\ tohost' = tohost /\ tohost = "running" /\ cause = "none"
    BY <1>6 DEF Ecall, Running
  <2>2. \A q \in Pages : ~(q < 0) /\ ~(q < 1)
    BY Sizes DEF Pages
  <2>3. MappingsAgree' /\ Contents'
    BY <1>1, <1>2, <2>1, <2>2 DEF IInv, MappingsAgree, Contents
  <2>4. Phases' /\ NoAssertFails'
    BY <1>1, <2>1 DEF Phases, NoAssertFails
  <2> QED
    BY <1>1, <1>2, <1>3, <2>1, <2>3, <2>4
       DEF IInv, FreeFrames, FreeListOrder, FramesTaken, AccessPending
<1>7. CASE EndOfTest \/ wtf
  <2>1. /\ access' = access /\ evicting' = evicting
        /\ tohost' \in {"result", "wtf"} /\ (tohost' = "result" => evicting = MAX_TEST_PAGES)
    BY <1>7 DEF EndOfTest, wtf, terminate
  <2> QED
    BY <1>1, <1>2, <1>3, <2>1
       DEF IInv, FreeFrames, FreeListOrder, FramesTaken, MappingsAgree, Contents,
           AccessPending, Phases, NoAssertFails
<1> QED
  BY <1>4, <1>5, <1>6, <1>7

----------------------------------------------------------------------------

(* vm_boot deals every frame to one node: this is where the period of the  *)
(* LFSR matters.                                                           *)
LEMMA InitInvariant == Init => TypeOK /\ IInv
<1> SUFFICES ASSUME Init
             PROVE  TypeOK /\ IInv
  OBVIOUS
<1> DEFINE Deal(random, n) ==
             IF n[1] = "user_mapping" THEN [addr |-> 0, next |-> Null]
             ELSE [addr |-> MAX_TEST_PAGES + Lfsr(random)[n[2]],
                   next |-> IF n[2] = MAX_TEST_PAGES - 1 THEN Null ELSE Freelist(n[2] + 1)]
<1>1. PICK random \in 1 .. MAX_TEST_PAGES : node = [n \in Nodes |-> Deal(random, n)]
  BY DEF Init
<1>2. /\ \A i \in Index : Lfsr(random)[i] \in 1 .. MAX_TEST_PAGES
      /\ \A i, j \in Index : i # j => Lfsr(random)[i] # Lfsr(random)[j]
  BY LfsrAssumption
<1>3. \A i \in Index : i # MAX_TEST_PAGES - 1 => i + 1 \in Index
  BY Sizes DEF Index
<1>4. ASSUME NEW i \in Index
      PROVE  /\ node[Freelist(i)].addr = MAX_TEST_PAGES + Lfsr(random)[i]
             /\ node[Freelist(i)].next = IF i = MAX_TEST_PAGES - 1 THEN Null ELSE Freelist(i + 1)
             /\ node[Freelist(i)] \in [addr : {0} \cup Frames, next : Nodes \cup {Null}]
             /\ node[Freelist(i)].addr \in Frames
  <2>1. Freelist(i)[1] # "user_mapping" /\ Freelist(i)[2] = i /\ Freelist(i) \in Nodes
    BY NodeFacts DEF Freelist
  <2>2. node[Freelist(i)] =
          [addr |-> MAX_TEST_PAGES + Lfsr(random)[i],
           next |-> IF i = MAX_TEST_PAGES - 1 THEN Null ELSE Freelist(i + 1)]
    BY <1>1, <2>1
  <2>3. MAX_TEST_PAGES + Lfsr(random)[i] \in Frames
    <3>1. Lfsr(random)[i] \in 1 .. MAX_TEST_PAGES
      BY <1>2
    <3> QED
      BY <3>1, Sizes DEF Frames
  <2>4. i # MAX_TEST_PAGES - 1 => Freelist(i + 1) \in Nodes
    BY <1>3, NodeFacts
  <2> QED
    BY <2>2, <2>3, <2>4
<1>5. ASSUME NEW p \in Pages
      PROVE  node[Mapping(p)] = [addr |-> 0, next |-> Null]
  <2>1. Mapping(p)[1] = "user_mapping" /\ Mapping(p) \in Nodes
    BY NodeFacts DEF Mapping
  <2> QED
    BY <1>1, <2>1
<1>6. node \in [Nodes -> [addr : {0} \cup Frames, next : Nodes \cup {Null}]]
  <2>1. \A n \in Nodes : node[n] \in [addr : {0} \cup Frames, next : Nodes \cup {Null}]
    BY <1>4, <1>5 DEF Nodes
  <2> HIDE DEF Deal
  <2> QED
    BY <1>1, <2>1
<1>7. TypeOK
  <2>1. /\ freelist_head \in Nodes /\ freelist_tail \in Nodes
    BY NodeFacts, Sizes DEF Init
  <2>2. /\ user_llpt \in [Pages -> Pte] /\ tlb \in [Pages -> Pte]
        /\ frame \in [Frames -> Page] /\ kernel \in [Pages -> Page] /\ view \in [Pages -> Page]
    BY Sizes, PageAssumption DEF Init, Page
  <2>3. evicting \in 0 .. MAX_TEST_PAGES
    BY Sizes DEF Init
  <2> QED
    BY <1>6, <2>1, <2>2, <2>3 DEF Init, TypeOK
<1>8. /\ \A p \in Pages : user_llpt[p] = NoPte /\ tlb[p] = NoPte
      /\ evicting = 0 /\ access = Idle /\ cause = "none" /\ tohost = "running" /\ view = kernel
      /\ freelist_head = Freelist(0)
  BY DEF Init
<1>9. Mapped = {} /\ Cardinality(Mapped) = 0
  <2>1. Mapped = {}
    BY <1>8, Sizes DEF Mapped
  <2> QED
    BY <2>1, FS_EmptySet
<1>10. FreeFrames
  <2>1. ASSUME NEW i \in Index, NEW j \in Index, node[Freelist(i)].addr = node[Freelist(j)].addr
        PROVE  i = j
    <3>1. /\ MAX_TEST_PAGES + Lfsr(random)[i] = MAX_TEST_PAGES + Lfsr(random)[j]
          /\ Lfsr(random)[i] \in 1 .. MAX_TEST_PAGES /\ Lfsr(random)[j] \in 1 .. MAX_TEST_PAGES
      BY <1>2, <1>4, <2>1
    <3>2. Lfsr(random)[i] = Lfsr(random)[j]
      BY <3>1, Sizes
    <3> QED
      BY <1>2, <3>2
  <2> QED
    BY <1>4, <2>1 DEF FreeFrames
<1>11. FreeListOrder /\ FramesTaken
  BY <1>4, <1>8, <1>9 DEF FreeListOrder, FramesTaken
<1>12. MappingsAgree
  BY <1>5, <1>8, Sizes DEF MappingsAgree, Pages
<1>13. Contents /\ TlbFollows /\ AccessPending /\ Phases /\ NoAssertFails
  BY <1>8, <1>9, Sizes DEF Contents, TlbFollows, AccessPending, Phases, NoAssertFails
<1> QED
  BY <1>7, <1>10, <1>11, <1>12, <1>13 DEF IInv

LEMMA InvariantHolds == Spec => [](TypeOK /\ IInv)
<1>1. TypeOK /\ IInv /\ [Next]_vars => (TypeOK /\ IInv)'
  <2> SUFFICES ASSUME TypeOK, IInv, [Next]_vars
               PROVE  TypeOK' /\ IInv'
    OBVIOUS
  <2>1. CASE Next
    <3>1. ASSUME handle_fault
          PROVE  IInv'
      BY <3>1, FaultCases, SetBitStep, MapPageStep
    <3>2. Terminated => UNCHANGED vars
      BY DEF Terminated
    <3> QED
      BY <2>1, <3>1, <3>2, TypeStep, AccessStep, EvictStep, OtherSteps DEF Next
  <2>2. CASE UNCHANGED vars
    BY <2>2, OtherSteps DEF vars, TypeOK
  <2> QED
    BY <2>1, <2>2
<1> QED
  BY <1>1, InitInvariant, PTL DEF Spec

(* Every variable keeps its type (vm.c): a page table entry names a frame, *)
(* and the list pointers name nodes.                                       *)
THEOREM TypeCorrect == Spec => []TypeOK
<1>1. TypeOK /\ IInv => TypeOK
  OBVIOUS
<1> QED
  BY <1>1, InvariantHolds, PTL

(* The program never notices the paging (vm.c, handle_fault and evict),    *)
(* for every number of pages: every page is given a frame no other has,    *)
(* and what it stored is found there.                                      *)
THEOREM PagingCorrect == Spec => []PagingInvisible
<1>1. TypeOK /\ IInv => PagingInvisible
  <2> SUFFICES ASSUME TypeOK, IInv, NEW p \in Pages
               PROVE  LET f == user_llpt[p].frame
                      IN  /\ (IF f = 0 THEN kernel[p] ELSE frame[f]) = view[p]
                          /\ tlb[p].frame \in {0, f}
                          /\ f # 0 => \A q \in Pages \ {p} : user_llpt[q].frame # f
    BY DEF PagingInvisible
  <2> QED
    BY DEF IInv, Contents, TlbFollows, FramesTaken, Mapped
<1> QED
  BY <1>1, InvariantHolds, PTL

(* None of vm.c's assertions fails, for every number of pages: the free    *)
(* list never runs out, a fault on a mapped page is for a missing bit, and *)
(* an evicted page is marked accessed and, if changed, dirty.              *)
THEOREM AssertionsHold == Spec => []NoAssertFails
<1>1. TypeOK /\ IInv => NoAssertFails
  BY DEF IInv
<1> QED
  BY <1>1, InvariantHolds, PTL

(* The loop of handle_trap that evicts the pages leaves memory with what   *)
(* the program stored, whichever pages had a frame or a dirty bit.         *)
THEOREM EvictionCorrect == Spec => []WrittenBack
<1>1. TypeOK /\ IInv => WrittenBack
  <2> SUFFICES ASSUME TypeOK, IInv, tohost = "result"
               PROVE  kernel = view
    BY DEF WrittenBack
  <2>1. \A p \in Pages : p < evicting
    BY Sizes DEF IInv, Phases, Pages
  <2>2. \A p \in Pages : kernel[p] = view[p]
    BY <2>1 DEF IInv, Contents
  <2> QED
    BY <2>2 DEF TypeOK
<1> QED
  BY <1>1, InvariantHolds, PTL
=============================================================================
