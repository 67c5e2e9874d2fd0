--------------------------------- MODULE Vm ---------------------------------
(***************************************************************************)
(* The virtual-memory test environment of riscv-tests (env/v): a test      *)
(* program runs in user mode on demand-paged memory; vm.c's supervisor     *)
(* gives every page a frame from a free list when it is first touched,     *)
(* maintains the accessed and dirty bits, and copies the pages back and    *)
(* checks the bits when the program ends.  Hardware (the page-table walker *)
(* and the TLB, with or without hardware update of the A and D bits) is    *)
(* modelled from what vm.c relies on.                                      *)
(***************************************************************************)
EXTENDS Integers, Sequences

CONSTANTS
  LfsrBits,     \* LFSR_BITS
  Words,        \* the words of a page, 0 .. n
  Values        \* the values of a word; 0 is the initial one

MAX_TEST_PAGES == 2^LfsrBits - 1
LFSR_NEXT(x) == ((x + x \div 2) % 2) * 2^(LfsrBits - 1) + x \div 2

Pages == 1 .. (MAX_TEST_PAGES - 1)
Index == 0 .. (MAX_TEST_PAGES - 1)

\* "this must be the period of the LFSR below" (env/v/riscv_test.h)
Lfsr(seed) == LET x[i \in Index] == IF i = 0 THEN seed ELSE LFSR_NEXT(x[i - 1]) IN x
ASSUME LfsrAssumption ==
  /\ LfsrBits \in Nat \ {0, 1} /\ MAX_TEST_PAGES \in Nat \ {0, 1}
  /\ \A seed \in 1 .. MAX_TEST_PAGES :
       /\ \A i \in Index : Lfsr(seed)[i] \in 1 .. MAX_TEST_PAGES
       /\ \A i, j \in Index : i # j => Lfsr(seed)[i] # Lfsr(seed)[j]
ASSUME PageAssumption == Words \subseteq Nat /\ 0 \in Values

VARIABLES
  hwad,         \* whether the hardware sets the A and D bits itself
  node,         \* the free-list nodes: of freelist_nodes and of user_mapping
  freelist_head, freelist_tail,
  user_llpt,    \* the last-level page table
  tlb,          \* the translation the hardware holds for each page
  frame,        \* the contents of the frames
  kernel,       \* the contents of the pages where the program was loaded (uva2kva)
  access,       \* the access the program is at
  cause,        \* the cause of a trap not handled yet
  evicting,     \* the next page to evict, once the program has ended
  tohost,       \* "running", or what terminate was called with
  view          \* history: what the program has stored

vars == << hwad, node, freelist_head, freelist_tail, user_llpt, tlb, frame, kernel, access,
           cause, evicting, tohost, view >>

Freelist(i) == << "freelist_nodes", i >>
Mapping(p) == << "user_mapping", p >>
Null == << "null", 0 >>
Nodes == {Freelist(i) : i \in Index} \cup {Mapping(p) : p \in Pages}
Frames == (MAX_TEST_PAGES + 1) .. (2 * MAX_TEST_PAGES)

NoPte == [frame |-> 0, a |-> FALSE, d |-> FALSE]
Idle == [page |-> 0, kind |-> "none", word |-> 0, value |-> 0]

\* vm_boot: the frames are dealt out in the order of the LFSR, from a random one on.
Init ==
  /\ hwad \in BOOLEAN
  /\ \E random \in 1 .. MAX_TEST_PAGES :
       node = [n \in Nodes |->
                 IF n[1] = "user_mapping" THEN [addr |-> 0, next |-> Null]
                 ELSE [addr |-> MAX_TEST_PAGES + Lfsr(random)[n[2]],
                       next |-> IF n[2] = MAX_TEST_PAGES - 1 THEN Null ELSE Freelist(n[2] + 1)]]
  /\ freelist_head = Freelist(0)
  /\ freelist_tail = Freelist(MAX_TEST_PAGES - 1)
  /\ user_llpt = [p \in Pages |-> NoPte] /\ tlb = [p \in Pages |-> NoPte]
  /\ \E junk \in Values : frame = [f \in Frames |-> [w \in Words |-> junk]]
  /\ kernel = [p \in Pages |-> [w \in Words |-> 0]]
  /\ access = Idle /\ cause = "none" /\ evicting = 0 /\ tohost = "running"
  /\ view = kernel

FreeList == << freelist_head, freelist_tail >>

terminate(code) == tohost' = code

\* A failed assertion prints and terminates; what the handler would do next does
\* not matter then.
assert(x) == tohost' = IF x THEN tohost ELSE "assert"

-----------------------------------------------------------------------------
(* The test program and the hardware.                                      *)

Running == tohost = "running" /\ evicting = 0 /\ cause = "none"

\* The program comes to an instruction that fetches, loads or stores.
Issue ==
  /\ Running /\ access = Idle
  /\ \E p \in Pages, kind \in {"fetch", "load", "store"}, w \in Words, v \in Values :
       /\ kind # "store" => w = 0 /\ v = 0
       /\ access' = [page |-> p, kind |-> kind, word |-> w, value |-> v]
  /\ UNCHANGED << hwad, node, FreeList, user_llpt, tlb, frame, kernel, cause, evicting, tohost, view >>

\* A translation that allows the access as it stands.
Allows(pte, kind) == pte.frame # 0 /\ pte.a /\ (kind = "store" => pte.d)

\* The page-table walk, when the TLB does not allow the access: the entry with A
\* and D set by the hardware if it does that.
Walked(pte, kind) ==
  IF pte.frame # 0 /\ hwad THEN [pte EXCEPT !.a = TRUE, !.d = @ \/ kind = "store"] ELSE pte

Complete(p, pte) ==
  /\ IF access.kind = "store"
       THEN /\ frame' = [frame EXCEPT ![pte.frame][access.word] = access.value]
            /\ view' = [view EXCEPT ![p][access.word] = access.value]
       ELSE UNCHANGED << frame, view >>
  /\ tlb' = [tlb EXCEPT ![p] = pte]
  /\ access' = Idle
  /\ UNCHANGED cause

Access ==
  /\ Running /\ access # Idle
  /\ LET p == access.page
         pte == Walked(user_llpt[p], access.kind)
     IN \/ /\ Allows(tlb[p], access.kind)
           /\ Complete(p, tlb[p])
           /\ UNCHANGED user_llpt
        \/ /\ ~Allows(tlb[p], access.kind)
           /\ Allows(pte, access.kind)
           /\ Complete(p, pte)
           /\ user_llpt' = [user_llpt EXCEPT ![p] = pte]
        \/ /\ ~Allows(tlb[p], access.kind) /\ ~Allows(pte, access.kind)
           /\ cause' = access.kind
           /\ UNCHANGED << access, frame, view, tlb, user_llpt >>
  /\ UNCHANGED << hwad, node, FreeList, kernel, evicting, tohost >>

\* The TLB may drop an entry at any time.
TlbDrop ==
  /\ tohost = "running"
  /\ \E p \in Pages : tlb[p] # NoPte /\ tlb' = [tlb EXCEPT ![p] = NoPte]
  /\ UNCHANGED << hwad, node, FreeList, user_llpt, frame, kernel, access, cause, evicting, tohost, view >>

-----------------------------------------------------------------------------
(* vm.c                                                                    *)

flush_page(p) == tlb' = [tlb EXCEPT ![p] = NoPte]

\* handle_fault for a page that has its frame: the bit that is missing is set.
OnlyAccessedBit(p) ==  \* mutant of SetBit: D is never set
  LET pte == user_llpt[p]
  IN /\ pte # NoPte
     /\ assert(~pte.a \/ (~pte.d /\ cause = "store"))
     /\ user_llpt' = [user_llpt EXCEPT ![p] = [pte EXCEPT !.a = TRUE]]
     /\ flush_page(p)
     /\ UNCHANGED << node, FreeList, frame >>
SetBit(p) ==
  LET pte == user_llpt[p]
  IN /\ pte # NoPte
     /\ assert(~pte.a \/ (~pte.d /\ cause = "store"))
     /\ user_llpt' = [user_llpt EXCEPT ![p] = IF pte.a THEN [pte EXCEPT !.d = TRUE]
                                              ELSE [pte EXCEPT !.a = TRUE]]
     /\ flush_page(p)
     /\ UNCHANGED << node, FreeList, frame >>

\* The head of the free list; the tail is forgotten when it becomes the head.
HeadStays ==  \* mutant of PopFreelist
  UNCHANGED << freelist_head, freelist_tail >>
PopFreelist ==
  /\ freelist_head' = node[freelist_head].next
  /\ freelist_tail' = IF freelist_head' = freelist_tail THEN Null ELSE freelist_tail

\* handle_fault for the first touch of a page: a frame is taken and the page's
\* contents are copied into it through the new translation, with A and D set for
\* the copy and cleared again after it.
CopyStaysCached(p) ==  \* mutant of MapPage: no flush_page after the copy
  /\ user_llpt[p] = NoPte
  /\ IF freelist_head = Null \/ node[Mapping(p)].addr # 0
       THEN terminate("assert") /\ UNCHANGED << node, FreeList, frame, user_llpt, tlb >>
       ELSE LET f == node[freelist_head].addr
            IN /\ PopFreelist
               /\ node' = [node EXCEPT ![Mapping(p)] = node[freelist_head]]
               /\ frame' = [frame EXCEPT ![f] = kernel[p]]
               /\ user_llpt' = [user_llpt EXCEPT ![p] = [frame |-> f, a |-> FALSE, d |-> FALSE]]
               /\ tlb' = [tlb EXCEPT ![p] = [frame |-> f, a |-> TRUE, d |-> TRUE]]
               /\ UNCHANGED tohost
MapPage(p) ==
  /\ user_llpt[p] = NoPte
  /\ IF freelist_head = Null \/ node[Mapping(p)].addr # 0
       THEN terminate("assert") /\ UNCHANGED << node, FreeList, frame, user_llpt, tlb >>
       ELSE LET f == node[freelist_head].addr
            IN /\ PopFreelist
               /\ node' = [node EXCEPT ![Mapping(p)] = node[freelist_head]]
               /\ frame' = [frame EXCEPT ![f] = kernel[p]]
               /\ user_llpt' = [user_llpt EXCEPT ![p] = [frame |-> f, a |-> FALSE, d |-> FALSE]]
               /\ flush_page(p)
               /\ UNCHANGED tohost

handle_fault ==
  /\ tohost = "running" /\ cause # "none"
  /\ SetBit(access.page) \/ MapPage(access.page)
  /\ cause' = "none"
  /\ UNCHANGED << hwad, kernel, access, evicting, view >>

\* handle_trap for the system call that ends the test: evict every page, ...
Ecall ==
  /\ Running /\ access = Idle
  /\ evicting' = 1
  /\ UNCHANGED << hwad, node, FreeList, user_llpt, tlb, frame, kernel, access, cause, tohost, view >>

\* memcmp: the first word in which two pages differ.
memcmp(a, b) == \E w \in Words : a[w] # b[w] /\ \A x \in Words : x < w => a[x] = b[x]

AppendFreelist(n) ==
  /\ freelist_tail' = n
  /\ freelist_head' = IF freelist_tail = Null THEN n ELSE freelist_head

EvictKeepsCopy ==  \* mutant of evict: the page is not copied back
  /\ tohost = "running" /\ evicting \in Pages
  /\ LET p == evicting
         n == Mapping(p)
         page == frame[user_llpt[p].frame]
     IN \/ /\ node[n].addr = 0
           /\ UNCHANGED << node, FreeList, tohost >>
        \/ /\ node[n].addr # 0
           /\ assert(user_llpt[p].a /\ (memcmp(page, kernel[p]) => user_llpt[p].d))
           /\ AppendFreelist(n)
           /\ node' = [m \in Nodes |->
                         IF m = n THEN [node[m] EXCEPT !.addr = 0]
                         ELSE IF m = freelist_tail THEN [node[m] EXCEPT !.next = n] ELSE node[m]]
  /\ evicting' = evicting + 1
  /\ UNCHANGED << hwad, user_llpt, tlb, frame, kernel, access, cause, view >>
evict ==
  /\ tohost = "running" /\ evicting \in Pages
  /\ LET p == evicting
         n == Mapping(p)
         page == frame[user_llpt[p].frame]
     IN \/ /\ node[n].addr = 0
           /\ UNCHANGED << node, FreeList, kernel, tohost >>
        \/ /\ node[n].addr # 0
           /\ assert(user_llpt[p].a /\ (memcmp(page, kernel[p]) => user_llpt[p].d))
           /\ kernel' = [kernel EXCEPT ![p] = IF memcmp(page, kernel[p]) THEN page ELSE @]
           /\ AppendFreelist(n)
           /\ node' = [m \in Nodes |->
                         IF m = n THEN [node[m] EXCEPT !.addr = 0]
                         ELSE IF m = freelist_tail THEN [node[m] EXCEPT !.next = n] ELSE node[m]]
  /\ evicting' = evicting + 1
  /\ UNCHANGED << hwad, user_llpt, tlb, frame, access, cause, view >>

\* ... then terminate(n) with the number the program passed.
EndOfTest ==
  /\ tohost = "running" /\ evicting = MAX_TEST_PAGES
  /\ terminate("result")
  /\ UNCHANGED << hwad, node, FreeList, user_llpt, tlb, frame, kernel, access, cause, evicting, view >>

\* An illegal instruction (floating point without an FPU) is not delegated by
\* medeleg: it goes to trap_vector and wtf, never to handle_trap.
wtf ==
  /\ Running /\ access = Idle
  /\ terminate("wtf")
  /\ UNCHANGED << hwad, node, FreeList, user_llpt, tlb, frame, kernel, access, cause, evicting, view >>

\* terminate loops for ever.
Terminated == tohost # "running" /\ UNCHANGED vars

Next == Issue \/ Access \/ TlbDrop \/ handle_fault \/ Ecall \/ evict \/ EndOfTest \/ wtf \/ Terminated

\* The processor keeps executing, in the program and in the trap handler.
Spec == Init /\ [][Next]_vars /\ WF_vars(Access \/ handle_fault) /\ WF_vars(evict \/ EndOfTest)

-----------------------------------------------------------------------------

\* The program never notices the paging: what it has stored in a page stands in
\* the page's frame once it has one and where the page was loaded before, no two
\* pages share a frame, and the TLB never leads elsewhere.
PagingInvisible ==
  \A p \in Pages :
    LET f == user_llpt[p].frame
    IN /\ (IF f = 0 THEN kernel[p] ELSE frame[f]) = view[p]
       /\ tlb[p].frame \in {0, f}
       /\ f # 0 => \A q \in Pages \ {p} : user_llpt[q].frame # f

\* None of the assertions of handle_fault and evict fails, with or without
\* hardware A and D bits and whatever the TLB holds: the free list has a frame
\* for every page, a fault on a mapped page is for a missing bit, and a page that
\* was used is marked accessed and, if it was changed, dirty.
NoAssertFails == tohost # "assert"

\* When the test has ended with a result, the memory where it was loaded holds
\* what it stored.
WrittenBack == tohost = "result" => kernel = view

\* An access is completed after at most a few faults; the handler does not fault
\* on the same bit for ever.
AccessesComplete == (access # Idle) ~> (access = Idle)
=============================================================================
