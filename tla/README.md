# Tartaruga: a verification project in TLA+

Tartaruga is a small in-order-issue RISC-V core (a subset of RV32I plus MUL) in
SystemVerilog, simulated with Verilator. Instructions are fetched through an
instruction cache, decoded, executed in one cycle (or five for MUL), pass a memory
stage with a store buffer and a data cache, write back to a reorder buffer in any
order and commit in program order. A taken branch is noticed only when it commits;
everything younger is then flushed.

This directory models the core, the simulator around it, and the two parts of the
`riscv-tests` in the repository that have state of their own: the multi-threaded programs and
the virtual-memory test environment. TLC checks the models on small instances. For
instances of every size TLAPS proves the safety properties of the pipeline and of the two ring
buffers inside it, that the rings implement their abstract specifications, and the safety
properties of the fetch stage, the data cache, the loader and the virtual-memory handler, that
the simulator's commit log and pipeline trace are right, and that the threads' barriers separate
and do not block.

Contents: [inventory](#inventory) · [modules](#modules) · [runs](#runs) ·
[findings](#findings) · [proofs](#proofs) · [not modelled](#not-modelled) · [plan](#plan)

## Inventory

| Component | State | Operations | Correct when |
|---|---|---|---|
| Fetch stage (`fetch.sv`) | program counter, instruction id | advance, hold, redirect on a committed taken branch | it delivers the instruction at its program counter |
| Instruction cache (`icache.sv`) and its memory (`imem_wrapper.sv`) | two ways per set, a victim bit, a pending flag; a request and an answer delay line | look up, request a line, fill | a line sits under its own tag, in one way only; no request goes to a busy memory; a miss ends |
| Decoder, immediates (`decoder.sv`, `immediate.sv`) | none | a combinational table | each format gives its fields and its immediate; an illegal word is a NOP; only registers that are read are named as sources |
| Datapath (`datapath.sv`) | the registers between stages | stall, bypass, flush | operands are those of sequential execution; nothing is lost; the wrong path never commits |
| Execute (`exe.sv`, `mul.sv`, `alu.sv`, `branch.sv`) | a metadata pipe of five stages, the multiplier's delay line | shift, insert, collide | two instructions never leave at once; a product leaves with its instruction; results and branch outcomes are those of the instruction set |
| Memory stage (`mem.sv`) | none of its own | choose between load and store, bypass, stall | a load sees the youngest older store |
| Store buffer (`store_buffer.sv`) | a ring of slots, head, tail | accept, mark committed, mark discarded, drain, drop, search | memory receives the committed stores, once and in order |
| Data cache (`dcache.sv`) and its memory (`dmem_wrapper.sv`) | lines, a three-state controller; a request and an answer delay line | hit, miss, fill, write through | loads return the last store; fills carry their own line |
| Reorder buffer (`rob.sv`) | a ring of entries, head, tail | allocate, complete, commit, flush, search for a producer | entries are a window in program order; commits are in order |
| Register file (`regfile.sv`) | registers | write at commit, read | it holds what committed |
| Simulator loop (`sim_main.cpp`) | cycle counters | reset, tick, watchdog, report | it stops a core that no longer commits, and no other |
| Memory and loader (`unified_mem.cpp`, `elf_reader.cpp`) | an array of words, the position in the file | read, write, copy a section | the core starts with the program in memory and nothing else |
| Trace writers (`commit_log.cpp`, `kanata.cpp`) | the stage of each instruction id, text files | print a commit, print the stage changes of a cycle | each committed instruction has its line, and a lane through all stages |
| Virtual-memory tests (`riscv-tests/env/v`) | page table, free list, copies of pages | boot, fault, evict, terminate | a test does not notice the paging, and the checks of the A and D bits do not fail |
| Multi-threaded programs (`riscv-tests/mt`, `benchmarks/mt-*`, `benchmarks/common/util.h`) | the result, copies of an operand, a barrier per translation unit | block operations, barrier, verify | every element is computed once from everything it needs; no core waits for ever |

All parts of the core share one clock. In each cycle every block computes its outputs from its
registers and from the outputs of others, and then all registers change together. The
difficulty is not thread interleaving but that several things happen to one piece of
state in one cycle (allocation, late write-back, commit and flush of the same ring),
that stages stall independently, and that an instruction which was flushed keeps
moving through execute and memory and is recognised later only by its reorder buffer
index. The memories answer after a delay, without naming the request they answer.

The simulator calls the core once per clock edge; the core calls the memory and the trace
writers back. The programs of `riscv-tests/mt` are where threads really interleave: every
core runs the same kernel on its share of the data, between barriers. In `env/v` the actors
are the test program, the page-table walker with its TLB, and the trap handler.

The hazards that follow from this are listed with their lines under `hazards` in
`PROJECT.json`.

## Modules

One step of a module of the core is one rising edge of `clk_i`. Operators that end in `_o`,
and others that carry a signal's name, are combinational signals; `Clock` or `Cycle`
is the edge. A definition keeps the name of the signal or register it stands for.

| Module | Models | Remarks |
|---|---|---|
| `ROB` | `rob.sv` | with an environment that may write back to any entry in any cycle |
| `InstrQueue` | – | what the reorder buffer promises: a bounded FIFO queue of instructions |
| `StoreBuffer` | `store_buffer.sv` | with an environment that commits in order and flushes |
| `StoreQueue` | – | what the store buffer promises: two FIFO queues, committed and speculative, the first of which is written to memory |
| `Core` | `datapath.sv`, `exe.sv`, `mul.sv`, the control of `mem.sv`, `regfile.sv` | composes instances of `ROB` and `StoreBuffer`; the caches are two ready inputs |
| `DCache` | `dcache.sv`, `dmem_wrapper.sv`, the cache port of `mem.sv` | |
| `Fetch` | `fetch.sv`, `icache.sv`, `imem_wrapper.sv` | |
| `Decoder` | `decoder.sv`, `immediate.sv` | operators: both are combinational |
| `Branch` | `branch.sv` | operators; extends `Decoder` |
| `Execute` | `alu.sv`, the operand choice of `exe.sv`, the result choice of `mem.sv` | operators; extends `Branch` |
| `Isa` | – | what the instructions mean, stated by mnemonic and by bit of the word |
| `InstrPath` | the path of one instruction from decode to its result | composes `Decoder` and `Execute`, compares with an instance of `Isa` |
| `Sim` | `sim_main.cpp` from the reset on, `commit_log.cpp`, `kanata.cpp`, `$finish` of `mem.sv` | extends `Core`; a step is one turn of the loop, that is both edges |
| `Loader` | `main` up to the reset, `elf_reader.cpp`, `unified_mem.cpp` | a step is one word written or one section passed |
| `Vm` | `env/v/vm.c`, the LFSR of `riscv_test.h`, `memcmp` | a step is one access of the program, one fault handled or one page evicted |
| `MtPrograms` | the kernels `mt/*_matmul.c` and `mt/vvadd*.c` | operators: for each kernel the operations of one core, written with the kernel's loops |
| `Mt` | `thread_entry` of `mt-matmul.c` and `mt-vvadd.c`, `barrier` and `verify` of `util.h` | extends `MtPrograms`; a step is one operation of one core, or one access of the barrier |
| `ROBProofs`, `StoreBufferProofs`, `CoreProofs`, `FetchProofs`, `DCacheProofs`, `LoaderProofs`, `VmProofs`, `MtProofs` | – | theorems and proofs |
| `MCROB`, `MCStoreBuffer`, `MCCore`, `MCDCache`, `MCInstrPath`, `MCSim`, `MCLoader` | – | values of the constants for TLC; `MCCore` also chooses the kind of program |

Definitions marked as mutants in comments are not part of a model: each is a plausible
slip in the definition that follows it, and is used to show that a property would
notice.

**Data abstraction.** `ROB` drops `pc`, `instr` and `new_pc`, which the buffer only
carries; `kanata_id`, which the code itself carries for its trace, identifies the
instruction. In `Core` the result of an instruction is a value that belongs to it alone
(`Value(id)`), so "the right operand" means "the result of the right instruction"; 0
stands for a value that is no instruction's result, such as a reset register or an
address. The program is arbitrary: any instruction of `Instrs` may arrive in any cycle,
its branch outcome and address chosen with it. In `Fetch` the content of a line is the
line's number. In `DCache` lines hold words. `Core` thus says when and for whom a value is
computed, `InstrPath` which value it is: it has one instruction in flight and keeps the
fields of the word and the values of the registers. `XLEN` is the width of `bus32_t`.

In `Sim` a trace line is its command, id and stage; `lane` is what a reader of the trace knows
of each id. In `Loader` a byte of a section is the pair of the section and its offset, so a byte
in memory shows where it came from. In `Vm` a page is two words of two values; `pf_filter` and
`trap_filter` answer 0, as `riscv_test.h` defines them for tests that do not replace them. In
`MtPrograms` an operation is a set of rows and columns of the result and the set of products that
are summed into them; a product is a number of its own, so that a missing or repeated one changes
the sum. One operation takes one step (an accumulation two: the read, then the write): two cores
that touch the same data in between are reported as a race, and without a race the steps inside
an operation cannot be told apart. `barrier` is a static function of a header with static
variables, so the kernel's file and the program's file have one barrier each.

**History variables.** `Core` adds `last_writer` (what sequential execution left in each
register), `shadow_id` (the oldest taken branch in flight) and `path_id` (the first
instruction of the current path); together the last two tell whether an instruction is
on the wrong path. Its `clean` holds until an entry of the reorder buffer is given to a new
instruction while an older one is still on its way to it (`EntryReused`), its `dropped` from the
first multiplication that leaves execute in a cycle in which memory stalls. `DCache` adds `arch`,
the memory as the accepted stores left it, and `asked` and `clean`, which tell whether a fill is of the
line that was requested.
`Sim` adds `lane`, `Vm` adds `view` (what the program stored), `Mt` adds `raced`.
None of them is read by the model of the code. The environment parts are
`kanata_id_counter` in `ROB` (the fetch stage's counter), and `pending` (the slot numbers
the reorder buffer holds) and `written` (what the data cache took in this cycle) in
`StoreBuffer`; `Core`, where the reorder buffer itself is, leaves the last two empty.

**Reset.** Some registers have no reset value (the last register of the register file,
`store_buffer_idx`, the wrappers' answer pipes). `ROB` lets `store_buffer_idx` start
with any value; elsewhere they start at 0, as in the Verilator build. `decode_to_exe_q` is
reset to zeroes, an instruction that is not valid; the models start it as `NOP_INSTR`,
which is not valid either and which the first cycle without an instruction puts there.

## Runs

Passing runs:

| Run | Question | Bounds and why they suffice |
|---|---|---|
| `rob` | Does the ring survive every mix of allocation, write-back, commit and flush? Are fullness and the hazard search exact? Does it implement `InstrQueue`? | 4 entries, 5 instructions of three kinds: the ring wraps, fills, and is refilled after a flush |
| `store_buffer` | Window, slot numbers, bypass, `StoreQueue`, progress | 3 slots, two addresses, two values; unbounded run. Discard bits may name extra slots, as `rob.sv` can |
| `core` | Results, operands, the wrong path, lost instructions, stores and loads; does the oldest instruction always commit? | reorder buffer of 4, store buffer of 3, fetch and cache delays anywhere. Four kinds of program: 5 instructions of additions, branches and jumps; 6 with MUL, which takes 5 cycles as in the code; 5 with loads, stores to two addresses and taken branches, enough to fill, wrap, drain and flush the store buffer; 5 of all kinds, in which multiplications meet flushes and memory stalls |
| `dcache` | Loads and stores back to back, stores taking the port from waiting loads: data, fills, write-through, and does every request end? | 1 set, 2 tags, 1 word, delay lines of 3: lines evict each other, and a store's repeated writes overlap with what follows |
| `instr_path` | Does an instruction compute what the instruction set says? Is an illegal one a NOP? | all nine opcodes and two illegal ones, every func3, legal and illegal func7; registers 0, 1 and 18 with small, most negative and -1 values; two program counters, one at the end of the address space. Words of 30 bits, because TLC's integers have 32 with the sign; every immediate bit below 30 counts |
| `fetch` | Branches at any cycle of a miss | 1 set, 3 tags, so two ways compete for three lines; 2 words a line, delay lines of 3 |
| `sim` | Does the watchdog stop only what has ended? Is the commit log the program? Does the simulation end at a committed store? Is the trace complete? | 5 instructions of four kinds, caches that answer within 2 cycles, watchdog of 13 |
| `loader` | Is the program in memory when the core starts, and nothing else? | 6 words of memory in an address space four times as large; two sections with every size up to 8 bytes, adjacent, apart, at an odd address, across the end of the memory and beyond it |
| `vm` | Does a test notice the paging? Can an assertion of the handler fail? Are the stores copied back? Does an access ever end? | an LFSR of 2 bits, so 2 pages and 3 frames from each of the 3 starting points; unbounded run |
| `mt` | Which kernels suit the data they are given? Do these compute the whole result without a race, and does every core get to its end? | all 49 programs on 1 and on 2 cores (`spike -p2`); matrices of 16, as built, and of 32, for which many kernels are written; vectors of 16 and of 24, which like the built 1000 is a multiple of 8 and not of 16 |

The properties of `core` name the known failures and claim everything else, in programs that mix
all kinds of instruction. `OwnResultsWhileClean`, `OperandsRight`, `WrongPathNeverCommits` and
`SlotsMatchStores` hold while `clean` does: what goes wrong afterwards is `OwnResults`, which
`stale_writeback` shows violated. `FinishIsCommitted` and `TracedCompletely` of `Sim` hold that long
for the same reason: a store of the wrong path may then complete another store's entry, whose commit
marks the slot of the wrong one, and with the finish address in that slot the simulation ends;
larger instances than the run's show it without the guard. `LogInOrder` needs no guard, since the ids
of the log come with the entries and not with the write-backs. `NothingLost` and `OldestCommitsOtherwise` hold until a multiplication
is `dropped`. `LoadRightOtherwise` leaves out a full store buffer and a discarded slot with the
load's address, and `LoadRightWhileClean` stops at the first fill of a line other than the one that
was requested (`DCache`'s own `clean`). `RunsLikeIsa` names the encodings listed among the remarks
below, `RaceFree` the two kernels that race and those that do not suit their data (`Suits`),
`OutcomeExplained` what becomes of the latter, and `SectionsInPlace` the layout it relies on. `MaxId` and a program's length count instructions; in
`Sim`, `SLOW` bounds the caches' delay.

**The watchdog.** The longest time without a commit that `Sim` reaches with these instructions is
4 · `SLOW` + 5 cycles: when a taken branch commits, two loads of the wrong path are still on their
way through the memory stage and hold up fetch; the first instruction of the new path is a load as
well, and leaves decode only when the second one has been fetched. For the run's `SLOW` of 2 that
is 13, the run's watchdog. Its programs of 5 instructions do not get there themselves; with a sixth
one a watchdog of 12 is too short and `WatchdogJust` fails. For the code's 100 cycles the formula,
which is a reading of these small instances and not proved, gives that a program is safe as long
as neither cache keeps the core waiting longer than 23 cycles. A miss takes the two delay lines of
the wrapper, five stages each, and a few cycles more; a fetch that is redirected while a line is
under way waits for two.

**The size of the matrices.** `mt-matmul.c:52` hands every kernel the `DIM_SIZE` of its data set,
which is 16 (`dataset.h:8`). 23 of the 44 kernels have loop bounds for 32 x 32 (`Sized32`), and with
the built size they name rows, columns or products that the matrices do not have. The run takes all
kernels through both sizes. What such an access meets in memory, another row that may belong to the
other core or what lies behind the array, depends on the layout, so the run of a program ends at the
first operation that is not `InMatrix`: it `GoesAstray`. An element that is read ahead and not used,
as `af_matmul` does, is no such operation. `Suits` lists the kernels and
sizes from their sources, and `OutcomeExplained` shows that the list is exact: every program
off it goes astray, whatever the interleaving, and every one on it stays inside and passes, unless
it raced. `RaceFree` speaks of the programs that suit their data.

**Fairness.** The clock ticks. In `Fetch` and `DCache` that is weak fairness of `Next` for the
registers of the cache and its wrapper: a tick that changes them happens; no branch and no
request is ever forced to come. In `Core` and `StoreBuffer` the caches are inputs; weak
fairness of a tick in which the data cache is ready (`MCCycle(TRUE)`, `ReadyCycle`) says that it
does not refuse for ever, and in `Core` that an instruction is delivered as long as nothing else
can move and the program has one. The cache runs show both: `RequestsServed` (a store at
the port is accepted in the end, and a load is answered or gives way to a store) and
`MissServed`. In `Vm` the processor keeps executing: the access at hand, its faults and the
evictions of the end go on. `Sim`, `Loader` and `Mt` state no fairness. In `Mt` every step but
those of a halted machine advances some core, so `NoneWaitsForever`, that some core can always go
on until all have exited, is what termination needs.

**Mutants.** Every property of every passing run is broken by a mutation of the code
listed under `mutants`.

## Findings

Runs that end in a violation state what the code's own comments, README or programs
expect. In short:

| Run | The code |
|---|---|
| `stale_writeback` | accepts the write-back of a flushed MUL for the instruction that has its entry now |
| `lost_mul` | drops a MUL that leaves execute in a cycle in which the memory stage stalls; the core then stops |

The details, with the lines and the counterexamples in words, are under `findings` in
`PROJECT.json`. Further remarks, which no run of their own shows:

- A flush empties the reorder buffer and the fetch-to-decode register (`datapath.sv:86`), but
  `decode_to_exe_q` keeps its instruction while the memory stage stalls (`datapath.sv:215`), and both
  pointers move to entry 0. The kept instruction may thus complete an entry of the new path with the
  wrong result, without any multiplication: `OwnResults` fails for programs of 8 out of LUI, a taken
  BEQ and LW, with a reorder buffer of 4. There the branch is in the last but one entry, a load behind
  it misses, and the instruction behind the load is in entry 0.
- The bypass search stops before `tail_ptr_q` (`store_buffer.sv:127`); when the buffer is full
  that slot holds the oldest store, and a load of its address reads the cache instead. Checking
  `LoadSeesYoungestStore` in place of `LoadRightOtherwise` shows it, with a reorder buffer of 8
  and programs of 6 out of MUL, LW and stores to both addresses.
- `LoadSeesYoungestStore` fails in a second way: the bypass search (`store_buffer.sv:128`)
  does not look at `discarded`, so a load on the new path may get the data of a flushed store
  that waits behind a committed one. Programs of JAL, SW and LW with a buffer of 4 show it.
- In MISS any `mem_rsp_valid_i` ends the wait (`dcache.sv:83`), although a write that hits is sent
  again in every cycle until it is accepted and its answers keep coming afterwards: a load that
  misses right after a store takes one of them for its own and fills its line with the last line
  that was read. Checking `LoadReturnsStored` in place of `LoadRightWhileClean` shows it.
- `LoadReturnsStored` fails in a second way: a store that commits while a load's miss is under
  way takes the address port (`mem.sv:59`), and the load's line is filed under the store's tag.
- A load answered by the store buffer while the cache is not ready writes back in several
  consecutive cycles, always with the same result while its entry lives (`OwnResultsWhileClean`).
- The register file never writes x31: the loop of `regfile.sv:25` ends at `REG_COUNT-2`.
  `OperandsRight` therefore speaks of register `REG_COUNT - 1` only while its producer is in the
  reorder buffer, where the bypasses still give the right value.
- A branch offset is extended from bit 7 (`immediate.sv:21`) and bit 31 is not used, so a branch
  of 2 KiB or more goes to the wrong place (`LongBranch` in `InstrPath`).
- The README lists LW and SW and says of an illegal instruction "Por ahora sera una NOP", but
  `decoder.sv:344` and `:353` do not look at func3: the loads and stores of other widths run as
  LW and SW (`OtherWidth`).
- "hardwire source registers to x0 if there is no reading from there" (`decoder.sv:433`) misses
  JALR, whose second source stays the low bits of its immediate; decode may wait for a register
  that is not needed. JALR also keeps bit 0 of its target (`OddTarget`).
- The victim bit of the instruction cache is cleared by a hit in either way, so it does not
  track recency; this costs misses, not correctness.
- `load_elf` returns 1 when it cannot open the file (`elf_reader.cpp:98`), which its caller takes
  for success: the simulation then runs on an empty memory instead of stopping with the message of
  `sim_main.cpp:33`.
- The loader's last word of a section whose size is no multiple of 4 is read past the end of the
  buffer, and the remaining bytes are then written once more at the next address
  (`elf_reader.cpp:61`), which is in `.bss` when the section is `.data`. `SpillIsBounded` says how
  far this goes, `SectionsInPlace` when the program survives it. Only `.text` and `.data` are loaded;
  `.rodata` or `.text.init` are not.
- "Execution killed for more than 100 cycles" is printed from 100 on, while the loop goes on until
  101; a program that finishes exactly then would be reported as killed (`sim_main.cpp:73`, `:106`).
- In the pipeline trace the first instruction has the id of the empty pipeline registers, and its
  lane never ends. An instruction that has committed may be retired again, as flushed, when a
  pipeline register still holds its id at a later flush. A load served by the store buffer while the
  cache is busy stays in memory after its write-back, and its lane goes back to M.
- The comment "1MiB memory" (`unified_mem.cpp:10`) stands beside an array of 1 GiB, and "Dump
  entire memory" (`:61`) beside a loop over its first 1 MiB.
- 23 of the 44 matrix kernels (ad, af, al, am, at, av, ay, az, bf, bk, bo, br, ce, cf, cl, cm, cv,
  cy, df, do, dr, du, dv) compute a wrong result or leave the array with the 16 x 16 data set that
  `mt-matmul` includes, and in some, such as al and cl, a core then writes elements of the other
  core's rows. vvadd1 leaves the array for sizes that are no multiple of 8 · cores (1000
  on two). The run `mt` shows all of them going astray (`OutcomeExplained`). vvadd3 leaves out the
  last `n % ncores` elements.
- cf and cm let both cores add to the same rows without a lock. They start from opposite ends and
  usually pass; the run reaches the lost update with the size of 32 (`SharedUpdates`).
- The branch of `handle_trap` for illegal instructions (`vm.c:219`) is never reached: `medeleg`
  (`vm.c:307`) does not delegate the cause, and such an instruction ends the test with 841.

## Proofs

The theorems hold for every value of the constants under the assumptions that the modules name:

| Module | Assumed of the constants |
|---|---|
| `ROB`, `StoreBuffer` | sizes of at least 2; 0 among registers, addresses and data; a store buffer index exists |
| `Core` | sizes of at least 2, a multiplication of at least 2 cycles; of the instructions what `decoder.sv` makes of every word: only jumps and branches are taken, and they are no loads, stores or multiplications; what writes the link address is taken; a store writes no register; stores and multiplications write back the result of execute (`Decodable`; `DecoderFitsPipeline` proves it of every word) |
| `Fetch`, `DCache` | at least one set, tag and word, and a latency of at least 2 and 1; a request that is absent is none of the requests |
| `Loader` | a memory of at least one word; tables are sequences of section headers |
| `Vm` | at least 2 pages, one value is 0, and from every seed the generator visits every page once |
| `Mt` | at least one core; the cores of a program call the barriers of the two units in the same order, and all before their exits (`SameBarriers`); in the programs that suit the size of their data, other than cf and cm, conflicting operations of two cores have a barrier between them (`ConflictsApart`) |

The assumption on the generator is a property of the code's feedback taps. TLC evaluates it for
the run's two bits; it is true for the six bits of `riscv_test.h` and false for five, for which
those taps do not have the full period. `SameBarriers` and `ConflictsApart` are properties of the programs
alone, without their interleavings: TLC evaluates them for all 49 on one and two cores with both
sizes of data.

**`ROBProofs`.** The inductive invariant is `IInv == TypeOK /\ WindowInv /\ AgeOrder`:
the valid bits are exactly the ring window from head to tail, and ids grow along it.
Neither half stands alone. The full test and the flush keep the window only because
`head = tail` means empty, which is the window's own statement; the ages are ordered only
because the window says where the new entry goes. `NextEntries` reduces the four nested
updates of the `always_comb` block to one formula for the valid bit and one for the id;
`WindowStep` and `AgeStep` then are case splits in linear arithmetic.

- `TypeCorrect`, `WindowCorrect`, `AgeCorrect`: the three parts.
- `CommitCorrect`: `InOrderCommit`, an action property: what a commit leaves behind is
  younger, and only the head or, behind a taken branch, younger entries disappear.
- `FullCorrect`: `rob_full_o` exactly at `ROB_SIZE - 1` entries, by counting the window.
- `HazardCorrect`: the backward search finds the youngest producer. The index it skips is
  the tail, which the window shows to be free.
- `RefinementCorrect`: the buffer implements `InstrQueue`. The queue is the window read from the
  head: `Places` gives the ring position of each of its places, `PlacesStep` how they shift when
  an entry is taken or freed, and `ViewStep` what is then read in them. `EdgeCycles` finds for
  each edge the step of the queue: allocation, completion and commit at once, or the squash
  behind a taken branch (`FlushSquashes`).

**`StoreBufferProofs`.** The same plan for a ring that may be full: `NextSlots` gives
each flag of a slot after the edge, `WindowStep` splits on accepting and freeing.

- `TypeCorrect`, `WindowCorrect`: types, and the window with `Count` slots.
- `BypassCorrect`: the search returns the youngest match while a slot is free. The
  hypothesis `req_ready_o` is needed: the first of the remarks above is its failure.
- `PendingCorrect`: the slot numbers that the reorder buffer holds are exactly the valid slots
  that are neither committed nor discarded, in ring order. The window is needed to see
  that a new slot is none of them and younger than all.

`RefinementCorrect`: the buffer implements `StoreQueue`. The abstract queues are the committed
and the undecided slots, listed in ring order from the head. That there is only one such list
(`ListUnique`) turns the refinement into a question about sets of slots: a commit moves the first undecided slot to the end of the committed ones, since
`PendingInv` puts every undecided one behind them, and a write takes the first committed one
because it is at the head. `Listed`, that the committed slots have a list at all, is the
invariant that this needs on top of the others.

**`CoreProofs`.** All invariants of the run `core`, for every program, every size of the two
buffers, every length of a multiplication and all delays. The theorems about `ROB` and
`StoreBuffer` do not carry over, since there the rings meet environments of their own; the shape of
their proofs does. `IInv` has these parts:

- `TypeOK`, `Ring` and `SB!WindowInv`: the windows of the two rings, and in the reorder buffer the
  ids in the order of decode, between `path_id` and what decode holds. An allocation needs
  that the stall on a full buffer is exact, a flush that the window may be emptied as a whole.
- `Travelling`: every instruction in a stage behind decode is older than what decode holds, and if
  it still has an entry, it is the one whose number it carries. The pipeline compares numbers only;
  that these mean the same instruction is what a flush with reset pointers can break.
- `StageResults`: each stage holds the result and the outcome of its own instruction; for a
  multiplication this ties the two delay lines of execute to each other.
- `CleanInv`: while `clean` holds, no entry is named by a stranger, entries have their own results,
  the oldest taken branch is in the buffer, and the register file is what sequential
  execution left.
- `NothingLost` is inductive with the parts above.
- `Order`: execute's pipe holds nothing younger than the instruction in front of it, and the memory
  stage something older. This is not obvious: a multiplication that waits in front of execute
  enters the pipe in every cycle in which memory stalls.
- `StoreSlots`: while `clean` holds, the stores that have been written back are older
  than whatever may take the next slot, write back once and never flush, and their slots are the
  undecided ones in the order of their ids. `Order` says which store is next; without it the slots
  could be taken out of order.

`clean` and `dropped` are not there to make the proof go through: without them the properties are
false, as the findings show.

- `TypeCorrect`, `RingCorrect`: types, and window and order of the reorder buffer. No run lists these two.
- `ResultCorrect`, `CommitCorrect`: entries complete with their own results, and the wrong path
  never commits.
- `LossCorrect`: no stall drops an instruction.
- `OperandCorrect`: the four sources of an operand (the pipeline, a result in the reorder buffer,
  one that commits now, the register file) together give what sequential execution gives, while
  `clean` holds; for the last register, while its producer is in the reorder buffer.
  `SearchFinds` shows that the backward search of the ring meets the youngest producer, and
  `SolvedRight` that a value taken from a stage is that producer's.
- `SlotsCorrect`, `LoadCorrect`: the stores in flight and the undecided slots agree while `clean`
  holds, and a load sees the youngest older store but in the two cases of the remarks. This is what `StoreBuffer` assumes of its environment.

`CoreProofs` also proves about `Sim`, whose state it extends with the inductive invariant `SimInv`.
`LoopRunsPipeline` says that a turn of the loop is a cycle of the pipeline, so all of the above
holds in the simulator. `SimInv` adds to `IInv`:

- `Log`: ids are handed out without gaps, so the entries of the reorder buffer, and decode behind
  them, hold the successors of what commits next. After a flush that is the first id of the new path.
- `SlotValues`: while `clean` holds, an undecided slot holds its own store's data and
  a committed one the data of a store in the log.
- `TraceIds`, `TraceStages`: which stage the table of `kanata.cpp` and the reader of the trace have
  for the instruction in each register. The trace is a cycle behind, a multiplication that waits in
  front of execute is also in its pipe, and a load may go back from write-back to memory, so each
  register has a range of stages. Followed are the instructions that will commit or be flushed, but
  the one with id 0.
- `Alone`, `TraceBranches`: at a flush the trace retires as committed only the branch it has in
  write-back. This needs that no stage above still holds the branch when its entry is completed.

- `LogCorrect`, `FinishCorrect`, `TraceCorrect`: the run's invariants but the watchdog's.

The last section is about where the instructions of `Core` come from. It instantiates `Branch`, and
with it `Decoder`, and `Isa` for 32 bits, the width that TLC cannot reach, and lets the word and the
operands be any. `IllegalShape` to `JumpShapes` say what the decoder's case statement gives for each
opcode, and the tables of `Isa` are compared with them as relations between mnemonic, func3 and func7.

- `DecoderFitsPipeline`: what the theorems above assume of the instructions holds of every decoded
  word, with the outcome that `branch.sv` computes.
- `IllegalIsNop`: a word that is not in the instruction set writes, stores, jumps and reads nothing.
  Loads, stores and JALR are excepted, of which the decoder does not look at func3: see the
  remarks above.
- `DecodesAs`: an arithmetic word or a branch is decoded as the mnemonic it encodes, and a branch is
  taken when the instruction set says so. Of the values that operations compute, and of immediates,
  only the run `instr_path` speaks.

**`FetchProofs`.** A redirect in the middle of a miss leaves a request under way that nobody
waits for. The invariant says that there is at most one (`OneRequest`), that answers and
lines hold the data of their own address (`HonestAnswers`, `HonestLines`), and
that the line asked for is not in the cache (`AskedIsMissing`), without which the fill could
duplicate it.

- `FetchCorrect`, `NoDuplicates`: the two properties of the run.
- `NeverSentWhileBusy`: the cache never sends while the wrapper is not ready. The code has no
  handshake there and relies on it.

**`DCacheProofs`.** `MissAsked` and `FillAsked` say of a miss that has asked for its line that the
read or its answer is the only thing under way in the wrapper. As long as `clean` holds, that is
until an answer is taken for a line other than its own, every line, every write under way and
memory agree with what the accepted stores left, except for the store that is at the port
(`CacheCurrent`, `WritesCurrent`, `MemoryCurrent`). Two things end `clean`: the stray answer to a
write, taken by a later miss of any line, and a change of the address at the port under a miss; both
are among the remarks above.

- `FillCorrect`: a fill whose line is still the one at the port has memory's data.
- `LoadCorrect`: loads return the last store, while `clean` holds.
- `WriteThroughCorrect`: memory has every accepted store, while `clean` holds, when the wrapper is
  idle and no store is at the port.

**`LoaderProofs`.** `Cursor` ties `addr` to the offset in the section. `InPlace` says of every
byte copied so far that memory holds it, and `NoStray` that nothing else was written. A word
written past the end of one section is harmless in a later one because that one is copied
afterwards, which is why `InPlace` speaks of the bytes done and not of whole sections.

- `PlaceCorrect`, `SpillCorrect`: the two properties of the run, for tables of any length.

**`VmProofs`.** The invariant follows each frame through its life: it is in the free list
(`FreeFrames`, in the order of `FreeListOrder`) or mapped by one page (`FramesTaken`,
`MappingsAgree`). `Contents` says where a page's last data is: in its frame when it is mapped,
and in its backing store when it is not, when its D bit is clear or when it has been evicted.
`TlbFollows`, `AccessPending` and `Phases` hold the TLB, the faulting access and the evictions at the end together; `NoAssertFails` is
inductive only along with all of them.

- `PagingCorrect`, `AssertionsHold`, `EvictionCorrect`: the three invariants of the run.

**`MtProofs`.** `Round(u, r)` describes a barrier that has been released r times: the cores outside
have passed it r times and hold its sense; those inside have arrived and hold the other one, or have
yet to notice the release and will have passed it r times once they do; `count` is the number of
arrivals; and a core that resets the counter or releases has waited for all the others. The last
clause is what lets `count` and `sense` be used again at once. The proof of this part never looks
into a program, so it holds for all; the two barriers of a program are independent (`OtherUnit`).
`Positions` says where a core is in its program. Of the programs the two assumptions are used and
no more. When every core waits, all have left the same number of barriers of each unit, hence wait
in the same one, and `ReleaseCorrect` ends the wait. When two cores are both at an operation on
data, they have left equally many barriers of each unit too (`DataBetweenBarriers`), so no barrier
lies between these operations, and by `ConflictsApart` they do not conflict.

- `BarrierCorrect`: no core leaves before all have entered.
- `ReleaseCorrect`: when all cores are in the barrier, one of them releases it or
  sees that it has been released.
- `RaceFreeCorrect`: no two cores are ever at conflicting operations, in programs that suit the size
  of their data and are not the two kernels that race.
- `NoneWaitsForeverCorrect`: some core can always move until all have exited. The theorem speaks
  of executions without a failed verification: `mt-vvadd.c` exits at once on a failure, with the
  other cores in a barrier. A program that goes astray has ended.

**Only model-checked.** Liveness (`DecidedLeaves`, `OldestCommitsOtherwise`, `RequestsServed`,
`MissServed`, `AccessesComplete`), which this prover does not handle under fairness.
`OutcomeExplained` of `Mt`: it depends on what the kernels' loops add up to, which is
induction over data. `InstrPath`: `Execute` uses the bitwise operators of the community
modules, which are recursive. `WatchdogJust` of `Sim`: the longest time without a commit is a count
over all paths of stalls and refills, 4 · `SLOW` + 5 cycles only with this set of instructions.

## Not modelled

- `Core` starts from decoded instructions and outcomes, `InstrPath` takes one instruction at a
  time. That the decoder gives what `Core` assumes is proved; the values, which `Core`
  replaces by the id of the instruction that computed them, are compared in `InstrPath` alone.
- The caches and the pipeline are not composed: `Core` sees the caches as ready inputs
  of any delay, and `DCache` sees the pipeline as requests of any timing. `DCache` takes the
  memory as an array of lines with any initial content.
- Output: the wording of logs, waveforms, statistics, `write_mem_dump`, the address of the memory
  stage that prints, the characters that `vm.c` prints.
- `coherence_torture` of `vm.c`, which harts other than the first run: reads and additions of
  zero, whose effect is on caches that the model of `Vm` does not have.
- Testbenches, which drive single modules, and the other programs of `riscv-tests`: `encoding.h`
  holds constants only, `tiny-malloc.c` and the debug programs are for testing a debugger on other
  hardware, and the single-threaded benchmarks and ISA tests are sequential code for the core to
  run.

## Plan

Done: the reorder buffer and the store buffer with abstract specifications and refinement
proofs, the pipeline around them, both caches, the instruction path against the instruction set,
the simulator with its watchdog, traces and loader, and the multi-threaded and virtual-memory
tests; proofs of all invariants of the pipeline, of the simulator but for its watchdog, and of
every component that has no other inside.

Next, in this order:

1. `WatchdogJust`, from a bound on the cycles that each stage can hold an instruction.
2. `StoreBuffer` and `DCache` under one port, so that the requests of the cache are those the
   buffer really makes.
