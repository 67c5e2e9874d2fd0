--------------------------------- MODULE Mt ---------------------------------
(***************************************************************************)
(* The cores that run one multi-threaded test program of riscv-tests: the  *)
(* kernel of MtPrograms inside thread_entry of benchmarks/mt-matmul and    *)
(* benchmarks/mt-vvadd, with the sense-reversing barrier of                *)
(* benchmarks/common/util.h.  barrier and its static count and sense are   *)
(* defined in a header, so the kernel's translation unit and the harness   *)
(* have one barrier each.                                                  *)
(***************************************************************************)
EXTENDS MtPrograms, FiniteSets

CONSTANTS
  Names,        \* the programs that may be run
  MaxCores,     \* how many cores there may be (spike -p2)
  Dims,         \* DIM_SIZE, the lda of the matrix products: 16 in dataset.h
  Sizes         \* DATA_SIZE of the vector sums: 1000 in dataset.h

ASSUME SizeAssumption == /\ \A lda \in Dims : lda \in Nat \ {0} /\ lda % 16 = 0
                         /\ \A size \in Sizes : size \in Nat /\ size >= 4
                         /\ MaxCores \in Nat \ {0}

VARIABLES
  prog, nc,     \* the program that runs, and its number of cores
  pc,           \* per core, the index of its next operation
  phase,        \* per core, how far it is inside that operation
  C,            \* results_data: for each element the sum of products in it
  loaded,       \* per core, the elements an accumulation has read
  shared, own,  \* the elements of B in the kernel's static copy and in each core's own
  count, sense, \* of each unit's barrier
  threadsense,  \* of each core in each unit
  exited,       \* per core, "no" or the value it gave to exit
  raced         \* whether two cores were at conflicting operations together

vars == << prog, nc, pc, phase, C, loaded, shared, own, count, sense, threadsense, exited, raced >>

Units == {"kernel", "main"}
Cores == 0 .. (nc - 1)

-----------------------------------------------------------------------------
(* The programs.                                                           *)

Matmuls(c, n, lda) ==
  [ad |-> ad_matmul(c, n, lda), ae |-> ae_matmul(c, n, lda), af |-> af_matmul(c, n, lda),
   ag |-> ag_matmul(c, n, lda), ai |-> ai_matmul(c, n, lda), ak |-> ak_matmul(c, n, lda),
   al |-> al_matmul(c, n, lda), am |-> am_matmul(c, n, lda), an |-> an_matmul(c, n, lda),
   ap |-> ap_matmul(c, n, lda), aq |-> aq_matmul(c, n, lda), ar |-> ar_matmul(c, n, lda),
   at |-> at_matmul(c, n, lda), av |-> av_matmul(c, n, lda), ay |-> ay_matmul(c, n, lda),
   az |-> az_matmul(c, n, lda), bb |-> bb_matmul(c, n, lda), bc |-> bc_matmul(c, n, lda),
   bf |-> bf_matmul(c, n, lda), bh |-> bh_matmul(c, n, lda), bj |-> bj_matmul(c, n, lda),
   bk |-> bk_matmul(c, n, lda), bm |-> bm_matmul(c, n, lda), bo |-> bo_matmul(c, n, lda),
   br |-> br_matmul(c, n, lda), bs |-> bs_matmul(c, n, lda), ce |-> ce_matmul(c, n, lda),
   cf |-> cf_matmul(c, n, lda), cg |-> cg_matmul(c, n, lda), ci |-> ci_matmul(c, n, lda),
   ck |-> ck_matmul(c, n, lda), cl |-> cl_matmul(c, n, lda), cm |-> cm_matmul(c, n, lda),
   cs |-> cs_matmul(c, n, lda), cv |-> cv_matmul(c, n, lda), cy |-> cy_matmul(c, n, lda),
   dc |-> dc_matmul(c, n, lda), df |-> df_matmul(c, n, lda), dm |-> dm_matmul(c, n, lda),
   do |-> do_matmul(c, n, lda), dr |-> dr_matmul(c, n, lda), ds |-> ds_matmul(c, n, lda),
   du |-> du_matmul(c, n, lda), dv |-> dv_matmul(c, n, lda)]

Sums(c, n, size) ==
  [vvadd0 |-> vvadd0(c, n, size), vvadd1 |-> vvadd1(c, n, size), vvadd2 |-> vvadd2(c, n, size),
   vvadd3 |-> vvadd3(c, n, size), vvadd4 |-> vvadd4(c, n, size)]

Vvadds == {"vvadd0", "vvadd1", "vvadd2", "vvadd3", "vvadd4"}

\* A program: a kernel with the data set of the harness.
Programs == {[name |-> p, size |-> lda] : p \in Names \ Vvadds, lda \in Dims}
            \cup {[name |-> p, size |-> size] : p \in Names \cap Vvadds, size \in Sizes}

\* The size of a program's result: rows and columns of C.
Height(p) == IF p.name \in Vvadds THEN 1 ELSE p.size
Width(p) == p.size

Wait == Op("barrier", {}, {}, {}, "main")
Verify(p) == Op("verify", Upto(Height(p)), Upto(Width(p)), {}, "B")
Exit == Op("exit", {}, {}, {}, "B")

\* The kernel of every program, per number of cores and core.
Kernels == [n \in 1 .. MaxCores |-> [c \in 0 .. (n - 1) |->
             [lda \in Dims |-> Matmuls(c, n, lda)]]]

\* thread_entry of mt-matmul.c.
MatmulEntry(p, c, n) ==
  Kernels[n][c][p.size][p.name]
  \o << Wait, Verify(p), Exit >>

\* thread_entry of mt-vvadd.c: x is product 0 and y product 1 of an element, so
\* the first pass stores both and the second adds y to the copy of x.
VvaddEntry(p, c, n) ==
  LET turns == Sums(c, n, p.size)[p.name]
      all == Upto(Width(p))
  IN << Wait >> \o [t \in DOMAIN turns |-> Put({0}, turns[t], {0, 1})] \o << Wait >>
     \o OnCore0(c, << Verify(p), Put({0}, all, {0}) >>)
     \o << Wait >> \o [t \in DOMAIN turns |-> Add({0}, turns[t], {1})] \o << Wait >>
     \o OnCore0(c, << Verify(p) >>) \o << Wait, Exit >>

Code == [p \in Programs |-> [n \in 1 .. MaxCores |-> [c \in 0 .. (n - 1) |->
          IF p.name \in Vvadds THEN VvaddEntry(p, c, n) ELSE MatmulEntry(p, c, n)]]]

\* Whether an operation is barrier(ncores) of unit u, and how many of those a core
\* has called before its i-th operation.
IsBarrier(op, u) == op.do = "barrier" /\ op.from = u
Before(ops, u, i) == Cardinality({t \in 1 .. i - 1 : IsBarrier(ops[t], u)})

\* All cores of a program call the barriers of the two units in the same order, and
\* each call before the exit that ends the program: of two cores that have called
\* each unit's equally often none is at the next call of one unit and the other at
\* that of the other, and one at its exit has called each of them more often than
\* any core that is yet to do so.
EndsWithExit(ops) ==
  /\ Len(ops) \in Nat \ {0} /\ DOMAIN ops = 1 .. Len(ops)
  /\ ops[Len(ops)].do = "exit"
SameOrder(mine, its) ==
  \A i \in DOMAIN mine, u \in Units :
    IsBarrier(mine[i], u) =>
      \A j \in DOMAIN its :
        /\ \A v \in Units \ {u} : IsBarrier(its[j], v) =>
             \E w \in Units : Before(mine, w, i) # Before(its, w, j)
        /\ its[j].do = "exit" => Before(mine, u, i) < Before(its, u, j)

SameBarriers ==
  \A p \in Programs, n \in 1 .. MaxCores : \A c, d \in 0 .. (n - 1) :
    EndsWithExit(Code[p][n][c]) /\ SameOrder(Code[p][n][c], Code[p][n][d])
ASSUME BarrierAssumption == SameBarriers

\* Two operations of which one writes what the other reads or writes.
Conflict(a, b) ==
  \/ /\ a.do \in {"put", "add", "verify"} /\ b.do \in {"put", "add", "verify"}
     /\ a.do # "verify" \/ b.do # "verify"
     /\ a.rows \cap b.rows # {} /\ a.cols \cap b.cols # {}
  \/ /\ a.from = "shared" /\ b.from = "shared"
     /\ a.do = "copy" \/ b.do = "copy"
     /\ a.cols \cap b.cols # {} /\ a.ks \cap b.ks # {}

\* The kernels that are written for matrices of 32 x 32.
Sized32 == {"ad", "af", "al", "am", "at", "av", "ay", "az", "bf", "bk", "bo", "br", "ce", "cf",
            "cl", "cm", "cv", "cy", "df", "do", "dr", "du", "dv"}

\* Whether a program suits the size of its data: those kernels want DIM_SIZE = 32, and
\* vvadd1 a DATA_SIZE that is a multiple of 8 times the number of cores.
Suits(p, n) ==
  /\ p.name \in Sized32 => p.size = 32
  /\ p.name = "vvadd1" => p.size % (8 * n) = 0

\* The two kernels whose cores add to the same elements without a lock.
SharedUpdates == {"cf", "cm"}

\* In the other programs that suit their data conflicting operations of two cores have a
\* barrier between them: the cores have called one of the barriers a different number of
\* times.
Apart(mine, its) ==
  \A i \in DOMAIN mine, j \in DOMAIN its :
    Conflict(mine[i], its[j]) => \E u \in Units : Before(mine, u, i) # Before(its, u, j)

ConflictsApart ==
  \A p \in Programs, n \in 1 .. MaxCores : \A c, d \in 0 .. (n - 1) :
    Suits(p, n) /\ p.name \notin SharedUpdates /\ c < d =>
      Apart(Code[p][n][c], Code[p][n][d])
ASSUME ConflictAssumption == ConflictsApart

ResultSize == [p \in Programs |-> << Height(p), Width(p) >>]

RightSum == [p \in Programs |-> SumOf(IF p.name \in Vvadds THEN {0, 1} ELSE Upto(Width(p)))]

-----------------------------------------------------------------------------

At(c) == Code[prog][nc][c][pc[c]]
\* Whether the next operation is barrier(ncores) of unit u.
AtBarrier(c, u) == IsBarrier(At(c), u)
Running(c) == exited[c] = "no"

\* Whether an operation stays in the matrices of the data set: it names no row, column
\* or product that they do not have.
InMatrix(op) ==
  /\ op.rows \subseteq Upto(Height(prog)) /\ op.cols \subseteq Upto(Width(prog))
  /\ op.ks \subseteq Upto(Width(prog))

Racing == \E c, d \in Cores : c < d /\ Running(c) /\ Running(d) /\ Conflict(At(c), At(d))

Goto(c, p) == phase' = [phase EXCEPT ![c] = p]
Done(c) == pc' = [pc EXCEPT ![c] = @ + 1] /\ Goto(c, "ready")

\* What the sum comes to: the copy of B must hold all that is read from it.
Summed(c, op) ==
  IF \/ op.from = "B"
     \/ (op.cols \X op.ks) \subseteq (IF op.from = "own" THEN own[c] ELSE shared)
    THEN op.sum ELSE -1

\* C with the value Elem(i, j) in the elements of op.
Store(op, Elem(_, _)) ==
  C' = [i \in DOMAIN C |-> IF i \notin op.rows THEN C[i]
                           ELSE [j \in DOMAIN C[i] |-> IF j \in op.cols THEN Elem(i, j) ELSE C[i][j]]]

Init ==
  /\ prog \in Programs
  /\ nc \in 1 .. MaxCores
  /\ pc = [c \in Cores |-> 1]
  /\ phase = [c \in Cores |-> "ready"]
  /\ C = [i \in 0 .. (ResultSize[prog][1] - 1) |-> [j \in 0 .. (ResultSize[prog][2] - 1) |-> 0]]
  /\ loaded = [c \in Cores |-> << >>]
  /\ shared = {} /\ own = [c \in Cores |-> {}]
  /\ count = [u \in Units |-> 0] /\ sense = [u \in Units |-> FALSE]
  /\ threadsense = [c \in Cores |-> [u \in Units |-> FALSE]]
  /\ exited = [c \in Cores |-> "no"]
  /\ raced = FALSE

Machine == << prog, nc >>
Senses == << count, sense, threadsense >>
Data == << C, loaded, shared, own >>

PutSum(c) ==
  /\ At(c).do = "put" /\ phase[c] = "ready"
  /\ \E op \in {At(c)}, sum \in {Summed(c, At(c))} : Store(op, LAMBDA i, j : sum)
  /\ Done(c)
  /\ raced' = (raced \/ Racing)
  /\ UNCHANGED << Machine, loaded, shared, own, Senses, exited >>

\* An accumulation reads the elements and, in another step, stores them back.
LoadOld(c) ==
  /\ At(c).do = "add" /\ phase[c] = "ready"
  /\ loaded' = [loaded EXCEPT ![c] = [i \in At(c).rows |-> [j \in At(c).cols |-> C[i][j]]]]
  /\ Goto(c, "loaded")
  /\ raced' = (raced \/ Racing)
  /\ UNCHANGED << Machine, pc, C, shared, own, Senses, exited >>

StoreNew(c) ==
  /\ At(c).do = "add" /\ phase[c] = "loaded"
  /\ \E op \in {At(c)}, sum \in {Summed(c, At(c))} :
       Store(op, LAMBDA i, j : IF sum = -1 THEN -1 ELSE loaded[c][i][j] + sum)
  /\ loaded' = [loaded EXCEPT ![c] = << >>]
  /\ Done(c)
  /\ raced' = (raced \/ Racing)
  /\ UNCHANGED << Machine, shared, own, Senses, exited >>

CopyB(c) ==
  /\ At(c).do = "copy"
  /\ \/ /\ At(c).from = "own" /\ UNCHANGED shared
        /\ own' = [own EXCEPT ![c] = @ \cup (At(c).cols \X At(c).ks)]
     \/ /\ At(c).from = "shared" /\ UNCHANGED own
        /\ shared' = shared \cup (At(c).cols \X At(c).ks)
  /\ Done(c)
  /\ raced' = (raced \/ Racing)
  /\ UNCHANGED << Machine, C, loaded, Senses, exited >>

-----------------------------------------------------------------------------
(* barrier(ncores)                                                         *)

\* threadsense = !threadsense, then the atomic fetch-and-add.
SenseNotReversed(c) ==  \* mutant of Arrive
  /\ phase[c] = "ready"
  /\ \E u \in Units :
        /\ AtBarrier(c, u)
        /\ count' = [count EXCEPT ![u] = @ + 1]
        /\ Goto(c, IF count[u] = nc - 1 THEN "last" ELSE "spin")
  /\ UNCHANGED << Machine, pc, Data, sense, threadsense, exited, raced >>
Arrive(c) ==
  /\ phase[c] = "ready"
  /\ \E u \in Units :
        /\ AtBarrier(c, u)
        /\ threadsense' = [threadsense EXCEPT ![c][u] = ~@]
        /\ count' = [count EXCEPT ![u] = @ + 1]
        /\ Goto(c, IF count[u] = nc - 1 THEN "last" ELSE "spin")
  /\ UNCHANGED << Machine, pc, Data, sense, exited, raced >>

\* The last core sets count = 0 and then sense = threadsense.
CountNotReset(c) ==  \* mutant of ResetCount
  /\ phase[c] = "last"
  /\ Goto(c, "release")
  /\ UNCHANGED << Machine, pc, Data, count, sense, threadsense, exited, raced >>
ResetCount(c) ==
  /\ phase[c] = "last"
  /\ count' = [count EXCEPT ![At(c).from] = 0]
  /\ Goto(c, "release")
  /\ UNCHANGED << Machine, pc, Data, sense, threadsense, exited, raced >>

Release(c) ==
  /\ phase[c] = "release"
  /\ sense' = [sense EXCEPT ![At(c).from] = threadsense[c][At(c).from]]
  /\ Done(c)
  /\ UNCHANGED << Machine, Data, count, threadsense, exited, raced >>

\* The others leave when they see it.
Leave(c) ==
  /\ phase[c] = "spin"
  /\ sense[At(c).from] = threadsense[c][At(c).from]
  /\ Done(c)
  /\ UNCHANGED << Machine, Data, Senses, exited, raced >>

-----------------------------------------------------------------------------

\* verify: zero when every element is right; mt-vvadd.c exits at once otherwise,
\* and mt-matmul.c gives the value to exit.
VerifyResult(c) ==
  /\ At(c).do = "verify"
  /\ LET right == \A i \in DOMAIN C : \A j \in DOMAIN C[i] : C[i][j] = RightSum[prog]
     IN IF right
          THEN Done(c) /\ UNCHANGED exited
          ELSE exited' = [exited EXCEPT ![c] = "failed"] /\ UNCHANGED << pc, phase >>
  /\ raced' = (raced \/ Racing)
  /\ UNCHANGED << Machine, Data, Senses >>

ExitZero(c) ==
  /\ At(c).do = "exit"
  /\ exited' = [exited EXCEPT ![c] = "passed"]
  /\ UNCHANGED << Machine, pc, phase, Data, Senses, raced >>

\* What a core reads and overwrites beyond that is not followed: other rows, or
\* what lies behind the arrays.  The run ends here.
GoesAstray(c) ==
  /\ ~InMatrix(At(c))
  /\ exited' = [exited EXCEPT ![c] = "astray"]
  /\ UNCHANGED << Machine, pc, phase, Data, Senses, raced >>

Astray == \E c \in Cores : exited[c] = "astray"

Step(c) ==
  /\ Running(c) /\ ~Astray
  /\ \/ GoesAstray(c)
     \/ /\ InMatrix(At(c))
        /\ \/ PutSum(c) \/ LoadOld(c) \/ StoreNew(c) \/ CopyB(c)
           \/ Arrive(c) \/ ResetCount(c) \/ Release(c) \/ Leave(c)
           \/ VerifyResult(c) \/ ExitZero(c)

\* tohost_exit never returns.
Halted == (Astray \/ \A c \in Cores : ~Running(c)) /\ UNCHANGED vars

Next == (\E c \in Cores : Step(c)) \/ Halted

Spec == Init /\ [][Next]_vars

-----------------------------------------------------------------------------

\* No two cores are ever at operations of which one writes what the other reads
\* or writes - C, or the copy of B that some kernels build together - in any of
\* the programs that suit the size of their data but cf and cm: the blocks of rows
\* and columns do not overlap and the barriers stand where one core uses what
\* another prepared.
RaceFree == Suits(prog, nc) /\ prog.name \notin SharedUpdates => ~Racing

\* How a test ends follows from what its kernel was written for.  It stays in the
\* matrices, and can pass, exactly if it suits the size of the data set that
\* mt-matmul.c:52 and mt-vvadd.c hand it; and if it does, verify, run by a core as
\* soon as it has left its last barrier, finds a wrong element only if the cores
\* raced: the kernel covers every element with every product exactly once, and
\* the barrier lets no core verify before the others have stored their part.
OutcomeExplained ==
  \A c \in Cores :
    /\ exited[c] = "astray" => ~Suits(prog, nc)
    /\ exited[c] = "passed" => Suits(prog, nc)
    /\ exited[c] = "failed" => Suits(prog, nc) /\ raced

\* How many barriers of unit u core c has left, and has entered.
Left(c, u) == Before(Code[prog][nc][c], u, pc[c])
Entered(c, u) ==
  Left(c, u) + (IF phase[c] \in {"last", "release", "spin"} /\ AtBarrier(c, u) THEN 1 ELSE 0)

\* No core leaves a barrier before all have entered it, however often the same
\* count and sense are used again while slow cores are still on their way out.
BarrierSeparates == \A c, d \in Cores, u \in Units : c # d => Left(c, u) <= Entered(d, u)

\* The cores never all wait in barriers, for a core that has exited or waits
\* elsewhere: every program calls the barriers equally often on every core, and
\* no release is lost.  Every step but the last advances some core's position, so
\* all cores get to their exit.
NoneWaitsForever ==
  (~Astray /\ \E c \in Cores : Running(c)) =>
    \E c \in Cores : Running(c) /\ (phase[c] = "spin" =>
                                       sense[At(c).from] = threadsense[c][At(c).from])
=============================================================================
