----------------------------- MODULE MtPrograms -----------------------------
(***************************************************************************)
(* The kernels of riscv-tests/mt: 44 ways for ncores cores to share one    *)
(* lda x lda matrix product C = A * B (xx_matmul.c) and 5 ways to share    *)
(* one vector sum (vvaddN.c).  A kernel is written as the sequence of      *)
(* operations that one core performs, from the kernel's loops: which       *)
(* elements of C are written, which products k are summed into them, from  *)
(* which array B is read, and where the core waits at a barrier.  Register *)
(* temporaries, elements read ahead and not used, unrolling and the order  *)
(* inside one operation are left out.                                      *)
(***************************************************************************)
EXTENDS Integers, Sequences, SequencesExt, FiniteSetsExt

\* Values for the products A[row,k] * B[k,col], such that the sums of different
\* blocks of them differ.
Product(k) == (k + 1) * (k + 1) * (k + 1)
SumOf(ks) == MapThenSumSet(Product, ks)

\* One operation: on C's elements rows x cols (or, when it copies, on columns
\* cols of the rows ks of B), with the products of index ks, which sum to sum.
Op(do, rows, cols, ks, from) ==
  [do |-> do, rows |-> rows, cols |-> cols, ks |-> ks, sum |-> SumOf(ks), from |-> from]

\* C[rows,cols] = the sum of A[row,k] * B[k,col] over ks.
Put(rows, cols, ks) == Op("put", rows, cols, ks, "B")

\* C[rows,cols] += the same sum: the old value is read, then the new one stored.
Add(rows, cols, ks) == Op("add", rows, cols, ks, "B")

\* B[ks,cols] is copied to an array of the kernel's own: "shared" (static, one
\* for all cores) or "own" (on the stack of the core).
Copy(to, cols, ks) == Op("copy", {}, cols, ks, to)

\* The operation, with B read from such a copy.
From(array, op) == [op EXCEPT !.from = array]

\* barrier(ncores) of the kernel's translation unit.
Barrier == Op("barrier", {}, {}, {}, "kernel")

\* The values of  for (x = a; x < b; x += s) , in order.
For(a, b, s) == [t \in 1 .. ((b - a + s - 1) \div s) |-> a + (t - 1) * s]

\* The indices such a loop touches when its body is unrolled s times.
Cover(a, b, s) == a .. (a + s * ((b - a + s - 1) \div s) - 1)

\* The body for every value of the loop variable, one after the other.
Loop(values, Body(_)) == FlattenSeq([t \in DOMAIN values |-> Body(values[t])])

\* The rows (or columns) of core c when n cores share the first size of them.
Block(c, n, size) == For(c * (size \div n), (c + 1) * (size \div n), 1)
BlockSet(c, n, size) == (c * (size \div n)) .. ((c + 1) * (size \div n) - 1)

\* if (coreid == 0) {...}  and  if (coreid == 1 || ncores == 1) {...}
OnCore0(c, ops) == IF c = 0 THEN ops ELSE << >>
OnCore1(c, n, ops) == IF c = 1 \/ n = 1 THEN ops ELSE << >>

Upto(size) == 0 .. (size - 1)
Smaller(a, b) == IF a < b THEN a ELSE b

-----------------------------------------------------------------------------
(* Kernels for any lda (a multiple of their unrolling).                    *)

cs_matmul(c, n, lda) ==
  Loop(For(c, lda, 2 * n), LAMBDA j :
    Loop(For(0, lda, 1), LAMBDA i :
      << Put({j, j + n}, {i}, Upto(lda)), Barrier >>))

bs_matmul(c, n, lda) ==
  Loop(For(c, lda, 4 * n), LAMBDA j :
    << Add({j, j + n, j + 2 * n, j + 3 * n}, Upto(lda), Upto(lda)) >>)

ap_matmul(c, n, lda) ==
  Loop(Block(c, n, lda), LAMBDA j : << Add({j}, Upto(lda), Upto(lda)) >>)

aq_matmul(c, n, lda) ==
  Loop(For(c, lda, 2 * n), LAMBDA i : << Add(Upto(lda), {i, i + n}, Upto(lda)) >>)

ds_matmul(c, n, lda) ==
  Loop(For(4 * c, lda, 4 * n), LAMBDA j :
    << Add(j .. (j + 3), Upto(lda), Cover(0, lda, 2)) >>)

bb_matmul(c, n, lda) ==
  Loop(For(0, lda, 2), LAMBDA i :
    << Put(Cover(c * (lda \div n), (c + 1) * (lda \div n), 4), i .. (i + 1), Upto(lda)) >>)

an_matmul(c, n, lda) ==
  Loop(Block(c, n, lda), LAMBDA j :
    Loop(For(0, lda, 1), LAMBDA k : << Add({j}, Upto(lda), {k}), Barrier >>))

\* B is transposed into the core's own B_t first.
ar_matmul(c, n, lda) ==
  << Copy("own", Upto(lda), Upto(lda)) >>
  \o Loop(Block(c, n, lda), LAMBDA i :
       << From("own", Add({i}, Upto(lda), Upto(lda))) >>)

\* ii starts at the core's own block and wraps around.
ck_matmul(c, n, lda) ==
  LET start == 16 * c
      turns == [t \in 1 .. (lda \div 16) |-> (start + (t - 1) * 16) % lda]
  IN Loop(For(start, lda, 16 * n), LAMBDA jj :
       Loop(turns, LAMBDA ii :
         << Add(Cover(jj, Smaller(lda, jj + 16), 4), Cover(ii, Smaller(lda, ii + 16), 2),
                Cover(0, lda, 8)) >>))

ak_matmul(c, n, lda) ==
  Loop(For(16 * c, lda, 16 * n), LAMBDA jj :
    Loop(For(0, lda, 16), LAMBDA ii :
      << Add(Cover(jj, Smaller(lda, jj + 16), 1), Cover(ii, Smaller(lda, ii + 16), 8),
             Cover(0, lda, 4)) >>))

RowsAfterBarrier(c, n, lda) ==
  << Barrier >> \o Loop(Block(c, n, lda), LAMBDA j :
                     << Put({j}, Cover(0, lda, 4), Upto(lda)) >>)
ci_matmul(c, n, lda) == RowsAfterBarrier(c, n, lda)
ai_matmul(c, n, lda) == RowsAfterBarrier(c, n, lda)

TwoColumns(c, n, lda) ==
  Loop(For(0, lda, 2), LAMBDA i :
    Loop(For(0, lda, 4), LAMBDA k :
      << Add(Cover(c * (lda \div n), (c + 1) * (lda \div n), 4), {i, i + 1}, k .. (k + 3)),
         Barrier >>))
ag_matmul(c, n, lda) == TwoColumns(c, n, lda)
cg_matmul(c, n, lda) == TwoColumns(c, n, lda)

\* Core 0 sums the lower half of k first, core 1 the upper half, from the last row up.
HalfRows(c, n, lda) ==
  LET half == lda \div 2
  IN OnCore0(c, Loop(<< 0, 1 >>, LAMBDA m :
       Loop(For(0, half, 1), LAMBDA j :
         << Add({j}, Cover(0, lda, 8), (m * half) .. ((m + 1) * half - 1)) >>)))
     \o OnCore1(c, n, Loop(<< 1, 0 >>, LAMBDA m :
       Loop(Reverse(For(half, lda, 1)), LAMBDA j :
         << Add({j}, Cover(0, lda, 8), (m * half) .. ((m + 1) * half - 1)) >>)))
bh_matmul(c, n, lda) == HalfRows(c, n, lda)
bj_matmul(c, n, lda) == HalfRows(c, n, lda)

\* The cores transpose B into the static BB together, column block by column
\* block; the barrier after the last k separates that from the products.
ae_copy(c, n, lda) ==
  Loop(For(0, lda, 1), LAMBDA k : << Copy("shared", BlockSet(c, n, lda), {k}), Barrier >>)
ae_matmul(c, n, lda) ==
  ae_copy(c, n, lda)
  \o Loop(For(0, lda, 4), LAMBDA i :
       Loop(Block(c, n, lda), LAMBDA j :
         << From("shared", Put({j}, i .. (i + 3), Cover(0, lda, 8))), Barrier >>))

\* The last core copies the first 1/n of B to the static B1, the others the rest;
\* after the barrier only the last core reads B1.
dm_copy(c, n, lda) ==
  << Copy("shared", Upto(lda),
          IF c = n - 1 THEN Upto(lda \div n) ELSE (lda \div n) .. (lda - 1)), Barrier >>
dm_matmul(c, n, lda) ==
  LET space == lda \div n
      end == IF c = n - 1 THEN lda ELSE space * c + space
  IN dm_copy(c, n, lda)
     \o Loop(For(space * c, (end \div 4) * 4, 4), LAMBDA i :
          << From(IF c = n - 1 THEN "shared" ELSE "B",
                  Add(i .. (i + 3), Cover(0, (lda \div 4) * 4, 4), Upto(lda))) >>)

bm_matmul(c, n, lda) ==
  LET space == lda \div n
      end == IF c = n - 1 THEN lda ELSE space * c + space
  IN Loop(For(space * c, (end \div 4) * 4, 4), LAMBDA i :
       << Add(i .. (i + 3), Cover(0, lda, 4), Upto(lda)) >>)

\* Without two cores and lda = 32, core 0 alone does the whole product.
Alone(c, lda) ==
  OnCore0(c, Loop(For(0, lda, 1), LAMBDA i : << Add(Upto(lda), {i}, Upto(lda)) >>))
TwoRows(c, kk) ==
  Loop(For(16 * c, 16 * (c + 1), 2), LAMBDA j :
    << Add({j, j + 1}, Cover(0, 32, 8), kk .. (kk + 15)) >>)
bc_matmul(c, n, lda) ==
  IF n = 2 /\ lda = 32 THEN TwoRows(c, 0) \o TwoRows(c, 16) ELSE Alone(c, lda)
\* Each core sums its own half of k first.
dc_pass2(c) == TwoRows(c, IF c = 0 THEN 16 ELSE 0)
dc_matmul(c, n, lda) ==
  IF n = 2 /\ lda = 32
    THEN TwoRows(c, IF c = 0 THEN 0 ELSE 16) \o dc_pass2(c)
    ELSE Alone(c, lda)

-----------------------------------------------------------------------------
(* Kernels written for lda = 32: the constant stands in their loops, also  *)
(* when lda is another.  With lda = 16 they name rows, columns or products *)
(* that the matrices do not have.                                          *)

do_matmul(c, n, lda) ==
  Loop(For(0, 32, 1), LAMBDA i : << Put(BlockSet(c, n, 32), {i}, 0 .. 31) >>)

ad_matmul(c, n, lda) ==
  Loop(Block(c, n, lda), LAMBDA j :
    Loop(For(0, 32, 2), LAMBDA k : << Add({j}, Cover(0, 32, 4), {k, k + 1}), Barrier >>))

\* The flat range 512c .. of C, eight elements at a time; cores beyond 1 return.
HalfOfC(c, n, lda, array) ==
  IF c > 1 THEN << >>
  ELSE Loop(For(512 * c, 512 * (IF n = 1 THEN 2 ELSE c + 1), 32), LAMBDA j :
         << From(array, Put({j \div 32}, Cover(0, 32, 8), Cover(0, lda, 2))) >>)
ay_matmul(c, n, lda) == HalfOfC(c, n, lda, "B")
az_matmul(c, n, lda) == HalfOfC(c, n, lda, "B")
\* Core 1 works from copies of A and B in static arrays that core 0 never reads.
cy_matmul(c, n, lda) ==
  IF c = 0 THEN HalfOfC(c, n, lda, "B")
  ELSE IF c > 1 THEN << >>
  ELSE << Copy("shared", 0 .. 31, 0 .. 31) >> \o HalfOfC(c, n, lda, "shared")

RowPairs(c, n, size, lda) ==
  Loop(For((c * size) \div n, (size * (1 + c)) \div n, 2), LAMBDA l :
    << Put({l, l + 1}, Cover(0, size, 4), Cover(0, lda, 4)) >>)
am_matmul(c, n, lda) == RowPairs(c, n, 32, lda)
du_matmul(c, n, lda) == RowPairs(c, n, 32, lda)
\* Only its rows are 32 elements long: what it takes for row l begins 32 * l
\* elements into A and C.
af_matmul(c, n, lda) ==
  Loop(For((c * lda) \div n, (lda * (1 + c)) \div n, 2), LAMBDA l :
    << Put({(32 * l) \div lda, (32 * (l + 1)) \div lda}, Cover(0, lda, 4), Cover(0, lda, 4)) >>)

\* Both cores update every row: core 0 with the lower half of k from the first
\* row down, core 1 with the upper half from the last row up.
SplitK(c, n, rows0) ==
  OnCore0(c, Loop(For(0, rows0, 2), LAMBDA i : << Add({i, i + 1}, 0 .. 31, 0 .. 15) >>))
  \o OnCore1(c, n, Loop(For(0, 32, 2), LAMBDA i :
                     << Add({31 - i, 30 - i}, 0 .. 31, 16 .. 31) >>))
cm_matmul(c, n, lda) == SplitK(c, n, lda)
cf_matmul(c, n, lda) == SplitK(c, n, 32)

\* Two blocks of k, each over the sixteen rows from first on.
SixteenRows(first) ==
  Loop(<< 0, 16 >>, LAMBDA kk :
    Loop(For(first, first + 16, 1), LAMBDA j :
      << Add({j}, Cover(0, 32, 8), kk .. (kk + 15)) >>))
bk_matmul(c, n, lda) == OnCore0(c, SixteenRows(0)) \o OnCore1(c, n, SixteenRows(16))
dv_matmul(c, n, lda) ==
  (IF c # 0 \/ n = 1 THEN SixteenRows(0) ELSE << >>) \o OnCore0(c, SixteenRows(16))

\* Each column of B is transposed into the core's own B_trans just before it is
\* used for one half of the rows.
bo_matmul(c, n, lda) ==
  LET half(first) == Loop(For(0, 32, 1), LAMBDA i :
                       << Copy("own", {i}, 0 .. 31),
                          From("own", Put(first .. (first + 15), {i}, 0 .. 31)) >>)
  IN OnCore0(c, half(0)) \o OnCore1(c, n, half(16))

\* Rows first .. last - 1, of which a core takes one half of the columns.
HalfColumns(first, last, cols) ==
  Loop(For(first, last, 1), LAMBDA j : << Add({j}, cols, 0 .. 31) >>)
al_matmul(c, n, lda) ==
  OnCore0(c, HalfColumns(0, 32, 0 .. 15)) \o OnCore1(c, n, HalfColumns(0, 32, 16 .. 31))
SecondHalfForgotten(c, n, lda) ==  \* mutant of cl_matmul
  OnCore0(c, HalfColumns(0, 32, 0 .. 15)) \o OnCore1(c, n, HalfColumns(16, 32, 16 .. 31))
cl_matmul(c, n, lda) ==
  OnCore0(c, HalfColumns(0, 32, 0 .. 15))
  \o OnCore1(c, n, HalfColumns(16, 32, 16 .. 31) \o HalfColumns(0, 16, 16 .. 31))
df_core0 == HalfColumns(0, 16, 0 .. 15) \o HalfColumns(16, 32, 0 .. 15)
df_core1 == HalfColumns(16, 32, 16 .. 31) \o HalfColumns(0, 16, 16 .. 31)
df_matmul(c, n, lda) == OnCore0(c, df_core0) \o OnCore1(c, n, df_core1)
bf_matmul(c, n, lda) ==
  LET half(cols) == Loop(For(0, 32, 1), LAMBDA j : << Put({j}, cols, 0 .. 31) >>)
  IN OnCore0(c, half(0 .. 15)) \o OnCore1(c, n, half(16 .. 31))

\* Sixteen rows, each in blocks of eight products and of eight columns.
BlocksOf8(first) ==
  Loop(For(first, first + 16, 1), LAMBDA j : << Add({j}, Cover(0, 32, 8), Cover(0, 32, 8)) >>)
av_core1 == BlocksOf8(16)
av_core0 == BlocksOf8(0)
av_matmul(c, n, lda) == OnCore1(c, n, av_core1) \o OnCore0(c, av_core0)
cv_core1 == BlocksOf8(16)
cv_core0 == BlocksOf8(0)
cv_matmul(c, n, lda) == OnCore1(c, n, cv_core1) \o OnCore0(c, cv_core0)

\* Each core transposes its own columns of B into its own tB, and multiplies
\* column blocks of that width.
Transposed(c, n, lda, width) ==
  LET own == BlockSet(c, n, lda)
  IN Loop(For(0, lda, 2), LAMBDA i : << Copy("own", own, i .. (i + 1)), Barrier >>)
     \o Loop(For(0, lda, 32), LAMBDA j2 :
          Loop(For(c * (lda \div n), (c + 1) * (lda \div n), 16), LAMBDA i2 :
            Loop(For(j2, j2 + 32, 2), LAMBDA j :
              Loop(For(0, lda, 32), LAMBDA k2 :
                Loop(For(i2, i2 + 16, width), LAMBDA i :
                  << From("own", Add({j, j + 1}, i .. (i + width - 1), k2 .. (k2 + 31))),
                     Barrier >>)))))
br_matmul(c, n, lda) == Transposed(c, n, lda, 4)
dr_matmul(c, n, lda) == Transposed(c, n, lda, 8)

\* The static BB as in ae, then the columns in ncores chunks.
ce_matmul(c, n, lda) ==
  Loop(For(0, lda, 1), LAMBDA k : << Copy("shared", BlockSet(c, n, lda), {k}), Barrier >>)
  \o Loop(For(0, n, 1), LAMBDA x :
       Loop(For(x * (32 \div n), (x + 1) * (32 \div n), 8), LAMBDA i :
         Loop(Block(c, n, lda), LAMBDA j :
           << From("shared", Add({j}, i .. (i + 7), Cover(0, lda, 8))) >>)))

at_matmul(c, n, lda) ==
  << Copy("own", 0 .. 31, 0 .. 31) >>
  \o Loop(For(0, lda, 1), LAMBDA j :
       << From("own", Add({j}, Cover((c * lda) \div n, ((c + 1) * lda) \div n, 8),
                          Cover(0, lda, 16))) >>)

-----------------------------------------------------------------------------
(* The vector sums: the sets of indices i with z[i] = x[i] + y[i], in the  *)
(* order of the loop turns.                                                *)

vvadd0(c, n, size) ==
  LET block == size \div n
      leftover == size % block
  IN Loop(Block(c, n, size), LAMBDA i : << {i} >>)
     \o Loop(For(size - leftover + c, size, n), LAMBDA i : << {i} >>)

vvadd1(c, n, size) ==
  Loop(For(4 * c, size, 8 * n), LAMBDA i :
    << (i .. (i + 3)) \cup ((i + 4 * n) .. (i + 4 * n + 3)) >>)

vvadd2(c, n, size) == Loop(For(c, size, 2 * n), LAMBDA i : << {i, i + n} >>)

\* Duff's device: the first turn enters the unrolled body in its middle.
vvadd3(c, n, size) ==
  LET count == size \div n
      first == c * count
      enter == IF count % 8 = 0 THEN 8 ELSE count % 8
  IN << first .. (first + enter - 1) >>
     \o Loop(For(first + enter, first + count, 8), LAMBDA i : << i .. (i + 7) >>)

vvadd4(c, n, size) == Loop(For(c, size, n), LAMBDA i : << {i} >>)
=============================================================================
