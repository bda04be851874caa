----------------------------- MODULE Transforms -----------------------------
(***************************************************************************)
(* Polynomials in pages, and the operations that transform them: eval and  *)
(* gpu_eval, fft_impl and invfft_impl, tg2, and gpu_tg2.  An operation is  *)
(* a sequence of stages; a stage that the code spreads over its device     *)
(* threads is done task by task, thread ct taking the tasks ct,            *)
(* ct + ctp_threads, ..., and ends when no thread has a task left.         *)
(*                                                                         *)
(* A polynomial is the list of its chunks (poly_t::page) and data gives    *)
(* the values of every live chunk; the cache between the two is            *)
(* CacheManager's.  A chunk is zero when it is created.                    *)
(***************************************************************************)
EXTENDS Kernels, FiniteSets, FiniteSetsExt

CONSTANTS ctp_threads,              \* 32 in the code
          tg2Bits                   \* 26 in the code: gpu_tg2 needs a larger e2

ASSUME ThreadsAssumption == ctp_threads \in Nat \ {0} /\ tg2Bits \in Nat

VARIABLES
    group,       \* p0, p1, e2 of the transform
    input,       \* the operation and the polynomials it was called with
    stages,      \* the stages left
    page,        \* poly_t::page of every polynomial
    data,        \* chunk |-> values, for the live chunks
    next,        \* device thread |-> its next task
    holding      \* device thread |-> holding_chunks of gpu_tg2

vars == <<group, input, stages, page, data, next, holding>>

Threads == 0 .. ctp_threads - 1
Polys   == {"p", "f0", "f1"}        \* fe and fo of gpu_tg2 are f0 and f1
Page    == 0 .. page_u64 - 1
Zero    == [i \in Page |-> 0]
noPages == [i \in {} |-> 0]

N       == PointsOf(group)
Pages   == (N - 1) \div page_u64 + 1
PP      == group.p0 * group.p1
Tpages  == Pages \div PP

\* The n smallest identities no live chunk has; create_chunk reuses them.
Fresh(n) == LET free == (0 .. 6 * Pages + 2) \ DOMAIN data
            IN [i \in 0 .. n - 1 |-> CHOOSE x \in free : Cardinality({y \in free : y < x}) = i]

\* Values of a chunk; those of a chunk that is no longer live are gone.
Values(id) == IF id \in DOMAIN data THEN data[id] ELSE [i \in Page |-> 1]

Write(new) == [id \in DOMAIN data \cup DOMAIN new |->
                 IF id \in DOMAIN new THEN new[id] ELSE data[id]]
Drop(d, ids) == [id \in DOMAIN d \ ids |-> d[id]]
IdsOf(f) == {page[f][i] : i \in DOMAIN page[f]}

\* The chunks ids (a list) get the pages of c; a chunk longer than c keeps its
\* tail.
Spread(ids, c) ==
    [id \in {ids[i] : i \in DOMAIN ids} |->
       LET i == CHOOSE i \in DOMAIN ids : ids[i] = id
       IN [l \in Page |-> IF i * page_u64 + l \in DOMAIN c THEN c[i * page_u64 + l]
                                                           ELSE Values(id)[l]]]

\* The values of block T of a polynomial, at most 2^e2 of its one page.
Block(f, T) == [j \in 0 .. 2^group.e2 - 1 |->
                  Values(page[f][T * Tpages + j \div page_u64])[j % page_u64]]
BlockIds(f, T) == [i \in 0 .. Tpages - 1 |-> page[f][T * Tpages + i]]
BlockSetButLast(f, T) == {BlockIds(f, T)[i] : i \in 1 .. Tpages - 1}
BlockSet(f, T) == {BlockIds(f, T)[i] : i \in 0 .. Tpages - 1}

-----------------------------------------------------------------------------
(* The stages of each operation. *)

Stage(op, f, T) == [op |-> op, f |-> f, T |-> T]
Blocks(op, f) == [T \in 1 .. PP |-> Stage(op, f, T - 1)]

\* fft_impl; the even part of post = 1 and post = 2 multiplies into f0.
FftStages(f, even) ==
    (IF PP = 1 THEN <<>>
     ELSE <<Stage("odd", f, 0)>> \o IF group.p1 = 1 THEN <<>> ELSE <<Stage("permute", f, 0)>>)
    \o Blocks(even, f)

InvFftStages(f) ==
    Blocks("invEven", f) \o
    IF PP = 1 THEN <<>>
    ELSE (IF group.p1 = 1 THEN <<>> ELSE <<Stage("invPermute", f, 0)>>)
         \o <<Stage("invOdd", f, 0)>>

MulStages == FftStages("f0", "even") \o FftStages("f1", "evenMul") \o InvFftStages("f0")
Tg2Stages == <<Stage("split", "p", 0)>> \o FftStages("f0", "even")
             \o FftStages("f1", "evenTg2") \o InvFftStages("f0") \o <<Stage("give", "p", 0)>>
\* gpu_tg2 makes three passes over every block.
GpuTg2Stage(k) ==
    IF k <= 2 THEN <<Stage("alloc", "f1", 0), Stage("tg2Odd", "p", 0)>>[k]
    ELSE IF k <= 3 * PP + 2
    THEN Stage(<<"tg2Top", "tg2Group", "tg2Back">>[((k - 3) % 3) + 1], "p", (k - 3) \div 3)
    ELSE <<Stage("tg2Give", "p", 0), Stage("invOdd", "p", 0)>>[k - 3 * PP - 2]
GpuTg2Stages == [k \in 1 .. 3 * PP + (IF PP = 1 THEN 3 ELSE 4) |-> GpuTg2Stage(k)]
EvalStages == <<Stage("alloc", "p", 0), Stage("gpuEval", "p", 0), Stage("tail", "p", 0)>> \o InvFftStages("p")

At(ops) == stages # <<>> /\ Head(stages).op \in ops
F == Head(stages).f
EndStage == stages' = Tail(stages) /\ next' = [ct \in Threads |-> ct]

-----------------------------------------------------------------------------
(* Stages done by one call. *)

\* cpu or gpu transform of one block, by the size of its even part.
FwdEven(f, T) == IF group.e2 >= gpuBits THEN gpu_fft_even(Block(f, T), group, T)
                                        ELSE cpu_fft_even(Block(f, T), group, T)
InvEven(f, T) == IF group.e2 >= gpuBits THEN gpu_invfft_even(Block(f, T), group, T)
                                        ELSE cpu_invfft_even(Block(f, T), group, T)

EvenBlock ==
    /\ At({"even", "invEven"})
    /\ LET T == Head(stages).T
       IN data' = Write(Spread(BlockIds(F, T),
                               IF At({"even"}) THEN FwdEven(F, T) ELSE InvEven(F, T)))
    /\ EndStage
    /\ UNCHANGED <<group, input, page, holding>>

\* fft_impl with post = 1 or 2: the block goes into f0 and its chunks go.
EvenPost ==
    /\ At({"evenMul", "evenTg2"})
    /\ LET T == Head(stages).T
           own == FwdEven(F, T)
           dst == Block("f0", T)
           res == IF At({"evenMul"}) THEN [j \in DOMAIN own |-> mul(dst[j], own[j])]
                                     ELSE kernel_tg2(dst, own, group, T)
       IN data' = Drop(Write(Spread(BlockIds("f0", T), res)),
                       BlockSet(F, T))
    /\ page' = IF Head(stages).T = PP - 1 THEN [page EXCEPT ![F] = noPages] ELSE page
    /\ EndStage
    /\ UNCHANGED <<group, input, holding>>

\* The page lists around the odd part, when p1 > 1.
Permute ==
    /\ At({"permute", "invPermute"})
    /\ page' = [page EXCEPT ![F] =
         [i \in 0 .. Pages - 1 |->
            LET k == i % Tpages
            IN IF At({"invPermute"})
               THEN page[F][k + Tpages * Transposed(i \div Tpages, group)]
               ELSE page[F][k + Tpages * (CHOOSE m \in 0 .. PP - 1 :
                                            Transposed(m, group) = i \div Tpages)]]]
    /\ EndStage
    /\ UNCHANGED <<group, input, data, holding>>

\* tg2: the even and the odd coefficients of p, in new polynomials.
Split ==
    /\ At({"split"})
    /\ LET new == Fresh(2 * Pages)
           coeff(i, odd) == LET j == 2 * i + odd
                            IN IF j < Pages * page_u64
                               THEN Values(page["p"][j \div page_u64])[j % page_u64] ELSE 0
           f(odd) == [i \in 0 .. Pages - 1 |-> new[i + odd * Pages]]
       IN /\ page' = [page EXCEPT !["f0"] = f(0), !["f1"] = f(1)]
          /\ data' = Drop(Write([id \in {new[n] : n \in DOMAIN new} |->
                            LET n == CHOOSE n \in DOMAIN new : new[n] = id
                            IN [l \in Page |-> coeff((n % Pages) * page_u64 + l, n \div Pages)]]),
                          IdsOf("p"))
    /\ EndStage
    /\ UNCHANGED <<group, input, holding>>

\* tg2: p takes the chunks of f0.
Give ==
    /\ At({"give"})
    /\ page' = [page EXCEPT !["p"] = page["f0"], !["f0"] = noPages]
    /\ EndStage
    /\ UNCHANGED <<group, input, data, holding>>

\* eval clears what a transform shorter than a page leaves of it.
ClearTail ==
    /\ At({"tail"})
    /\ data' = IF group.e2 < PageBits
               THEN Write([id \in {page["p"][0]} |->
                      [l \in Page |-> IF l < 2^group.e2 THEN Values(id)[l] ELSE 0]])
               ELSE data
    /\ EndStage
    /\ UNCHANGED <<group, input, page, holding>>

\* alloc_page of eval (for p) and of gpu_tg2 (for fo).
Alloc ==
    /\ At({"alloc"})
    /\ page' = [page EXCEPT ![F] = Fresh(Pages)]
    /\ data' = Write([id \in {Fresh(Pages)[i] : i \in 0 .. Pages - 1} |-> Zero])
    /\ EndStage
    /\ UNCHANGED <<group, input, holding>>

\* gpu_tg2, the three passes over block T: the top layers of both halves; the
\* layers below, the combination and the way back; the top layers back, after
\* which the odd half's chunks go.
Tg2Top ==
    /\ At({"tg2Top"})
    /\ LET T == Head(stages).T
           top(f) == Spread(BlockIds(f, T), TopFwd(Block(f, T), group, T))
           even == top("f0")
           odd == top("f1")
       IN data' = Write([id \in DOMAIN even \cup DOMAIN odd |->
                           IF id \in DOMAIN even THEN even[id] ELSE odd[id]])
    /\ EndStage
    /\ UNCHANGED <<group, input, page, holding>>

Tg2Group ==
    /\ At({"tg2Group"})
    /\ LET T == Head(stages).T
           half(f) == GroupFwd(Block(f, T), group, T)
       IN data' = Write(Spread(BlockIds("f0", T),
                     GroupInv(kernel_tg2(half("f0"), half("f1"), group, T), group, T)))
    /\ EndStage
    /\ UNCHANGED <<group, input, page, holding>>

Tg2Back ==
    /\ At({"tg2Back"})
    /\ LET T == Head(stages).T
       IN data' = Drop(Write(Spread(BlockIds("f0", T), TopInv(Block("f0", T), group, T))),
                       BlockSet("f1", T))
    /\ EndStage
    /\ UNCHANGED <<group, input, page, holding>>

\* gpu_tg2 hands fe's chunks to p, in the order the odd part expects.
Tg2Give ==
    /\ At({"tg2Give"})
    /\ page' = [page EXCEPT !["f0"] = noPages, !["f1"] = noPages,
                  !["p"] = [i \in 0 .. Pages - 1 |->
                    page["f0"][(i % Tpages) + Tpages * Transposed(i \div Tpages, group)]]]
    /\ EndStage
    /\ UNCHANGED <<group, input, data, holding>>

-----------------------------------------------------------------------------
(* Stages done by the device threads, one task at a time. *)

OddStages == {"odd", "invOdd"}
TaskStages == OddStages \cup {"tg2Odd", "gpuEval"}
Tasks == IF At({"gpuEval"}) THEN Pages ELSE Tpages

TakeTask(ct) ==
    /\ next[ct] < Tasks
    /\ next' = [next EXCEPT ![ct] = @ + ctp_threads]
    /\ UNCHANGED <<group, input, stages>>

\* gpu_fft_odd and gpu_invfft_odd: the task's pages of all blocks.
OddTask(ct) ==
    /\ At(OddStages)
    /\ TakeTask(ct)
    /\ LET ids == [i \in 0 .. PP - 1 |-> page[F][next[ct] + i * Tpages]]
           buf == [i \in 0 .. PP - 1 |-> Values(ids[i])]
           res == IF At({"odd"}) THEN OddTransform(buf, group) ELSE InvOddTransform(buf, group)
       IN data' = Write([id \in {ids[i] : i \in 0 .. PP - 1} |->
                           res[CHOOSE i \in 0 .. PP - 1 : ids[i] = id]])
    /\ UNCHANGED <<page, holding>>

\* The function eval samples: the hash of the code, here the polynomial the
\* operation is called with.
Oracle(x) == SumOf(N, LAMBDA i : mul(input.a[i], pow[x, i]))

page_biasOneBlock(i) == pow[ggOf(g, group), bit_rev(i, group.e2)]

page_bias(i) == pow[ggOf(g, group), PP * bit_rev(i, group.e2)]
task_bias(task) ==
    LET page_head == task * page_u64
    IN pow[ggOf(g, group), page_head \div 2^group.e2
                           + PP * bit_rev(page_head % 2^group.e2, group.e2)]

\* gpu_eval and kernel_eval: the values of one page.
EvalTask(ct) ==
    /\ At({"gpuEval"})
    /\ TakeTask(ct)
    /\ data' = Write([id \in {page["p"][next[ct]]} |->
                  [i \in Page |-> Oracle(mul(page_bias(i), task_bias(next[ct])))]])
    /\ UNCHANGED <<page, holding>>

\* gpu_tg2, the odd part of one task.  Pages 2 pos and 2 pos + 1 of p hold the
\* coefficients of page pos of the halves; beyond the middle there are none.
\* The chunks of p are pushed on the thread's stack and, when p0 p1 > 1, the
\* even half is written to chunks popped from it: a task below the middle of
\* its block pushes one more than it pops, one above pops one more.
Full(task) == {i \in 0 .. PP - 1 : task + i * Tpages < Pages \div 2}
Pushed(task) == [k \in 1 .. 2 * Cardinality(Full(task)) |->
                   page["p"][2 * (task + ((k - 1) \div 2) * Tpages) + ((k - 1) % 2)]]
Popped(stack, i) == IF Len(stack) - i > 0 THEN stack[Len(stack) - i] ELSE -1
PlaceAt(list, task, ck) ==
    [j \in DOMAIN list \cup {task + i * Tpages : i \in 0 .. PP - 1} |->
       IF j % Tpages = task THEN ck[CHOOSE i \in 0 .. PP - 1 : Transposed(i, group) = j \div Tpages]
                            ELSE list[j]]

Tg2OddTask(ct) ==
    /\ At({"tg2Odd"})
    /\ TakeTask(ct)
    /\ LET task == next[ct]
           src(i, n) == page["p"][2 * (task + i * Tpages) + n]
           half(i, odd) == IF i \notin Full(task) THEN Zero
                           ELSE [l \in Page |->
                                  LET j == 2 * l + odd
                                  IN Values(src(i, j \div page_u64))[j % page_u64]]
           halves(odd) == LET buf == [i \in 0 .. PP - 1 |-> half(i, odd)]
                          IN IF PP = 1 THEN buf ELSE OddTransform(buf, group)
           stack == holding[ct] \o Pushed(task)
           cke == IF PP = 1 THEN Fresh(1) ELSE [i \in 0 .. PP - 1 |-> Popped(stack, i)]
           cko == [i \in 0 .. PP - 1 |-> page["f1"][task + i * Tpages]]
           written == Write([id \in {cke[i] : i \in 0 .. PP - 1} \cup {cko[i] : i \in 0 .. PP - 1} |->
                        LET i == CHOOSE i \in 0 .. PP - 1 : id \in {cke[i], cko[i]}
                        IN IF id = cke[i] THEN halves(0)[i] ELSE halves(1)[i]])
       IN /\ data' = IF PP = 1 /\ Full(task) # {} THEN Drop(written, {src(0, 0), src(0, 1)})
                                                 ELSE written
          /\ holding' = IF PP = 1 THEN holding
                        ELSE [holding EXCEPT ![ct] = SubSeq(stack, 1, Len(stack) - PP)]
          /\ page' = [page EXCEPT !["f0"] = PlaceAt(@, task, cke),
                                  !["f1"] = PlaceAt(@, task, cko)]

\* ctp.wait(): the stage ends when every thread has done its tasks.
StageDone ==
    /\ At(TaskStages)
    /\ \A ct \in Threads : next[ct] >= Tasks
    /\ EndStage
    /\ UNCHANGED <<group, input, page, data, holding>>

Finished == stages = <<>> /\ UNCHANGED vars

-----------------------------------------------------------------------------

tg2_gpu_runsAny(G) == G.e2 >= gpuBits

\* tg2_gpu aborts on smaller groups.
tg2_gpu_runs(G) == G.e2 > tg2Bits

StagesOf(op) == CASE op = "mul" -> MulStages [] op = "tg2" -> Tg2Stages
                  [] op = "tg2_gpu" -> GpuTg2Stages [] op = "eval" -> EvalStages

\* The call op(a, b) with a group G, the polynomials in chunks of their own.
Start(op, G, a, c) ==
    /\ group = G
    /\ op = "tg2_gpu" => tg2_gpu_runs(G)
    /\ input = [op |-> op, a |-> a, b |-> c]
    /\ LET loaded == IF op = "mul" THEN <<"f0", "f1">> ELSE IF op = "eval" THEN <<>> ELSE <<"p">>
           list(k) == [i \in 0 .. Pages - 1 |-> i + (k - 1) * Pages]
           src(k) == IF k = 1 THEN a ELSE c
       IN /\ page = [f \in Polys |->
                       IF \E k \in DOMAIN loaded : loaded[k] = f
                       THEN list(CHOOSE k \in DOMAIN loaded : loaded[k] = f) ELSE noPages]
          /\ data = [id \in 0 .. Len(loaded) * Pages - 1 |->
                       [l \in Page |-> LET j == (id % Pages) * page_u64 + l
                                       IN IF j < N THEN src(id \div Pages + 1)[j] ELSE 0]]
    /\ stages = StagesOf(op)
    /\ next = [ct \in Threads |-> ct]
    /\ holding = [ct \in Threads |-> <<>>]

Next ==
    \/ EvenBlock \/ EvenPost \/ Permute \/ Split \/ Give \/ ClearTail
    \/ Alloc \/ Tg2Top \/ Tg2Group \/ Tg2Back \/ Tg2Give \/ StageDone \/ Finished
    \/ \E ct \in Threads : OddTask(ct) \/ EvalTask(ct) \/ Tg2OddTask(ct)

=============================================================================
