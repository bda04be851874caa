--------------------------- MODULE TransformSafety ---------------------------
(***************************************************************************)
(* What the transforms of Transforms compute, against polynomials          *)
(* multiplied and evaluated from the definition, and what becomes of the   *)
(* chunks on the way.                                                      *)
(***************************************************************************)
EXTENDS Transforms

Coefficients(f) == [j \in 0 .. N - 1 |-> Values(page[f][j \div page_u64])[j % page_u64]]

Done(ops) == stages = <<>> /\ input.op \in ops

\* Transforming two polynomials, multiplying their values page by page and
\* transforming back multiplies them modulo x^N - 1, for every group, on the
\* host and on the device (fft_impl with post = 1, invfft_impl).
ProductCyclic ==
    Done({"mul"}) =>
        Coefficients("f0") =
            [k \in 0 .. N - 1 |-> SumOf(N, LAMBDA i : input.a[i] * input.b[(k - i) % N])]

\* tg2 and gpu_tg2 replace p by the r with r(x^2) = p(x) p(-x), by their
\* different routes.
Tg2IsGraeffe ==
    Done({"tg2", "tg2_gpu"}) =>
        Coefficients("p") =
            [k \in 0 .. N - 1 |->
               SumOf(2 * k + 1, LAMBDA i :
                     IF i >= N \/ 2 * k - i >= N THEN 0
                     ELSE IF i % 2 = 0 THEN input.a[i] * input.a[2 * k - i]
                                       ELSE -(input.a[i] * input.a[2 * k - i]))]

\* eval samples the oracle at the points, and in the order, that invfft takes
\* its values from: together they give the oracle's polynomial.
EvalInterpolates == Done({"eval"}) => Coefficients("p") = input.a

\* A chunk that a device thread of gpu_tg2 keeps for reuse is live, is kept
\* once, and is on no list of the polynomials it is writing; and no chunk is
\* taken from an empty stack.
HeldOnce ==
    /\ -1 \notin IdsOf("f0")
    /\ \A ct \in Threads : \A i \in DOMAIN holding[ct] :
         /\ holding[ct][i] \in DOMAIN data
         /\ holding[ct][i] \notin IdsOf("f0") \cup IdsOf("f1")
         /\ \A d \in Threads : \A j \in DOMAIN holding[d] :
              holding[d][j] = holding[ct][i] => d = ct /\ i = j

\* When an operation ends, the chunks that are live are those of its result,
\* each once: none is left on a stack, in fe, fo, f0 or f1, and none of the
\* result's was deleted.
NoChunkLost ==
    stages = <<>> =>
        LET res == IF input.op = "mul" THEN "f0" ELSE "p"
        IN /\ DOMAIN data = IdsOf(res)
           /\ Cardinality(IdsOf(res)) = Pages
           /\ \A f \in Polys \ {res} : page[f] = noPages

(***************************************************************************)
(* The operators the transforms are built from, on the operands of the     *)
(* run's multiplications.                                                  *)
(***************************************************************************)
Multiplied == input.op = "mul" /\ stages = StagesOf("mul")

\* add and sub are exact modulo the modulus although x + y and x - y may leave
\* the word, and so is the product of the kernels, which folds the four 32 bit
\* products with a sum that may wrap below zero; inv inverts; and root finds an
\* e-th root of everything that has one, for every factor e of the order,
\* with rou(e) generating the other ones.
FieldExact ==
    Multiplied =>
        \A x \in {input.a[0]} :
            /\ \A y \in Field : /\ add(x, y) = (x + y) % modulus
                                /\ sub(x, y) = (x - y) % modulus
                                /\ cumul(x, y) = (x * y) % modulus
            /\ x # 0 => mul(x, inv(x)) = 1
            /\ \A e \in {2, 3, 5} :
                 LET roots == {y \in Field : pow[y, e] = x}
                     r == root(x, e)
                 IN IF r = NONE THEN roots = {}
                    ELSE roots = {mul(r, pow[rou(e), j]) : j \in 0 .. e - 1}

\* fft_group gives the fewest points that hold a size, and the pages that
\* next_smaller_pages promises hold no more coefficients than the size has, so
\* that period_red never enlarges a polynomial.
SizesFit ==
    Multiplied /\ N = 2 =>
        \A size \in {s \in Sizes : s % modulus = input.a[0]} :
            LET smaller == {GroupSize(k) : k \in DOMAIN OddGroups} \cup {2^e : e \in 0 .. Log2[b]}
            IN /\ PointsOf(fft_group(size)) >= size
               /\ \A n \in smaller : n >= size => n >= PointsOf(fft_group(size))
               /\ size > page_u64 => next_smaller_pages(size) * page_u64 <= size

\* The kernels find, for every layer and block, the factor the host packed for
\* it: for pages and rows of every size that the input fills, and for columns
\* of every height.
KernelsReadTheirFactors ==
    Multiplied =>
        LET w == [E \in Nat, k \in Nat |-> add(mul(E + 2, k), 1)]
            c(n) == [j \in 0 .. 2^n - 1 |-> input.a[j]]
            bias == [E \in Nat |-> E + 5]
        IN /\ \A n \in {n \in 1 .. 6 : 2^n <= N} : \A r \in {r \in 1 .. n - 1 : n <= 2 * r} :
                LET gp_rev == [k \in 0 .. 2^n - 1 |-> (5 * k + 1) % modulus]
                    twist == compute_chunk_twist(n, r, gp_rev)
                    factor == [E \in Nat, k \in Nat |-> mul(bias[E], gp_rev[k])]
                IN /\ kernel_fft_e18(c(n), n, r, twist, bias) = Layers(c(n), 0, n, 1, factor)
                   /\ kernel_invfft_e18(c(n), n, r, twist, bias, 9) =
                        InvLayers([j \in DOMAIN c(n) |-> mul(9, c(n)[j])], 0, n, 1, factor)
           /\ \A h \in {h \in 1 .. 6 : page_u64 * 2^h <= N} :
                LET d == c(PageBits + h)
                    twist == PackTwist(3, 3 + h, w)
                    factor == [E \in Nat, k \in Nat |-> w[E + 3, k]]
                IN /\ kernel_fft_e32(d, h, twist) = Layers(d, 0, h, page_u64, factor)
                   /\ kernel_invfft_e32(d, h, twist) = InvLayers(d, 0, h, page_u64, factor)

=============================================================================
