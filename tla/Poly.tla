-------------------------------- MODULE Poly --------------------------------
(***************************************************************************)
(* Polynomials (src/poly.cpp, src/poly.h): poly_t and its pages, the       *)
(* operations on them, and the algorithms made of those operations, tg3 to *)
(* tg257, roots and the driver root, as sequences of calls.                *)
(*                                                                         *)
(* Each call is one step, but for period_red, whose threads are modelled   *)
(* with the pages they hold.  A transformed polynomial is represented by   *)
(* its coefficients and the number of points in `points', and tg2 and eval *)
(* by their results: Transforms shows that those are what the code         *)
(* computes.  An identity is never used for a second chunk, so that the    *)
(* use of a deleted chunk shows; 1 is read from one.                       *)
(*                                                                         *)
(* The field is the integers modulo field.q, of which field.g generates    *)
(* the units.                                                              *)
(***************************************************************************)
EXTENDS FftSizes, FiniteSets, SequencesExt, FiniteSetsExt

CONSTANTS Workers,                  \* the threads of period_red
          roots_limit               \* 1023 in the code

ASSUME PolyAssumption == Workers # {} /\ roots_limit \in Nat \ {0}

VARIABLES
    field,       \* q and g
    input,       \* the operation and what it was called with
    calls,       \* the calls left
    poly,        \* poly_t: _max_pages, pages and page of every polynomial
    points,      \* what a polynomial is transformed to, or 0
    data,        \* chunk |-> coefficients, for the live chunks
    made,        \* number of chunks made so far
    ret,         \* the roots found
    odd_parts,   \* the roots that root has still to try
    left,        \* period_red: tasks not yet taken
    chunk_used,  \* period_red: coefficients of a page already added
    worker,      \* period_red: what a thread is doing
    files,       \* the directory that sync writes and load reads
    failed,      \* sync or load returned an error
    uncounted    \* load went on without the number of files

vars == <<field, input, calls, poly, points, data, made, ret, odd_parts, left,
          chunk_used, worker, files, failed, uncounted>>
redVars  == <<chunk_used, worker>>
fileVars == <<files, failed, uncounted>>
rootVars == <<ret, odd_parts>>

Copies == <<"c0", "c1", "c2", "c3">>
Polys  == {"p", "f", "g"} \cup {Copies[i] : i \in 1 .. 4}
Page   == 0 .. page_u64 - 1
Zero   == [l \in Page |-> 0]
Short  == [l \in Page |-> -1]       \* what a short read or write leaves
Before == [l \in Page |-> -2]       \* a page of a polynomial stored before
noPoly == [max |-> 0, pages |-> 0, page |-> [k \in {} |-> 0]]
Idle   == [at |-> "idle"]

-----------------------------------------------------------------------------
(* Coefficients and polynomials. *)

power(x, e) ==
    LET P[y \in Nat, n \in Nat] ==
          IF n = 0 THEN 1
          ELSE IF n % 2 = 1 THEN (y * P[(y * y) % field.q, n \div 2]) % field.q
                            ELSE P[(y * y) % field.q, n \div 2]
    IN P[x % field.q, e]

unity(e) == power(field.g, (field.q - 1) \div e)

\* The sum of t[0] to t[n - 1].
Total(n, t) ==
    LET S[lo \in 0 .. n, hi \in 0 .. n] ==
          IF hi = lo THEN 0
          ELSE IF hi = lo + 1 THEN t[lo] % field.q
          ELSE LET mid == (lo + hi) \div 2 IN (S[lo, mid] + S[mid, hi]) % field.q
    IN S[0, n]

\* The number of coefficients of c up to its last that is not 0.
Reach(c) == Max({0} \cup {i + 1 : i \in {i \in DOMAIN c : c[i] # 0}})

\* The product modulo x^n - 1 of the first n coefficients of two polynomials.
Cyclic(n, c, d) ==
    LET cc == [i \in 0 .. n - 1 |-> IF i \in DOMAIN c THEN c[i] ELSE 0]
        dd == [i \in 0 .. n - 1 |-> IF i \in DOMAIN d THEN d[i] ELSE 0]
        reach == Reach(cc)
    IN [k \in 0 .. n - 1 |-> Total(reach, [i \in 0 .. reach - 1 |-> cc[i] * dd[(k - i) % n]])]

Values(id) == IF id \in DOMAIN data THEN data[id] ELSE [l \in Page |-> 1]
IdOf(f, k) == IF k \in DOMAIN poly[f].page THEN poly[f].page[k] ELSE -1
IdsOf(f, ks) == {IdOf(f, k) : k \in ks}

\* The coefficients in the first n pages of f.
Coefficients(f, n) ==
    [i \in 0 .. n * page_u64 - 1 |-> Values(IdOf(f, i \div page_u64))[i % page_u64]]

Horner(f, x) ==
    LET c == Coefficients(f, poly[f].pages)
    IN Total(poly[f].pages * page_u64, [i \in DOMAIN c |-> c[i] * power(x, i)])

\* data with the coefficients c written to the chunks of list.
Stored(d, list, c) ==
    LET in == {list[k] : k \in DOMAIN list} \cap DOMAIN d
        at == [id \in in |-> CHOOSE k \in DOMAIN list : list[k] = id]
    IN [id \in DOMAIN d |->
          IF id \notin in THEN d[id]
          ELSE [l \in Page |-> LET i == at[id] * page_u64 + l
                               IN IF i \in DOMAIN c THEN c[i] ELSE d[id][l]]]

Without(d, ids) == [id \in DOMAIN d \ ids |-> d[id]]
With(d, n) == [id \in DOMAIN d \cup made .. made + n - 1 |->
                 IF id \in DOMAIN d THEN d[id] ELSE Zero]

-----------------------------------------------------------------------------
(* The calls. *)

Call(op, f, g1, n, x) == [op |-> op, f |-> f, g |-> g1, n |-> n, x |-> x]
New(f, n)          == Call("new", f, f, n, 0)
Alloc(f, n)        == Call("alloc", f, f, n, 0)
Free(f)            == Call("free", f, f, 0, 0)
Copy(f, from)      == Call("copy", f, from, 0, 0)
Eval(n)            == Call("eval", "p", "p", n, 0)
Fft(f, n)          == Call("fft", f, f, n, 0)
FftMul(f, dst, n)  == Call("fftMul", f, dst, n, 0)
InvFft(f, n)       == Call("invfft", f, f, n, 0)
Tg2(n)             == Call("tg2", "p", "p", n, 0)
Compose(dst, f, n, x)   == Call("compose", f, dst, n, x)
Collect(f, n, tg)       == Call("collect", f, "p", n, tg)
TakeOver(n)             == Call("take", "p", "g", n, 0)
Red(n, period, ratio)   == Call("red", "p", "p", n, [period |-> period, ratio |-> ratio])
Enum(f, e)              == Call("enum", f, f, e, 0)
Ratio(x)                == Call("ratio", "p", "p", 0, x)
OddParts                == Call("oddParts", "p", "p", 0, 0)
Try                     == Call("try", "p", "p", 0, 0)
Sync(rm_src)            == Call("sync", "p", "p", 0, rm_src)
Load(rm_src)            == Call("load", "p", "p", 0, rm_src)

At(op) == calls # <<>> /\ Head(calls).op = op
TheCall == Head(calls)
Tasks(period) == (period - 1) \div page_u64 + 1

\* The next call starts; when it is period_red its list of tasks is made.
Start(rest) ==
    /\ calls' = rest
    /\ left' = IF rest # <<>> /\ Head(rest).op = "red"
               THEN 0 .. Tasks(Head(rest).x.period) - 1 ELSE {}

EndCall == Start(Tail(calls))

\* tg_k(p, n): the factors p(w^j x) of the norm are multiplied by doubling: the
\* polynomial of size s[i] n in f, times itself in w^e[i] x.  The sizes s, the
\* exponents e.
TgSizes(k) ==
    CASE k = 3 -> <<3>> [] k = 5 -> <<2, 5>> [] k = 17 -> <<2, 4, 8, 17>>
      [] k = 257 -> <<2, 4, 8, 16, 32, 64, 128, 257>>
TgExponentsEven(k) ==
    CASE k = 3 -> <<2>> [] k = 5 -> <<2, 1>> [] k = 17 -> <<8, 4, 2, 1>>
      [] k = 257 -> <<128, 64, 32, 16, 8, 4, 2, 1>>
TgExponents(k) ==
    CASE k = 3 -> <<2>> [] k = 5 -> <<3, 1>> [] k = 17 -> <<9, 4, 2, 1>>
      [] k = 257 -> <<129, 64, 32, 16, 8, 4, 2, 1>>

Tg(k, n) ==
    LET s == TgSizes(k)
        all == fft_pages(k * n)
        w(i) == power(unity(k), TgExponents(k)[i])
        Double(i) ==
            IF i = 1
            THEN <<Alloc("f", fft_pages(s[1] * n)), Alloc("g", fft_pages(s[1] * n)),
                   Compose("f", "p", n, unity(k)), Compose("g", "p", n, w(1))>>
            ELSE <<InvFft("f", s[i - 1] * n), Alloc("g", fft_pages(s[i] * n)),
                   Compose("g", "f", s[i - 1] * n, w(i)), Alloc("f", fft_pages(s[i] * n))>>
        Step(i) == Double(i) \o <<Fft("f", s[i] * n), FftMul("g", "f", s[i] * n)>>
    IN <<New("f", all), New("g", all)>>
       \o FlattenSeq([i \in DOMAIN s |-> Step(i)])
       \o <<TakeOver(n), Alloc("g", all), FftMul("g", "f", k * n), InvFft("f", k * n),
            Collect("f", n, k), Free("g"), Free("f")>>

\* The odd factors of the order; 3, 5, 17, 257 and 65537 in the code.
OddPrimes == <<3, 5>>
Quotient[i \in 0 .. Len(OddPrimes)] == IF i = 0 THEN b - 1 ELSE Quotient[i - 1] \div OddPrimes[i]

\* roots(p, n, period, ratio), for the periods b = 2^32 and b - 1: reduced to
\* x^period = ratio, p is replaced by the polynomial of the squares (the i-th
\* powers) of its roots until the period is 2 (the last prime); then the roots
\* are found by taking roots of those of the polynomial before.
RootsCode(n, period, ratio) ==
    <<Red(n, period, ratio)>> \o
    IF period = b
    THEN LET m == Log2[b] - 1
         IN FlattenSeq([i \in 1 .. m |->
              <<Copy(Copies[i], "p"), Tg2(b \div 2^(i - 1)),
                Red(b \div 2^(i - 1), b \div 2^i, ratio)>>])
            \o <<Ratio(ratio), Enum("p", 2)>>
            \o [i \in 1 .. m |-> Enum(Copies[m + 1 - i], 2)]
    ELSE LET m == Len(OddPrimes) - 1
         IN FlattenSeq([i \in 1 .. m |->
              <<Copy(Copies[i], "p")>> \o Tg(OddPrimes[i], Quotient[i - 1])
              \o <<Red(Quotient[i - 1], Quotient[i], 1)>>])
            \o <<Ratio(1), Enum("p", OddPrimes[m + 1])>>
            \o [i \in 1 .. m |-> Enum(Copies[m + 1 - i], OddPrimes[m + 1 - i])]

\* root: squarings until the order is odd, reducing when that saves pages.
Halve[order \in 1 .. modulus, n \in 1 .. modulus] ==
    IF order % 2 = 1 THEN <<Sync(FALSE)>> \o RootsCode(n, order, 1)
    ELSE IF order <= next_smaller_pages(n) * page_u64
         THEN <<Red(n, order, 1), Tg2(order)>> \o Halve[order \div 2, order]
         ELSE <<Tg2(n)>> \o Halve[order \div 2, n]

RootCode(n) == <<New("p", fft_pages(n)), Eval(n)>> \o Halve[b * (b - 1), n]
               \o <<OddParts, Try, Free("p")>>

-----------------------------------------------------------------------------
(* poly_t. *)

SetPages(f, n) == poly' = [poly EXCEPT ![f].pages = n]

\* The constructor of a local polynomial.
NewPoly ==
    /\ At("new")
    /\ poly' = [poly EXCEPT ![TheCall.f] = [noPoly EXCEPT !.max = TheCall.n]]
    /\ EndCall
    /\ UNCHANGED <<field, input, points, data, made, rootVars, redVars, fileVars>>

\* alloc_page gives f the pages from its own up to n, unless n is too many.
Added(q, f, n) == IF n > q[f].max \/ n <= q[f].pages THEN 0 ELSE n - q[f].pages
Grown(q, f, n) ==
    LET was == q[f]
        new == was.pages .. was.pages + Added(q, f, n) - 1
    IN [q EXCEPT ![f].pages = IF n > was.max \/ n < was.pages THEN was.pages ELSE n,
                 ![f].page = [k \in DOMAIN was.page \cup new |->
                                IF k \in new THEN made + k - was.pages ELSE was.page[k]]]

AllocPage ==
    /\ At("alloc")
    /\ LET f == TheCall.f
           n == Added(poly, f, TheCall.n)
       IN /\ poly' = Grown(poly, f, TheCall.n)
          /\ data' = With(data, n)
          /\ made' = made + n
    /\ EndCall
    /\ UNCHANGED <<field, input, points, rootVars, redVars, fileVars>>

\* The destructor: free_page of every page left.
FreePage ==
    /\ At("free")
    /\ data' = Without(data, IdsOf(TheCall.f, 0 .. poly[TheCall.f].pages - 1))
    /\ SetPages(TheCall.f, 0)
    /\ points' = [points EXCEPT ![TheCall.f] = 0]
    /\ EndCall
    /\ UNCHANGED <<field, input, made, rootVars, redVars, fileVars>>

CopyFrom ==
    /\ At("copy")
    /\ LET other == poly[TheCall.g]
           list == [k \in 0 .. other.pages - 1 |-> made + k]
       IN /\ poly' = [poly EXCEPT ![TheCall.f] = [other EXCEPT !.page = list]]
          /\ data' = Stored(With(data, other.pages), list, Coefficients(TheCall.g, other.pages))
          /\ made' = made + other.pages
    /\ EndCall
    /\ UNCHANGED <<field, input, points, rootVars, redVars, fileVars>>

\* Faults are injected where the result of sync is used again.
Faults(places) == IF input.op = "save" THEN SUBSET places ELSE {{}}

\* sync and load return -1 if a file could not be opened, or if a read or a
\* write was short.
ReportedIfClosed(closed, short) == closed # {}
Reported(closed, short) == closed # {} \/ short # {}

\* The files of page numbers are spread over four directories.
popcount[n \in Nat] == IF n = 0 THEN 0 ELSE (n % 2) + popcount[n \div 2]
hash_to_dir(id) == (popcount[id] + popcount[3 * id] + (id % 4)) % 4

\* sync makes one directory after the other and deletes the files it had; the
\* first that cannot be made (0 stands for their parent, too) ends the call.
\* The result of the deletion is not looked at: `kept' is what it has left.
NoDirectory ==
    /\ \E i \in UNION Faults(0 .. 3), kept \in Faults(DOMAIN files) :
         files' = Without(files, {k \in DOMAIN files \ kept : hash_to_dir(k) < i})
    /\ failed' = TRUE
    /\ UNCHANGED <<poly, data>>

\* Then every page is written to a file of its own.  A page whose file could
\* not be opened is neither written nor deleted.  A file that was kept is not
\* cut: after a short write it has the length of a page as before.
WritePages ==
    LET f == TheCall.f
        all == 0 .. poly[f].pages - 1
    IN \E kept \in Faults(DOMAIN files), closed \in Faults(all), short \in Faults(all) :
         /\ files' = [k \in kept \cup (all \ closed) |->
                        IF k \in all \ (closed \cup short) THEN Values(IdOf(f, k))
                        ELSE IF k \in kept THEN files[k] ELSE Short]
         /\ failed' = (failed \/ Reported(closed, short \ closed))
         /\ data' = IF TheCall.x THEN Without(data, IdsOf(f, all \ closed)) ELSE data
         /\ IF TheCall.x THEN SetPages(f, 0) ELSE UNCHANGED poly

SyncPoly ==
    /\ At("sync")
    /\ NoDirectory \/ WritePages
    /\ EndCall
    /\ UNCHANGED <<field, input, points, made, rootVars, redVars, uncounted>>

\* load gives up before it changes anything: a directory is missing or cannot
\* be read, the files cannot be counted, or are not the first so many.
CountFiles == Cardinality(DOMAIN files)
LoadRefused ==
    /\ failed' = TRUE
    /\ UNCHANGED <<poly, data, made, files, uncounted>>

\* A count that cannot be read (87) is logged, and load goes on with -1: the
\* test of the names is unsigned and lets each pass, alloc_page(-1) fills the
\* list, free_page(-1) empties it, and no page is read.
LoadUncounted ==
    LET f == TheCall.f
        full == poly[f].max
    IN /\ poly' = [Grown(poly, f, full) EXCEPT ![f].pages = 0]
       /\ made' = made + Added(poly, f, full)
       /\ data' = Without(data, IdsOf(f, 0 .. poly[f].pages - 1))
       /\ uncounted' = TRUE
       /\ UNCHANGED <<files, failed>>

\* As many pages as there are files, for which the list must have room.  The
\* page of a file that could not be opened keeps what it has.
LoadPages ==
    LET f == TheCall.f
        count == CountFiles
        all == 0 .. count - 1
        n == Added(poly, f, count)
        sized == Grown(poly, f, count)
    IN /\ DOMAIN files = all
       /\ \E closed \in Faults(all), short \in Faults(all) :
            /\ poly' = [sized EXCEPT ![f].pages = Min({count, @})]
            /\ made' = made + n
            /\ data' = Stored(Without(With(data, n), IdsOf(f, count .. poly[f].pages - 1)),
                              [k \in all \ closed |-> sized[f].page[k]],
                              [i \in {i \in 0 .. count * page_u64 - 1 : i \div page_u64 \notin closed} |->
                                 IF i \div page_u64 \in short THEN -1
                                 ELSE files[i \div page_u64][i % page_u64]])
            /\ failed' = (failed \/ Reported(closed, {k \in all \ closed : k \in short \/ files[k] = Short}))
            /\ files' = IF TheCall.x THEN [k \in closed |-> files[k]] ELSE files
       /\ UNCHANGED uncounted

LoadPoly ==
    /\ At("load")
    /\ LoadRefused \/ LoadUncounted \/ LoadPages
    /\ EndCall
    /\ UNCHANGED <<field, input, points, rootVars, redVars>>

-----------------------------------------------------------------------------
(* Transforms, by their results, and the operations between them. *)

\* eval and invfft: the polynomial the operation was called with.
EvalPoly ==
    /\ At("eval")
    /\ LET n == fft_pages(TheCall.n)
           now == Grown(poly, "p", n)
       IN /\ poly' = now
          /\ data' = Stored(With(data, Added(poly, "p", n)), [k \in 0 .. n - 1 |-> now["p"].page[k]],
                            [i \in 0 .. n * page_u64 - 1 |->
                               IF i \in DOMAIN input.a THEN input.a[i] ELSE 0])
          /\ made' = made + Added(poly, "p", n)
    /\ EndCall
    /\ UNCHANGED <<field, input, points, rootVars, redVars, fileVars>>

Forward ==
    /\ At("fft")
    /\ points' = [points EXCEPT ![TheCall.f] = PointsOf(fft_group(TheCall.n))]
    /\ EndCall
    /\ UNCHANGED <<field, input, poly, data, made, rootVars, redVars, fileVars>>

\* fft with post = 1: f is transformed, multiplied into dst, and gone.
ForwardMul ==
    /\ At("fftMul")
    /\ LET dst == TheCall.g
           n == fft_pages(TheCall.n)
           N == PointsOf(fft_group(TheCall.n))
           list == [k \in 0 .. n - 1 |-> IdOf(dst, k)]
           product == IF points[dst] = N
                      THEN Cyclic(N, Coefficients(TheCall.f, n), Coefficients(dst, n))
                      ELSE [i \in 0 .. N - 1 |-> 1]
       IN data' = Without(Stored(data, list, product), IdsOf(TheCall.f, 0 .. n - 1))
    /\ SetPages(TheCall.f, 0)
    /\ EndCall
    /\ UNCHANGED <<field, input, points, made, rootVars, redVars, fileVars>>

Backward ==
    /\ At("invfft")
    /\ points' = [points EXCEPT ![TheCall.f] =
                    IF @ = PointsOf(fft_group(TheCall.n)) THEN 0 ELSE -1]
    /\ EndCall
    /\ UNCHANGED <<field, input, poly, data, made, rootVars, redVars, fileVars>>

\* tg2 and tg2_gpu: r with r(x^2) = p(x) p(-x), in new chunks.
SquareRoots ==
    /\ At("tg2")
    /\ LET n == fft_pages(TheCall.n)
           N == PointsOf(fft_group(TheCall.n))
           c == Coefficients("p", n)
           half(odd) == [i \in 0 .. N - 1 |->
                           IF 2 * i + odd \in DOMAIN c THEN c[2 * i + odd] ELSE 0]
           even == Cyclic(N, half(0), half(0))
           odd == Cyclic(N, half(1), half(1))
           list == [k \in 0 .. n - 1 |-> made + k]
       IN /\ data' = Stored(Without(With(data, n), IdsOf("p", 0 .. n - 1)), list,
                            [i \in 0 .. N - 1 |-> (even[i] - odd[(i - 1) % N]) % field.q])
          /\ poly' = [poly EXCEPT !["p"].page = [k \in DOMAIN @ |->
                                                   IF k < n THEN list[k] ELSE @[k]]]
          /\ made' = made + n
    /\ EndCall
    /\ UNCHANGED <<field, input, points, rootVars, redVars, fileVars>>

\* compose: dst gets p(ratio x); its pages beyond are left alone.
ComposePoly ==
    /\ At("compose")
    /\ LET f == TheCall.f
           n == fft_pages(TheCall.n)
           c == Coefficients(f, n)
       IN data' = Stored(data, [k \in 0 .. n - 1 |-> IdOf(TheCall.g, k)],
                         [i \in DOMAIN c |-> IF points[f] # 0 THEN 1
                                             ELSE (c[i] * power(TheCall.x, i)) % field.q])
    /\ EndCall
    /\ UNCHANGED <<field, input, poly, points, made, rootVars, redVars, fileVars>>

\* tg_k gives the pages of p to g; tg_k's next call transforms it.
TakePages ==
    /\ At("take")
    /\ poly' = [poly EXCEPT !["g"].pages = poly["p"].pages, !["p"].pages = 0,
                  !["g"].page = [k \in DOMAIN @ \cup 0 .. fft_pages(TheCall.n) - 1 |->
                    IF k < fft_pages(TheCall.n) THEN IdOf("p", k) ELSE @[k]]]
    /\ EndCall
    /\ UNCHANGED <<field, input, points, data, made, rootVars, redVars, fileVars>>

\* collect: page t of p gets every tg-th coefficient of the pages t tg and
\* following, until it is full.  The pages read go, and so do those from the
\* one after the last coefficient on.
Read(t, n, tg) ==
    LET size == IF t < Tasks(n) - 1 THEN page_u64 ELSE n - t * page_u64
    IN {k \in t * tg .. t * tg + tg - 1 :
          Cardinality({i \in t * tg * page_u64 .. k * page_u64 - 1 : i % tg = 0}) < size
            \/ k = t * tg}

CollectPoly ==
    /\ At("collect")
    /\ LET n == TheCall.n
           tg == TheCall.x
           f == TheCall.f
           now == Grown(poly, "p", fft_pages(n))
           read == UNION {Read(t, n, tg) : t \in 0 .. Tasks(n) - 1}
           rest == (tg * n - 1) \div page_u64 + 1 .. fft_pages(tg * n) - 1
           c == Coefficients(f, fft_pages(tg * n))
           got == [i \in 0 .. Tasks(n) * page_u64 - 1 |->
                     IF (i * tg) \div page_u64 \in read THEN (IF points[f] = 0 THEN c[i * tg] ELSE 1)
                                                        ELSE 0]
       IN /\ poly' = [now EXCEPT ![f].pages = 0]
          /\ data' = Without(Stored(With(data, Added(poly, "p", fft_pages(n))),
                                    [k \in 0 .. Tasks(n) - 1 |-> now["p"].page[k]], got),
                             IdsOf(f, read \cup rest))
          /\ made' = made + Added(poly, "p", fft_pages(n))
    /\ EndCall
    /\ UNCHANGED <<field, input, points, rootVars, redVars, fileVars>>

-----------------------------------------------------------------------------
(***************************************************************************)
(* period_red: p modulo x^period - ratio.  Task t adds to page t, a segment *)
(* of it after the other, the coefficients at its own plus a multiple of   *)
(* the period; a segment may lie in two pages.  The task list is shuffled, *)
(* so a thread takes any task.  A thread has page t for the whole of its   *)
(* task (it fetched it); the page of a segment is fetched, added, counted  *)
(* and released in one step here, which waits while another thread has it. *)
(***************************************************************************)
Period   == TheCall.x.period
RedPages == fft_pages(TheCall.n)
Used(k)  == IF k \in DOMAIN chunk_used THEN chunk_used[k] ELSE 0
TaskSize(t) == IF t = Tasks(Period) - 1 THEN Period - t * page_u64 ELSE page_u64
FetchedBut(w) == {worker[v].task : v \in {v \in Workers \ {w} : worker[v] # Idle}}

TakeTask(w) ==
    /\ At("red")
    /\ worker[w] = Idle
    /\ \E t \in left \ FetchedBut(w) :
         /\ left' = left \ {t}
         /\ worker' = [worker EXCEPT ![w] = [at |-> "seg", task |-> t,
                          seg |-> t * page_u64 + Period, ratio |-> TheCall.x.ratio]]
    /\ UNCHANGED <<field, input, calls, poly, points, data, made, rootVars, chunk_used, fileVars>>

\* The page is deleted once every one of its coefficients has been added.
UsedUpAtOnce(used) == used > 0
UsedUpAfter(used)  == used > page_u64
UsedUp(used) == used = page_u64

\* num coefficients of page k from pos on are added to the task's page from
\* place `to' on.
AddSegment(w, k, pos, to, num, next) ==
    /\ k # worker[w].task => k \notin FetchedBut(w)
    /\ LET acc == IdOf("p", worker[w].task)
           sum == [l \in Page |->
                     (Values(acc)[l] + (IF l \in to .. to + num - 1
                                        THEN Values(IdOf("p", k))[pos + l - to] * worker[w].ratio
                                        ELSE 0)) % field.q]
           used == Used(k) + num
       IN /\ chunk_used' = [j \in DOMAIN chunk_used \cup {k} |-> IF j = k THEN used ELSE chunk_used[j]]
          /\ data' = Without(Stored(data, [i \in {0} |-> acc], sum),
                             IF k # worker[w].task /\ UsedUp(used) THEN {IdOf("p", k)} ELSE {})
    /\ worker' = [worker EXCEPT ![w] = next]
    /\ UNCHANGED <<field, input, calls, poly, points, made, rootVars, left, fileVars>>

NextSegmentSameRatio(w) == [worker[w] EXCEPT !.at = "seg", !.seg = @ + Period]
NextSegment(w) == [worker[w] EXCEPT !.at = "seg", !.seg = @ + Period,
                                    !.ratio = (@ * TheCall.x.ratio) % field.q]
SegPage(w) == worker[w].seg \div page_u64
SegPos(w)  == worker[w].seg % page_u64
SegNum(w)  == Min({TaskSize(worker[w].task), page_u64 - SegPos(w)})

Segment(w) ==
    /\ At("red")
    /\ worker[w].at = "seg"
    /\ worker[w].seg < RedPages * page_u64
    /\ AddSegment(w, SegPage(w), SegPos(w), 0, SegNum(w),
          IF SegNum(w) < TaskSize(worker[w].task) /\ SegPage(w) # RedPages - 1
          THEN [worker[w] EXCEPT !.at = "rest"] ELSE NextSegment(w))

SegmentRest(w) ==
    /\ At("red")
    /\ worker[w].at = "rest"
    /\ AddSegment(w, SegPage(w) + 1, 0, SegNum(w), TaskSize(worker[w].task) - SegNum(w),
                  NextSegment(w))

TaskDone(w) ==
    /\ At("red")
    /\ worker[w].at = "seg"
    /\ worker[w].seg >= RedPages * page_u64
    /\ worker' = [worker EXCEPT ![w] = Idle]
    /\ UNCHANGED <<field, input, calls, poly, points, data, made, rootVars, left, chunk_used, fileVars>>

\* All threads are done: the end of the last page is cleared, and p gets the
\* pages of a transform of the new size.
RedDone ==
    /\ At("red")
    /\ left = {} /\ \A w \in Workers : worker[w] = Idle
    /\ LET last == Tasks(Period) - 1
           n == fft_pages(Period)
           cut == [poly EXCEPT !["p"].pages = last + 1]
           more == Added(cut, "p", n)
       IN /\ poly' = Grown(cut, "p", n)
          /\ made' = made + more
          /\ data' = With([id \in DOMAIN data |->
                IF id # IdOf("p", last) THEN data[id]
                ELSE [l \in Page |-> IF last * page_u64 + l < Period THEN data[id][l] ELSE 0]], more)
    /\ chunk_used' = [k \in {} |-> 0]
    /\ EndCall
    /\ UNCHANGED <<field, input, points, rootVars, worker, fileVars>>

-----------------------------------------------------------------------------
(* Roots. *)

\* root and rou: all the e-th roots of the roots found before.
CandidatesOne(e) == {x \in 0 .. field.q - 1 :
    power(x, e) \in ret /\ \A y \in 0 .. x - 1 : power(y, e) # power(x, e)}
Candidates(e) == {x \in 0 .. field.q - 1 : power(x, e) \in ret}

\* enum_roots keeps those of the candidates that are roots of f, as many as
\* there is room for, and destroys f.  Its threads find them in any order.
EnumRoots ==
    /\ At("enum")
    /\ LET f == TheCall.f
           found == {x \in Candidates(TheCall.n) : Horner(f, x) = 0}
       IN /\ IF Cardinality(found) <= roots_limit THEN ret' = found
             ELSE \E some \in kSubset(roots_limit, found) : ret' = some
          /\ data' = Without(data, IdsOf(f, 0 .. poly[f].pages - 1))
          /\ SetPages(f, 0)
    /\ EndCall
    /\ UNCHANGED <<field, input, points, made, odd_parts, redVars, fileVars>>

SetRatio ==
    /\ At("ratio")
    /\ ret' = {TheCall.x}
    /\ EndCall
    /\ UNCHANGED <<field, input, poly, points, data, made, odd_parts, redVars, fileVars>>

\* root: the first call of roots gave the odd parts; each is tried, on the
\* polynomial evaluated again, until one has a root.
KeepOddParts ==
    /\ At("oddParts")
    /\ odd_parts' = ret
    /\ ret' = {}
    /\ EndCall
    /\ UNCHANGED <<field, input, poly, points, data, made, redVars, fileVars>>

TryOddPart ==
    /\ At("try")
    /\ ret = {}
    /\ \E y \in odd_parts :
         /\ odd_parts' = odd_parts \ {y}
         /\ Start(<<Eval(input.n)>> \o RootsCode(input.n, b, y) \o calls)
    /\ UNCHANGED <<field, input, poly, points, data, made, ret, redVars, fileVars>>

Tried ==
    /\ At("try")
    /\ ret # {} \/ odd_parts = {}
    /\ odd_parts' = {}
    /\ EndCall
    /\ UNCHANGED <<field, input, poly, points, data, made, ret, redVars, fileVars>>

-----------------------------------------------------------------------------

Finished == calls = <<>> /\ UNCHANGED vars

CodeOf(op, n, x) ==
    CASE op = "red" -> <<Red(n, x.period, x.ratio)>>
      [] op = "tg" -> Tg(x, n)
      [] op = "roots" -> RootsCode(n, x.period, x.ratio) \o <<Free("p")>>
      [] op = "save" -> <<Sync(x.rm_src), Load(x.rm_src)>>
      [] op = "root" -> RootCode(n)

\* The call op(p, n, x) on the polynomial a, in the field F.  Where it is
\* stored and loaded, files are there of one before, and room for each in p.
Begin(op, F, n, a, x) ==
    /\ field = F
    /\ input = [op |-> op, n |-> n, a |-> a, x |-> x]
    /\ calls = CodeOf(op, n, x)
    /\ left = IF Head(calls).op = "red" THEN 0 .. Tasks(Head(calls).x.period) - 1 ELSE {}
    /\ LET pages == IF op = "root" THEN 0 ELSE fft_pages(n)
           room == IF op = "save" THEN pages + Cardinality(x.old) ELSE pages
       IN /\ poly = [f \in Polys |->
                       IF f = "p" THEN [max |-> room, pages |-> pages,
                                        page |-> [k \in 0 .. pages - 1 |-> k]] ELSE noPoly]
          /\ made = pages
          /\ data = [id \in 0 .. pages - 1 |->
                       [l \in Page |-> LET i == id * page_u64 + l
                                       IN IF i \in DOMAIN a THEN a[i] ELSE 0]]
    /\ points = [f \in Polys |-> 0]
    /\ ret = {} /\ odd_parts = {}
    /\ worker = [w \in Workers |-> Idle]
    /\ chunk_used = [k \in {} |-> 0]
    /\ files = [k \in (IF op = "save" THEN x.old ELSE {}) |-> Before]
    /\ failed = FALSE /\ uncounted = FALSE

Next ==
    \/ NewPoly \/ AllocPage \/ FreePage \/ CopyFrom \/ SyncPoly \/ LoadPoly
    \/ EvalPoly \/ Forward \/ ForwardMul \/ Backward \/ SquareRoots \/ ComposePoly
    \/ TakePages \/ CollectPoly \/ RedDone \/ EnumRoots \/ SetRatio
    \/ KeepOddParts \/ TryOddPart \/ Tried \/ Finished
    \/ \E w \in Workers : TakeTask(w) \/ Segment(w) \/ SegmentRest(w) \/ TaskDone(w)

=============================================================================
