----------------------------- MODULE PolySafety -----------------------------
(***************************************************************************)
(* What the operations and algorithms of Poly promise, against polynomials *)
(* reduced, multiplied and evaluated from the definition.                  *)
(***************************************************************************)
EXTENDS Poly

\* The pages a call, or a thread of period_red, fetches.
Fetched ==
    LET n == fft_pages(TheCall.n)
        all(f, m) == {IdOf(f, k) : k \in 0 .. m - 1}
    IN IF calls = <<>> THEN {}
       ELSE CASE TheCall.op \in {"free", "enum", "sync", "load"} -> all(TheCall.f, poly[TheCall.f].pages)
              [] TheCall.op = "copy" -> all(TheCall.g, poly[TheCall.g].pages)
              [] TheCall.op \in {"fft", "invfft", "tg2"} -> all(TheCall.f, n)
              [] TheCall.op \in {"fftMul", "compose"} -> all(TheCall.f, n) \cup all(TheCall.g, n)
              [] TheCall.op = "collect" -> all(TheCall.f, fft_pages(TheCall.n * TheCall.x))
              [] TheCall.op = "red" ->
                   {IdOf("p", worker[w].task) : w \in {w \in Workers : worker[w] # Idle}}
                   \cup {IdOf("p", SegPage(w) + (IF worker[w].at = "rest" THEN 1 ELSE 0)) : w \in {w \in Workers :
                           worker[w] # Idle /\ worker[w].seg < RedPages * page_u64}}
              [] OTHER -> {}

\* No operation fetches a chunk that is deleted, or a page that a polynomial
\* was never given: the page lists that one call leaves are those the next one
\* takes for granted, and no thread of period_red comes to a page after the
\* thread that used it up.
FetchedLive == Fetched \subseteq DOMAIN data

\* The pages that collect neither reads, having enough coefficients, nor
\* deletes as beyond the last coefficient: those that begin between the two.
Passed(n, tg) == {k \in 1 .. fft_pages(tg * n) : k * page_u64 \in tg * (n - 1) + 1 .. tg * n - 1}

\* The places of the lists, a polynomial and a number, and the chunks there.
Places ==
    LET longest == Max({poly[f].pages : f \in Polys})
    IN {o \in Polys \X (0 .. longest - 1) : o[2] < poly[o[1]].pages}
IdsAt(places) == {IdOf(o[1], o[2]) : o \in places}

Collected == input.op = "tg" /\ \A i \in DOMAIN calls : calls[i].op # "collect"

\* Between calls every live chunk is on exactly one list, once, and every
\* listed chunk is live; nothing is live when an algorithm that destroys its
\* polynomials ends.  The exceptions are a page that sync could not write and
\* reported, and the pages that collect passes over (none for the sizes in
\* roots).
ChunksOwned ==
    (~At("red") /\ ~failed) =>
        LET listed == Places
        IN /\ IdsAt(listed) \subseteq DOMAIN data
           /\ Cardinality(IdsAt(listed)) = Cardinality(listed)
           /\ Cardinality(DOMAIN data) =
                Cardinality(listed) + IF Collected THEN Cardinality(Passed(input.n, input.x)) ELSE 0
           /\ calls = <<>> /\ input.op \in {"roots", "root"} => listed = {}

Done(op) == calls = <<>> /\ input.op = op
Input(i) == IF i \in DOMAIN input.a THEN input.a[i] ELSE 0
ValueAt(x) == Total(input.n, [i \in 0 .. input.n - 1 |-> input.a[i] * power(x, i)])

\* period_red leaves p modulo x^period - ratio, zeros after it, in the pages
\* of a transform of that size, whatever the order of the tasks.
Reduced ==
    Done("red") =>
        LET period == input.x.period
            n == fft_pages(period)
            turn(i) == power(input.x.ratio, i \div period)
        IN /\ poly["p"].pages = n
           /\ Coefficients("p", n) =
                [i \in 0 .. n * page_u64 - 1 |->
                   IF i >= period THEN 0
                   ELSE Total(input.n, [j \in 0 .. input.n - 1 |->
                                          IF j % period = i THEN input.a[j] * turn(j) ELSE 0])]

\* tg_k leaves r with r(x^k) the product of p(w^j x) over the k-th roots of
\* unity w^j: r vanishes exactly at the k-th powers of the roots of p.  The n
\* coefficients of r are told by its values at n points g^(i k).
TgIsNorm ==
    Done("tg") =>
        LET k == input.x
            n == fft_pages(input.n)
            factor(j, y) == ValueAt(power(unity(k), j) * y)
            Product[lo \in 0 .. k, hi \in 0 .. k, y \in Nat] ==
                IF hi = lo + 1 THEN factor(lo, y)
                ELSE LET mid == (lo + hi) \div 2
                     IN (Product[lo, mid, y] * Product[mid, hi, y]) % field.q
        IN /\ poly["p"].pages = n
           /\ \A i \in input.n .. n * page_u64 - 1 : Coefficients("p", n)[i] = 0
           /\ \A i \in 0 .. input.n - 1 :
                LET y == power(field.g, i) IN Horner("p", power(y, k)) = Product[0, k, y]

\* roots finds the common roots of p and x^period - ratio, all of them, or as
\* many as there is room for; root finds one if there is one but 0.
RootsFound ==
    LET is(x) == ValueAt(x) = 0
        roots == {x \in 1 .. field.q - 1 :
                    is(x) /\ (input.op = "roots" => power(x, input.x.period) = input.x.ratio)}
        AsMany(found) == /\ found \subseteq roots
                         /\ Cardinality(found) = Min({roots_limit, Cardinality(roots)})
    IN /\ Done("roots") => AsMany(ret)
       /\ Done("root") => ret \subseteq roots /\ (ret = {} => roots = {})

\* The polynomial that was stored, in its pages; files of before that the
\* clearing of the directories left behind it can only add pages.
CameBack ==
    LET n == fft_pages(input.n)
    IN /\ poly["p"].pages >= n
       /\ Coefficients("p", n) = [i \in 0 .. n * page_u64 - 1 |-> Input(i)]
       /\ \A k \in n .. poly["p"].pages - 1 :
            k \in input.x.old /\ Values(IdOf("p", k)) = Before

\* A polynomial stored with sync comes back with load unless one of the two
\* returned an error, also when the source is removed on the way, whatever
\* directory, file, read or write fails, and whatever files were there before.
\* The exception is a load that could not read the number of files (87).
SavedOrReported == Done("save") /\ ~failed /\ ~uncounted => CameBack

\* The same without the exception: a load that has failed returns an error.
SavedOrReturned == Done("save") /\ ~failed => CameBack

=============================================================================
