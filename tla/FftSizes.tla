------------------------------ MODULE FftSizes ------------------------------
(***************************************************************************)
(* The sizes of transforms (src/fft.cpp): a polynomial of `size'           *)
(* coefficients is transformed with p0 * p1 * 2^e2 points, and lies in     *)
(* pages of 2^PageBits coefficients.  2^30, 2^31 and 2^32 of the code are  *)
(* b/4, b/2 and b.                                                         *)
(***************************************************************************)
EXTENDS Goldilocks, Sequences

CONSTANT PageBits                   \* 18 in the code

ASSUME PageBitsAssumption == PageBits \in Nat \ {0}

page_u64 == 2^PageBits

\* Position of the highest one bit, 63 - __builtin_clzll(n).
Log2[n \in Nat \ {0}] == IF n = 1 THEN 0 ELSE 1 + Log2[n \div 2]

\* b is a power of two, 2^32 in the code.
ASSUME HalfWordBits == b = 2^Log2[b]

\* The rows of the table: p0, p1 and how far e2 is below 32.
OddGroups ==
    << <<5, 1, 2>>, <<5, 1, 1>>, <<3, 1, 0>>, <<5, 3, 2>>, <<5, 1, 0>>, <<17, 1, 1>>,
       <<17, 1, 0>>, <<17, 3, 1>>, <<17, 5, 1>>, <<17, 5, 0>>, <<257, 1, 1>>,
       <<257, 1, 0>>, <<257, 5, 1>>, <<257, 5, 0>> >>

GroupSize(k) == (OddGroups[k][1] * OddGroups[k][2] * b) \div 2^OddGroups[k][3]

\* Beyond the last row fft_group reports an error and sets nothing; with one
\* coefficient it counts the leading zeros of 0.
Sizes == 2 .. GroupSize(Len(OddGroups))

\* fft_group of a table that takes the first row larger than the size: a full
\* group would get a transform twice or more as long.
fft_groupStrict(size) ==
    IF size < b THEN [p0 |-> 1, p1 |-> 1, e2 |-> Log2[size - 1] + 1]
    ELSE LET k == CHOOSE k \in 1 .. Len(OddGroups) :
                    \/ size < GroupSize(k) /\ \A i \in 1 .. k - 1 : size >= GroupSize(i)
                    \/ k = Len(OddGroups) /\ \A i \in 1 .. k - 1 : size >= GroupSize(i)
         IN [p0 |-> OddGroups[k][1], p1 |-> OddGroups[k][2],
             e2 |-> Log2[b] - OddGroups[k][3]]

fft_group(size) ==
    IF size <= b THEN [p0 |-> 1, p1 |-> 1, e2 |-> Log2[size - 1] + 1]
    ELSE LET k == CHOOSE k \in 1 .. Len(OddGroups) :
                    size <= GroupSize(k) /\ \A i \in 1 .. k - 1 : size > GroupSize(i)
         IN [p0 |-> OddGroups[k][1], p1 |-> OddGroups[k][2],
             e2 |-> Log2[b] - OddGroups[k][3]]

PointsOf(G) == G.p0 * G.p1 * 2^G.e2

fft_pages(size) == (PointsOf(fft_group(size)) - 1) \div page_u64 + 1

next_smaller_pages(size) ==
    IF size < 2 THEN 1
    ELSE IF size < b THEN fft_pages(2^Log2[size - 1])
    ELSE IF size < GroupSize(1) THEN fft_pages(b)
    ELSE fft_pages(GroupSize(CHOOSE k \in 1 .. Len(OddGroups) :
                               /\ GroupSize(k) <= size
                               /\ k < Len(OddGroups) => size < GroupSize(k + 1)))

=============================================================================
