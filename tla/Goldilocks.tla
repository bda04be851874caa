----------------------------- MODULE Goldilocks -----------------------------
(***************************************************************************)
(* The arithmetic of src/fft.h, src/fft.cpp and src/gpu_impl.cuh.  The     *)
(* modulus of the code is b^2 - b + 1 for b = 2^32, and a word has b^2     *)
(* values; here b is a parameter.  b = 16 gives 241, whose field has the   *)
(* shape of the real one: 7 generates it, and its order b (b - 1) has the  *)
(* 2-part b and the odd factors 3 and 5 (3, 5, 17, 257, 65537 in the       *)
(* code).  An expression the code evaluates in a word is wrapped by W.     *)
(***************************************************************************)
EXTENDS Integers

CONSTANT b

ASSUME HalfWord == b \in Nat /\ b >= 16

Word    == b * b
modulus == b * b - b + 1
Field   == 0 .. modulus - 1
g       == 7
NONE    == -1                       \* -1ULL where the code returns no root

\* A result of one addition or subtraction of words, wrapped into a word.
W(n) == IF n < 0 THEN n + Word ELSE IF n >= Word THEN n - Word ELSE n

add(x, y) == IF x >= W(modulus - y) THEN W(W(x + y) - modulus) ELSE W(x + y)

sub(x, y) == IF x >= y THEN W(x - y) ELSE W(W(x + modulus) - y)

mul(x, y) == (x * y) % modulus

cumulNoCorrection(x, y) ==
    LET xlyl == (x % b) * (y % b)
        xlyh == (x % b) * (y \div b)
        xhyl == (x \div b) * (y % b)
        xhyh == (x \div b) * (y \div b) + (xhyl \div b) + (xlyh \div b)
        tt32 == (xlyh % b) + (xlyl \div b) + (xhyh % b) + (xhyl % b)
        acc  == W((b - 1) * (tt32 \div b) + (xlyl % b) - (xhyh \div b) - (xhyh % b))
        th32 == (tt32 % b) * b
    IN IF acc >= W(modulus - th32) THEN W(acc + W(th32 - modulus)) ELSE W(acc + th32)

\* The product of the kernels, from 32 bit halves: b^2 = b - 1 and b^3 = -1
\* modulo the modulus, so the part of weight b^2 and above folds into acc,
\* which may wrap below zero and is then corrected once.
cumul(x, y) ==
    LET xlyl == (x % b) * (y % b)
        xlyh == (x % b) * (y \div b)
        xhyl == (x \div b) * (y % b)
        xhyh == (x \div b) * (y \div b) + (xhyl \div b) + (xlyh \div b)
        nh96 == xhyh \div b
        ph64 == xhyh % b
        tt32 == (xlyh % b) + (xlyl \div b) + ph64 + (xhyl % b)
        sum  == W((b - 1) * (tt32 \div b) + (xlyl % b) - (nh96 + ph64))
        acc  == IF sum >= Word \div 2 THEN W(sum + modulus) ELSE sum
        th32 == (tt32 % b) * b
    IN IF acc >= W(modulus - th32) THEN W(acc + W(th32 - modulus)) ELSE W(acc + th32)

pow[x \in Field, e \in 0 .. Word] ==
    IF e = 0 THEN 1
    ELSE IF e % 2 = 1 THEN mul(x, pow[mul(x, x), e \div 2])
                      ELSE pow[mul(x, x), e \div 2]

\* inv: Euclid's algorithm with the cofactors u and v, two divisions a round,
\* left as soon as one of the remainders is 1.
inv(x) ==
    LET Round[a \in 0 .. Word, m \in 0 .. Word, u \in Int, v \in Int] ==
          LET m1 == m % a
              v1 == v - (m \div a) * u
              a1 == a % m1
              u1 == u - (a \div m1) * v1
          IN IF m1 = 1 THEN v1 % modulus
             ELSE IF a1 = 1 THEN u1 % modulus
             ELSE Round[a1, m1, u1, v1]
    IN IF x \in {0, 1} THEN x ELSE Round[x, modulus, 1, 0]

\* rou2 ... rou65537: the constants of the code are these powers of g.
rou(e) == pow[g, (modulus - 1) \div e]

\* The exponents written out in root: the inverse of e modulo (modulus - 1)/e.
RootExponent(e) ==
    CHOOSE k \in 1 .. modulus - 1 : (k * e) % ((modulus - 1) \div e) = 1

\* root(x, 2) clears the bits of the logarithm of x^(b-1), to the base of a
\* generator of the 2-part, from the lowest up.
SquareRoot(x) ==
    LET gen == pow[g, b - 1]
        Clear[l \in 0 .. b, p \in Field, r \in Field, acc \in Nat, bit \in Nat] ==
          IF l = 0 THEN acc
          ELSE LET p2 == mul(p, p)
               IN IF pow[r, l] # 1
                  THEN Clear[l \div 2, p2, mul(r, p2), acc + bit, 2 * bit]
                  ELSE Clear[l \div 2, p2, r, acc, 2 * bit]
    IN mul(pow[x, b \div 2], pow[gen, Clear[b \div 4, gen, pow[x, b - 1], 0, 1]])

\* root(x, e): some e-th root of x, or NONE.
root(x, e) ==
    IF x = 0 THEN 0
    ELSE IF pow[x, (modulus - 1) \div e] # 1 THEN NONE
    ELSE IF e = 2 THEN SquareRoot(x) ELSE pow[x, RootExponent(e)]

\* The sum of t(i) for i < n.
SumOf(n, t(_)) ==
    LET S[lo \in 0 .. n, hi \in 0 .. n] ==
          IF hi = lo THEN 0
          ELSE IF hi = lo + 1 THEN t(lo) % modulus
          ELSE LET mid == (lo + hi) \div 2 IN (S[lo, mid] + S[mid, hi]) % modulus
    IN S[0, n]

\* bit_rev: the n low bits of x in reverse order.
bit_rev(x, n) ==
    LET f[i \in 0 .. n, y \in Nat] ==
          IF i = 0 THEN 0 ELSE (y % 2) * 2^(i - 1) + f[i - 1, y \div 2]
    IN f[n, x]

=============================================================================
