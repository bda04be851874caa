-------------------------- MODULE ArithmeticProofs --------------------------
(***************************************************************************)
(* Addition and subtraction of src/fft.h, and the product of the kernels,  *)
(* are exact for every modulus of the shape b^2 - b + 1: no intermediate   *)
(* word wraps where it should not.  And of src/fft.cpp: fft_group wastes   *)
(* no points, and what next_smaller_pages finds is smaller.                *)
(***************************************************************************)
EXTENDS FftSizes, FiniteSetTheorems, FunctionTheorems, TLAPS

\* The modulus needs its highest bit and leaves b - 1 words above it.
LEMMA ModulusInWord ==
    /\ Word \in Int /\ modulus \in Int
    /\ 0 < modulus /\ modulus < Word /\ Word < 2 * modulus
<1>1. b \in Int /\ b >= 16
  BY HalfWord
<1>2. b * b \in Int /\ b * b >= 16 * b
  <2>1. b * (b - 16) >= 0
    BY <1>1
  <2> QED
    BY <1>1, <2>1
<1>3. PICK w \in Int : w = b * b
  BY <1>2
<1>4. Word = w /\ modulus = w - b + 1 /\ w >= 16 * b
  BY <1>2, <1>3 DEF Word, modulus
<1> QED
  BY <1>1, <1>4

\* An element of the field, and a number that a word holds as it is or with
\* one wrap.
LEMMA WordArithmetic ==
    /\ \A x \in Field : x \in Int /\ 0 <= x /\ x < modulus
    /\ \A n \in Int : 0 <= n /\ n < modulus => n \in Field
    /\ \A n \in Int : 0 <= n /\ n < Word => W(n) = n
    /\ \A n \in Int : n < 0 => W(n) = n + Word
    /\ \A n \in Int : n >= Word => W(n) = n - Word
<1>1. \A n \in Int : 0 <= n /\ n < Word => W(n) = n
  BY ModulusInWord DEF W
<1>2. \A n \in Int : n < 0 => W(n) = n + Word
  BY ModulusInWord DEF W
<1>3. \A n \in Int : n >= Word => W(n) = n - Word
  BY ModulusInWord DEF W
<1>4. /\ \A x \in Field : x \in Int /\ 0 <= x /\ x < modulus
      /\ \A n \in Int : 0 <= n /\ n < modulus => n \in Field
  BY ModulusInWord DEF Field
<1> QED
  BY <1>1, <1>2, <1>3, <1>4

\* add (fft64::add and cuadd) of two elements is the element that their sum
\* or their sum less the modulus is: the sum of 64 bit words may wrap, and the
\* subtraction then wraps it back.
THEOREM AddExact ==
    ASSUME NEW x \in Field, NEW y \in Field
    PROVE  /\ add(x, y) \in Field
           /\ add(x, y) = IF x + y < modulus THEN x + y ELSE x + y - modulus
<1>1. x \in Int /\ y \in Int /\ 0 <= x /\ x < modulus /\ 0 <= y /\ y < modulus
  BY WordArithmetic
<1>2. CASE y = 0
  <2>1. W(modulus - y) = modulus /\ W(x + y) = x
    BY <1>1, <1>2, ModulusInWord, WordArithmetic
  <2> QED
    BY <1>1, <1>2, <2>1, ModulusInWord DEF add
<1>3. CASE y # 0
  <2>1. W(modulus - y) = modulus - y
    BY <1>1, <1>3, ModulusInWord, WordArithmetic
  <2>2. CASE x + y < modulus
    <3>1. W(x + y) = x + y
      BY <1>1, <2>2, ModulusInWord, WordArithmetic
    <3> QED
      BY <1>1, <2>1, <2>2, <3>1, ModulusInWord, WordArithmetic DEF add
  <2>3. CASE ~(x + y < modulus)
    <3>1. W(W(x + y) - modulus) = x + y - modulus
      <4>1. CASE x + y < Word
        BY <1>1, <2>3, <4>1, ModulusInWord, WordArithmetic
      <4>2. CASE ~(x + y < Word)
        BY <1>1, <2>3, <4>2, ModulusInWord, WordArithmetic
      <4> QED
        BY <4>1, <4>2
    <3> QED
      BY <1>1, <2>1, <2>3, <3>1, ModulusInWord, WordArithmetic DEF add
  <2> QED
    BY <2>2, <2>3
<1> QED
  BY <1>2, <1>3

\* sub (fft64::sub and cusub) is exact: x + modulus may wrap, and the
\* subtraction of y brings it back.
THEOREM SubExact ==
    ASSUME NEW x \in Field, NEW y \in Field
    PROVE  /\ sub(x, y) \in Field
           /\ sub(x, y) = IF x >= y THEN x - y ELSE x - y + modulus
<1>1. x \in Int /\ y \in Int /\ 0 <= x /\ x < modulus /\ 0 <= y /\ y < modulus
  BY WordArithmetic
<1>2. CASE x >= y
  <2>1. W(x - y) = x - y
    BY <1>1, <1>2, ModulusInWord, WordArithmetic
  <2> QED
    BY <1>1, <1>2, <2>1, ModulusInWord, WordArithmetic DEF sub
<1>3. CASE ~(x >= y)
  <2>1. W(W(x + modulus) - y) = x - y + modulus
    <3>1. CASE x + modulus < Word
      BY <1>1, <1>3, <3>1, ModulusInWord, WordArithmetic
    <3>2. CASE ~(x + modulus < Word)
      BY <1>1, <1>3, <3>2, ModulusInWord, WordArithmetic
    <3> QED
      BY <3>1, <3>2
  <2> QED
    BY <1>1, <1>3, <2>1, ModulusInWord, WordArithmetic DEF sub
<1> QED
  BY <1>2, <1>3

-----------------------------------------------------------------------------
(* The product of the kernels.                                             *)

\* Division with remainder, and the remainder as the only number of its kind.
LEMMA DivMod ==
    ASSUME NEW n \in Int, NEW d \in Nat, d > 0
    PROVE  /\ n \div d \in Int /\ n % d \in Nat /\ n % d < d
           /\ n = d * (n \div d) + (n % d)
           /\ n >= 0 => n \div d \in Nat
<1>1. n \div d \in Int /\ (n >= 0 => n \div d >= 0)
  OBVIOUS
<1>2. n % d \in 0 .. d - 1
  OBVIOUS
<1>3. n = d * (n \div d) + (n % d)
  OBVIOUS
<1> QED
  BY <1>1, <1>2, <1>3

LEMMA Divided ==
    ASSUME NEW n \in Nat, NEW d \in Nat, d > 0
    PROVE  \E q \in Nat, r \in Nat :
               q = n \div d /\ r = n % d /\ r < d /\ n = d * q + r
<1>1. n \div d \in Nat /\ n % d \in Nat
  BY DivMod
<1> WITNESS n \div d \in Nat, n % d \in Nat
<1> QED
  BY DivMod

LEMMA ProductMonotone ==
    ASSUME NEW p \in Nat, NEW q \in Int, NEW r \in Int, q <= r
    PROVE  p * q \in Int /\ p * r \in Int /\ p * q <= p * r
<1>1. p * (r - q) >= 0
  OBVIOUS
<1> QED
  BY <1>1

LEMMA ModUnique ==
    ASSUME NEW n \in Int, NEW d \in Nat, NEW k \in Int, NEW r \in Int,
           0 <= r, r < d, n = d * k + r
    PROVE  n % d = r
<1>1. PICK q \in Int, s \in Nat :
          q = n \div d /\ s = n % d /\ s < d /\ n = d * q + s
  <2>1. n \div d \in Int /\ n % d \in Nat
    BY DivMod
  <2> WITNESS n \div d \in Int, n % d \in Nat
  <2> QED
    BY DivMod
<1>2. d * (k - q) = s - r
  BY <1>1
<1>3. CASE k - q >= 1
  <2>1. d * 1 <= d * (k - q)
    BY <1>1, <1>3, ProductMonotone
  <2> QED
    BY <1>1, <1>2, <2>1
<1>4. CASE k - q <= -1
  <2>1. d * (k - q) <= d * (-1)
    BY <1>1, <1>4, ProductMonotone
  <2> QED
    BY <1>1, <1>2, <2>1
<1>5. CASE k = q
  BY <1>1, <1>5
<1> QED
  BY <1>1, <1>3, <1>4, <1>5

LEMMA DivUnique ==
    ASSUME NEW n \in Int, NEW d \in Nat, NEW k \in Int, NEW r \in Int,
           0 <= r, r < d, n = d * k + r
    PROVE  n \div d = k /\ n % d = r
<1>1. n % d = r
  BY ModUnique
<1>2. n = d * (n \div d) + (n % d) /\ n \div d \in Int
  BY DivMod
<1>3. PICK q \in Int : q = n \div d
  BY <1>2
<1>4. d * q = d * k
  BY <1>1, <1>2, <1>3
<1>5. q = k
  <2>1. CASE q < k
    <3>1. d * q <= d * (k - 1) /\ d * (k - 1) = d * k - d
      BY <2>1, ProductMonotone
    <3> QED
      BY <1>4, <3>1
  <2>2. CASE k < q
    <3>1. d * k <= d * (q - 1) /\ d * (q - 1) = d * q - d
      BY <2>2, ProductMonotone
    <3> QED
      BY <1>4, <3>1
  <2> QED
    BY <2>1, <2>2
<1> QED
  BY <1>1, <1>3, <1>5

LEMMA Remainder ==
    \A x, d, k, r \in Nat : r < d /\ x = d * k + r => x % d = r
  BY ModUnique

\* Where x is on a page, and the page of x.
LEMMA PageOf ==
    ASSUME NEW x \in Nat, NEW m \in Nat, m > 0, NEW k \in Nat
    PROVE  x \div m = k <=> k * m <= x /\ x < k * m + m
<1>1. ASSUME k * m <= x, x < k * m + m
      PROVE  x \div m = k
  <2>1. k * m \in Nat /\ x = m * k + (x - k * m) /\ x - k * m \in Int
    OBVIOUS
  <2> QED
    BY <1>1, <2>1, DivUnique
<1>2. ASSUME x \div m = k
      PROVE  k * m <= x /\ x < k * m + m
  <2>1. PICK q \in Nat, r \in Nat : q = x \div m /\ r < m /\ x = m * q + r
    BY Divided
  <2>2. q * m = m * q
    OBVIOUS
  <2> QED
    BY <1>2, <2>1, <2>2
<1> QED
  BY <1>1, <1>2

\* A number below h * u has a quotient below u.
LEMMA QuotientBelow ==
    ASSUME NEW h \in Nat, NEW q \in Nat, NEW s \in Nat, NEW u \in Nat,
           h * q + s < h * u
    PROVE  q < u
<1>1. CASE u <= q
  <2>1. h * u <= h * q
    BY <1>1, ProductMonotone
  <2> QED
    BY <2>1
<1> QED
  BY <1>1

\* The product of two halves of words.
LEMMA HalfProduct ==
    ASSUME NEW h \in Nat, NEW p \in Nat, NEW q \in Nat, h > 0, p < h, q < h
    PROVE  p * q \in Nat /\ p * q <= h * h - 2 * h + 1
<1>1. p * q \in Nat
  OBVIOUS
<1>2. p * q <= p * (h - 1)
  BY ProductMonotone
<1>3. (h - 1) * p <= (h - 1) * (h - 1)
  BY ProductMonotone
<1>4. p * (h - 1) = (h - 1) * p /\ (h - 1) * (h - 1) = h * h - 2 * h + 1
  OBVIOUS
<1> QED
  BY <1>1, <1>2, <1>3, <1>4

\* Four products of halves, and b^2 = b - 1 modulo b^2 - b + 1, twice.
LEMMA FourProducts ==
    ASSUME NEW h \in Nat, NEW x1 \in Nat, NEW x0 \in Nat, NEW y1 \in Nat, NEW y0 \in Nat
    PROVE  (h * x1 + x0) * (h * y1 + y0)
               = h * (h * (x1 * y1)) + h * (x0 * y1) + h * (x1 * y0) + x0 * y0
  OBVIOUS

LEMMA Regrouped ==
    ASSUME NEW h \in Nat, NEW z \in Nat, NEW u1 \in Nat, NEW u0 \in Nat,
           NEW v1 \in Nat, NEW v0 \in Nat, NEW w1 \in Nat, NEW w0 \in Nat
    PROVE  h * (h * z) + h * (h * u1 + u0) + h * (h * v1 + v0) + (h * w1 + w0)
               = h * (h * (z + v1 + u1)) + h * (u0 + v0 + w1) + w0
  OBVIOUS

LEMMA FoldHigh ==
    ASSUME NEW h \in Nat, NEW n \in Int, NEW p \in Int, NEW m \in Int, NEW l \in Int
    PROVE  h * (h * (h * n + p)) + h * m + l
               = (h * h - h + 1) * (h * n + n + p) + h * (m + p) + l - n - p
  OBVIOUS

LEMMA FoldMiddle ==
    ASSUME NEW h \in Nat, NEW c \in Int, NEW m \in Int
    PROVE  h * (h * c + m) = (h * h - h + 1) * c + (h - 1) * c + h * m
  OBVIOUS

\* The last addition of cumul: like add, for words whose sum wraps at most once.
LEMMA LastSum ==
    ASSUME NEW acc \in Field, NEW th \in Field
    PROVE  LET r == IF acc >= W(modulus - th) THEN W(acc + W(th - modulus))
                                              ELSE W(acc + th)
           IN r \in Field /\ (r = acc + th \/ r = acc + th - modulus)
<1>1. acc \in Int /\ th \in Int /\ 0 <= acc /\ acc < modulus /\ 0 <= th /\ th < modulus
  BY WordArithmetic
<1>2. W(modulus - th) = modulus - th /\ W(th - modulus) = th - modulus + Word
  BY <1>1, ModulusInWord, WordArithmetic
<1>3. CASE acc + th < modulus
  <2>1. W(acc + th) = acc + th /\ acc + th \in Field
    BY <1>1, <1>3, ModulusInWord, WordArithmetic
  <2> QED
    BY <1>1, <1>2, <1>3, <2>1, ModulusInWord
<1>4. CASE acc + th >= modulus
  <2>1. acc + (th - modulus + Word) >= Word
    BY <1>1, <1>4, ModulusInWord
  <2>2. W(acc + (th - modulus + Word)) = acc + th - modulus
    BY <1>1, <2>1, ModulusInWord, WordArithmetic
  <2>3. acc + th - modulus \in Field
    BY <1>1, <1>4, ModulusInWord, WordArithmetic
  <2> QED
    BY <1>1, <1>2, <1>4, <2>2, <2>3, ModulusInWord
<1> QED
  BY <1>1, <1>3, <1>4, ModulusInWord

\* cumul of any two words is their product modulo b^2 - b + 1: no intermediate
\* sum of the four products of halves wraps but the one that acc corrects.
THEOREM CumulExact ==
    ASSUME NEW x \in 0 .. Word - 1, NEW y \in 0 .. Word - 1
    PROVE  cumul(x, y) = (x * y) % modulus
<1>1. /\ b \in Nat /\ b >= 16 /\ x \in Nat /\ y \in Nat
      /\ Word \in Int /\ modulus \in Int /\ 0 < modulus
      /\ Word = b * b /\ modulus = b * b - b + 1 /\ b * b >= 16 * b
  <2>1. b * (b - 16) >= 0
    BY HalfWord
  <2> QED
    BY <2>1, HalfWord, ModulusInWord DEF Word, modulus
\* The halves of the words and their products.
<1>2. PICK x0 \in Nat, x1 \in Nat, y0 \in Nat, y1 \in Nat :
          /\ x0 = x % b /\ x1 = x \div b /\ y0 = y % b /\ y1 = y \div b
          /\ x0 < b /\ y0 < b /\ x = b * x1 + x0 /\ y = b * y1 + y0
  <2>1. PICK x1 \in Nat, x0 \in Nat :
            x1 = x \div b /\ x0 = x % b /\ x0 < b /\ x = b * x1 + x0
    BY <1>1, Divided
  <2>2. PICK y1 \in Nat, y0 \in Nat :
            y1 = y \div b /\ y0 = y % b /\ y0 < b /\ y = b * y1 + y0
    BY <1>1, Divided
  <2> QED
    BY <2>1, <2>2
<1>3. x1 < b /\ y1 < b
  <2>1. b * x1 + x0 < b * b /\ b * y1 + y0 < b * b
    BY <1>1, <1>2
  <2> QED
    BY <1>1, <1>2, <2>1, QuotientBelow
<1>4. PICK ll \in Nat, lh \in Nat, hl \in Nat, hh \in Nat :
          /\ ll = x0 * y0 /\ lh = x0 * y1 /\ hl = x1 * y0 /\ hh = x1 * y1
          /\ ll <= b * b - 2 * b + 1 /\ lh <= b * b - 2 * b + 1
          /\ hl <= b * b - 2 * b + 1 /\ hh <= b * b - 2 * b + 1
  <2>1. ASSUME NEW p \in Nat, NEW q \in Nat, p < b, q < b
        PROVE  \E z \in Nat : z = p * q /\ z <= b * b - 2 * b + 1
    BY <1>1, <2>1, HalfProduct
  <2>2. PICK ll \in Nat : ll = x0 * y0 /\ ll <= b * b - 2 * b + 1
    BY <1>2, <2>1
  <2>3. PICK lh \in Nat : lh = x0 * y1 /\ lh <= b * b - 2 * b + 1
    BY <1>2, <1>3, <2>1
  <2>4. PICK hl \in Nat : hl = x1 * y0 /\ hl <= b * b - 2 * b + 1
    BY <1>2, <1>3, <2>1
  <2>5. PICK hh \in Nat : hh = x1 * y1 /\ hh <= b * b - 2 * b + 1
    BY <1>3, <2>1
  <2> QED
    BY <2>2, <2>3, <2>4, <2>5
<1>5. x * y = b * (b * hh) + b * lh + b * hl + ll
  BY <1>1, <1>2, <1>4, FourProducts
\* The halves of those products.
<1>6. PICK ll0 \in Nat, ll1 \in Nat, lh0 \in Nat, lh1 \in Nat, hl0 \in Nat, hl1 \in Nat :
          /\ ll0 = ll % b /\ ll1 = ll \div b /\ ll = b * ll1 + ll0 /\ ll0 < b
          /\ lh0 = lh % b /\ lh1 = lh \div b /\ lh = b * lh1 + lh0 /\ lh0 < b
          /\ hl0 = hl % b /\ hl1 = hl \div b /\ hl = b * hl1 + hl0 /\ hl0 < b
  <2>1. \A z \in Nat : \E q \in Nat, r \in Nat :
            q = z \div b /\ r = z % b /\ r < b /\ z = b * q + r
    BY <1>1, Divided
  <2> QED
    BY <2>1
<1>7. ll1 <= b - 2 /\ lh1 <= b - 2 /\ hl1 <= b - 2
  <2>1. b * (b - 1) = b * b - b
    BY <1>1
  <2>2. /\ b * ll1 + ll0 < b * (b - 1) /\ b * lh1 + lh0 < b * (b - 1)
        /\ b * hl1 + hl0 < b * (b - 1)
    BY <1>1, <1>4, <1>6, <2>1
  <2>3. ll1 < b - 1 /\ lh1 < b - 1 /\ hl1 < b - 1
    BY <1>1, <1>6, <2>2, QuotientBelow
  <2> QED
    BY <1>1, <1>6, <2>3
\* The part of weight b^2 and above, and what is left at weight b.
<1>8. PICK top \in Nat, n \in Nat, p \in Nat :
          /\ top = hh + hl1 + lh1 /\ n = top \div b /\ p = top % b
          /\ top = b * n + p /\ p < b /\ n < b
  <2>1. PICK top \in Nat : top = hh + hl1 + lh1
    BY <1>4, <1>6
  <2>2. PICK n \in Nat, p \in Nat :
            n = top \div b /\ p = top % b /\ p < b /\ top = b * n + p
    BY <1>1, Divided
  <2>3. b * n + p < b * b
    BY <1>1, <1>4, <1>7, <2>1, <2>2
  <2> QED
    BY <1>1, <2>1, <2>2, <2>3, QuotientBelow
<1>9. PICK tt \in Nat, c \in Nat, m \in Nat :
          /\ tt = lh0 + ll1 + p + hl0 /\ c = tt \div b /\ m = tt % b
          /\ tt = b * c + m /\ m < b /\ c < 4
  <2>1. PICK tt \in Nat : tt = lh0 + ll1 + p + hl0
    BY <1>6, <1>8
  <2>2. PICK c \in Nat, m \in Nat :
            c = tt \div b /\ m = tt % b /\ m < b /\ tt = b * c + m
    BY <1>1, Divided
  <2>3. b * c + m < b * 4
    BY <1>1, <1>6, <1>7, <1>8, <2>1, <2>2
  <2> QED
    BY <1>1, <2>1, <2>2, <2>3, QuotientBelow
\* What cumul sums up, and how far below zero or above it that can be.
<1>10. PICK e \in Nat, s \in Int, th \in Nat :
          /\ e = (b - 1) * c /\ e <= 3 * b - 3
          /\ s = e + ll0 - (n + p) /\ th = m * b /\ th = b * m
          /\ th <= b * b - b
  <2>1. (b - 1) * c <= (b - 1) * 3 /\ b * m <= b * (b - 1) /\ b * (b - 1) = b * b - b
    BY <1>1, <1>9, ProductMonotone
  <2>2. (b - 1) * c \in Nat /\ b * m \in Nat /\ m * b = b * m /\ (b - 1) * 3 = 3 * b - 3
    BY <1>1, <1>9
  <2>3. PICK e \in Nat, th \in Nat : e = (b - 1) * c /\ th = b * m
    BY <2>2
  <2>4. e <= 3 * b - 3 /\ th = m * b /\ th <= b * b - b
    BY <2>1, <2>2, <2>3
  <2>5. PICK s \in Int : s = e + ll0 - (n + p)
    BY <1>6, <1>8, <2>3
  <2> QED
    BY <2>3, <2>4, <2>5
<1>11. s >= -(2 * b) /\ s < 4 * b
  BY <1>1, <1>6, <1>8, <1>10
<1>12. PICK k \in Int : x * y = modulus * k + s + th
  <2>1. x * y = b * (b * (b * n + p)) + b * (lh0 + hl0 + ll1) + ll0
    <3>1. x * y = b * (b * hh) + b * (b * lh1 + lh0) + b * (b * hl1 + hl0)
                    + (b * ll1 + ll0)
      BY <1>5, <1>6
    <3>2. b * (b * hh) + b * (b * lh1 + lh0) + b * (b * hl1 + hl0) + (b * ll1 + ll0)
            = b * (b * (hh + hl1 + lh1)) + b * (lh0 + hl0 + ll1) + ll0
      BY <1>1, Regrouped
    <3> QED
      BY <3>1, <3>2, <1>8
  <2>2. x * y = (b * b - b + 1) * (b * n + n + p) + b * (lh0 + hl0 + ll1 + p)
                  + ll0 - n - p
    BY <1>1, <1>6, <1>8, <2>1, FoldHigh
  <2>3. lh0 + hl0 + ll1 + p = b * c + m
    BY <1>6, <1>8, <1>9
  <2>4. b * (b * c + m) = (b * b - b + 1) * c + (b - 1) * c + b * m
    <3>1. b \in Nat /\ c \in Int /\ m \in Int
      BY <1>1
    <3> QED
      BY <3>1, FoldMiddle
  <2>5. PICK u \in Int, k1 \in Int, k2 \in Int :
            u = b * b - b + 1 /\ k1 = b * n + n + p /\ k2 = c
    BY <1>1, <1>8, <1>9
  <2>6. PICK v1 \in Int, v2 \in Int :
            v1 = u * k1 /\ v2 = u * k2 /\ u * (k1 + k2) = v1 + v2
    BY <2>5
  <2>7. x * y = v1 + (v2 + e + th) + ll0 - n - p
    BY <1>10, <2>2, <2>3, <2>4, <2>5, <2>6
  <2>8. v1 + (v2 + e + th) + ll0 - n - p = (v1 + v2) + s + th
    <3>1. s = e + ll0 - (n + p)
      BY <1>10
    <3> QED
      BY <3>1
  <2>9. k1 + k2 \in Int /\ u = modulus
    BY <1>1, <2>5
  <2> QED
    BY <2>6, <2>7, <2>8, <2>9
\* The sum as the word holds it, and corrected.
<1> DEFINE sum == W(s)
           acc == IF sum >= Word \div 2 THEN W(sum + modulus) ELSE sum
<1>13. acc \in Field /\ (acc = s \/ acc = s + modulus)
  <2>1. PICK h \in Nat, r \in Nat : h = Word \div 2 /\ r < 2 /\ Word = 2 * h + r
    BY <1>1, ModulusInWord, DivMod
  <2>2. CASE s >= 0
    <3>1. W(s) = s /\ s < h
      BY <1>1, <1>11, <2>1, <2>2, WordArithmetic
    <3> QED
      BY <1>1, <1>11, <2>1, <2>2, <3>1, WordArithmetic
  <2>3. CASE s < 0
    <3>1. W(s) = s + Word /\ s + Word >= h
      BY <1>1, <1>11, <2>1, <2>3, WordArithmetic
    <3>2. s + Word + modulus >= Word
      BY <1>1, <1>11, <2>3
    <3>3. W(s + Word + modulus) = s + modulus
      BY <1>1, <3>2, WordArithmetic
    <3> QED
      BY <1>1, <1>11, <2>1, <2>3, <3>1, <3>2, <3>3, WordArithmetic
  <2> QED
    BY <2>2, <2>3
<1>14. th \in Field
  BY <1>1, <1>10, WordArithmetic
<1> DEFINE res == IF acc >= W(modulus - th) THEN W(acc + W(th - modulus)) ELSE W(acc + th)
<1>15. cumul(x, y) = res
  BY <1>2, <1>4, <1>6, <1>8, <1>9, <1>10 DEF cumul
<1>16. res \in Field /\ (res = acc + th \/ res = acc + th - modulus)
  BY <1>13, <1>14, LastSum
<1>17. \E j \in Int : x * y = modulus * j + res
  <2> HIDE DEF acc, res
  <2>1. PICK mk \in Int : mk = modulus * k
    BY <1>1, <1>12
  <2>2. /\ modulus * (k + 1) = mk + modulus /\ modulus * (k - 1) = mk - modulus
        /\ modulus * k = mk
    BY <1>1, <1>12, <2>1
  <2>3. \/ x * y = mk + res \/ x * y = mk - modulus + res
        \/ x * y = mk + modulus + res
    BY <1>1, <1>10, <1>12, <1>13, <1>16, <2>1, WordArithmetic
  <2> QED
    BY <1>12, <2>2, <2>3
<1>18. (x * y) % modulus = res
  <2> HIDE DEF res
  <2>1. x * y \in Nat /\ modulus \in Nat /\ res \in Int /\ 0 <= res /\ res < modulus
    BY <1>1, <1>16, WordArithmetic
  <2> QED
    BY <1>17, <2>1, ModUnique
<1> QED
  BY <1>15, <1>18

\* The three operations of src/gpu_impl.cuh and fft64, as FieldExact states them
\* of a small field, for every b and so for the b = 2^32 of the code.
THEOREM ArithmeticExact ==
    ASSUME NEW x \in Field, NEW y \in Field
    PROVE  /\ add(x, y) = (x + y) % modulus
           /\ sub(x, y) = (x - y) % modulus
           /\ cumul(x, y) = (x * y) % modulus
<1>1. /\ x \in Int /\ y \in Int /\ 0 <= x /\ x < modulus /\ 0 <= y /\ y < modulus
      /\ modulus \in Nat /\ modulus < Word /\ Word \in Int
  BY ModulusInWord, WordArithmetic
<1>2. \A z \in Field : z \in Int /\ 0 <= z /\ z < modulus
  BY WordArithmetic
<1>3. add(x, y) = (x + y) % modulus
  <2>1. /\ add(x, y) \in Field
        /\ x + y = modulus * 0 + add(x, y) \/ x + y = modulus * 1 + add(x, y)
    BY <1>1, AddExact
  <2>2. x + y \in Int /\ 0 \in Int /\ 1 \in Int
    BY <1>1
  <2> QED
    BY <1>1, <1>2, <2>1, <2>2, ModUnique
<1>4. sub(x, y) = (x - y) % modulus
  <2>1. /\ sub(x, y) \in Field
        /\ x - y = modulus * 0 + sub(x, y) \/ x - y = modulus * (-1) + sub(x, y)
    BY <1>1, SubExact
  <2>2. x - y \in Int /\ 0 \in Int /\ -1 \in Int
    BY <1>1
  <2> QED
    BY <1>1, <1>2, <2>1, <2>2, ModUnique
<1>5. cumul(x, y) = (x * y) % modulus
  <2>1. x \in 0 .. Word - 1 /\ y \in 0 .. Word - 1
    BY <1>1
  <2> QED
    BY <2>1, CumulExact
<1> QED
  BY <1>3, <1>4, <1>5

-----------------------------------------------------------------------------
(* Numbers: the least element of a set, induction, powers of two, division. *)

LEMMA LessIsWellFounded == IsWellFoundedOn({ss \in Nat \X Nat : ss[1] < ss[2]}, Nat)
  BY NatLessThanWellFounded DEF OpToRel

LEMMA LeastNumber ==
    ASSUME NEW T \in SUBSET Nat, T # {}
    PROVE  \E x \in T : \A y \in T : x <= y
<1> DEFINE R == {ss \in Nat \X Nat : ss[1] < ss[2]}
<1>1. \E x \in T : \A y \in T : ~ (<<y, x>> \in R)
  <2>1. IsWellFoundedOn(R, Nat)
    BY LessIsWellFounded
  <2> HIDE DEF R
  <2> QED
    BY <2>1, WFMin
<1>2. ASSUME NEW x \in T, NEW y \in T, ~ (<<y, x>> \in R)
      PROVE  x <= y
  <2>1. x \in Nat /\ y \in Nat
    OBVIOUS
  <2>2. <<y, x>> \in Nat \X Nat /\ <<y, x>>[1] = y /\ <<y, x>>[2] = x
    BY <2>1
  <2> QED
    BY <1>2, <2>1, <2>2
<1> QED
  BY <1>1, <1>2

\* Induction over a set of numbers: the provers take no induction rule for
\* formulas, but the set of the numbers of which a formula holds.
LEMMA Induction ==
    ASSUME NEW m \in Nat, NEW T \in SUBSET Nat,
           \A k \in 0 .. m : (\A j \in 0 .. k - 1 : j \in T) => k \in T
    PROVE  \A k \in 0 .. m : k \in T
<1>1. SUFFICES ASSUME {k \in 0 .. m : k \notin T} # {}
               PROVE  FALSE
  OBVIOUS
<1> DEFINE U == {k \in 0 .. m : k \notin T}
<1>2. PICK x \in U : \A y \in U : x <= y
  <2>1. U \in SUBSET Nat /\ U # {}
    BY <1>1
  <2> HIDE DEF U
  <2> QED
    BY <2>1, LeastNumber
<1>3. \A j \in 0 .. x - 1 : j \in T
  BY <1>2
<1> QED
  BY <1>2, <1>3

\* The powers of two, as the numbers of the subsets of a set.
LEMMA PowerOfTwo ==
    ASSUME NEW n \in Nat
    PROVE  /\ IsFiniteSet(SUBSET (1 .. n)) /\ Cardinality(SUBSET (1 .. n)) = 2^n
           /\ 2^n \in Nat /\ 2^n > 0
<1>1. IsFiniteSet(1 .. n) /\ Cardinality(1 .. n) = n
  BY FS_Interval
<1>2. IsFiniteSet(SUBSET (1 .. n)) /\ Cardinality(SUBSET (1 .. n)) = 2^n
  BY <1>1, FS_SUBSET
<1>3. Cardinality(SUBSET (1 .. n)) \in Nat /\ Cardinality(SUBSET (1 .. n)) # 0
  <2>1. SUBSET (1 .. n) # {}
    OBVIOUS
  <2> QED
    BY <1>2, <2>1, FS_CardinalityType, FS_EmptySet
<1> QED
  BY <1>2, <1>3

LEMMA PowersOfTwo ==
    /\ 2^0 = 1
    /\ \A n \in Nat : 2^n \in Nat /\ 2^n > 0 /\ 2^(n + 1) = 2 * 2^n
<1>1. 2^0 = 1
  <2>1. 1 .. 0 = {} /\ SUBSET {} = {{}}
    OBVIOUS
  <2> QED
    BY <2>1, PowerOfTwo, FS_Singleton
<1>2. ASSUME NEW n \in Nat
      PROVE  2^(n + 1) = 2 * 2^n
  <2> DEFINE S == SUBSET (1 .. n)
             T == {U \in SUBSET (1 .. n + 1) : n + 1 \in U}
             f == [U \in S |-> U \cup {n + 1}]
  <2>1. IsFiniteSet(S) /\ Cardinality(S) = 2^n /\ 2^n \in Nat
        /\ Cardinality(SUBSET (1 .. n + 1)) = 2^(n + 1)
    BY PowerOfTwo
  <2>2. SUBSET (1 .. n + 1) = S \cup T /\ S \cap T = {}
    <3>1. \A U : U \in SUBSET (1 .. n + 1) /\ n + 1 \notin U => U \in S
      OBVIOUS
    <3>2. \A U : U \in S => U \in SUBSET (1 .. n + 1) /\ n + 1 \notin U
      OBVIOUS
    <3> QED
      BY <3>1, <3>2
  <2>3. f \in Bijection(S, T)
    <3>1. \A U \in S : f[U] \in T
      OBVIOUS
    <3>2. \A U, V \in S : f[U] = f[V] => U = V
      OBVIOUS
    <3>3. \A V \in T : V \ {n + 1} \in S /\ f[V \ {n + 1}] = V
      OBVIOUS
    <3> HIDE DEF f, S, T
    <3>4. f \in [S -> T]
      BY <3>1 DEF f
    <3> QED
      BY <3>1, <3>2, <3>3, <3>4, Fun_IsBij
  <2>4. IsFiniteSet(T) /\ Cardinality(T) = Cardinality(S)
    <3> HIDE DEF f, S, T
    <3> QED
      BY <2>1, <2>3, FS_Bijection DEF ExistsBijection
  <2>5. Cardinality(S \cup T) = Cardinality(S) + Cardinality(T)
    <3> HIDE DEF f, S, T
    <3>1. Cardinality(S \cap T) = 0
      BY <2>2, FS_EmptySet
    <3>2. Cardinality(S \cup T) = Cardinality(S) + Cardinality(T) - Cardinality(S \cap T)
      BY <2>1, <2>4, FS_Union
    <3>3. Cardinality(S) \in Nat /\ Cardinality(T) \in Nat
      BY <2>1, <2>4
    <3> QED
      BY <3>1, <3>2, <3>3
  <2> QED
    BY <2>1, <2>2, <2>4, <2>5
<1> QED
  BY <1>1, <1>2, PowerOfTwo


LEMMA PowerZero == \E z \in Nat : z = 0 /\ 2^z = 1 /\ 2^(z + 1) = 2
<1>1. PICK z \in Nat : z = 0
  OBVIOUS
<1>2. 2^z = 1
  BY <1>1, PowersOfTwo
<1>3. 2^(z + 1) = 2
  BY <1>2, PowersOfTwo
<1> QED
  BY <1>1, <1>2, <1>3

LEMMA PowersGrow ==
    /\ \A i, j \in Nat : i <= j => 2^i <= 2^j
    /\ \A n \in Nat : n < 2^n
<1>1. ASSUME NEW i \in Nat, NEW j \in Nat, i <= j
      PROVE  2^i <= 2^j
  <2> DEFINE T == {d \in Nat : 2^i <= 2^(i + d)}
  <2>1. ASSUME NEW k \in 0 .. j - i, \A d \in 0 .. k - 1 : d \in T
        PROVE  k \in T
    <3>1. CASE k = 0
      BY <3>1, PowersOfTwo
    <3>2. CASE k # 0
      <4>1. k - 1 \in T /\ i + (k - 1) \in Nat /\ i + k = (i + (k - 1)) + 1
        BY <2>1, <3>2
      <4>2. /\ 2^(i + k) = 2 * 2^(i + (k - 1))
            /\ 2^(i + (k - 1)) \in Nat /\ 2^i \in Nat
        BY <4>1, PowersOfTwo
      <4> QED
        BY <4>1, <4>2
    <3> QED
      BY <3>1, <3>2
  <2>2. T \in SUBSET Nat /\ j - i \in Nat
    BY <1>1
  <2>3. j - i \in T
    <3> HIDE DEF T
    <3> QED
      BY <2>1, <2>2, Induction
  <2> QED
    BY <2>3
<1>2. ASSUME NEW n \in Nat
      PROVE  n < 2^n
  <2> DEFINE T == {d \in Nat : d < 2^d}
  <2>1. ASSUME NEW k \in 0 .. n, \A d \in 0 .. k - 1 : d \in T
        PROVE  k \in T
    <3>1. CASE k = 0
      BY <3>1, PowersOfTwo
    <3>2. CASE k # 0
      <4>1. k - 1 \in T /\ k - 1 \in Nat /\ k = (k - 1) + 1
        BY <2>1, <3>2
      <4>2. 2^k = 2 * 2^(k - 1) /\ 2^(k - 1) \in Nat
        BY <4>1, PowersOfTwo
      <4> QED
        BY <4>1, <4>2
    <3> QED
      BY <3>1, <3>2
  <2>2. T \in SUBSET Nat
    OBVIOUS
  <2>3. \A k \in 0 .. n : k \in T
    <3> HIDE DEF T
    <3> QED
      BY <2>1, <2>2, Induction
  <2> QED
    BY <2>3
<1> QED
  BY <1>1, <1>2

\* The position of the highest one bit exists, and there is one such position.
LEMMA HighestBit ==
    ASSUME NEW n \in Nat \ {0}
    PROVE  /\ \E k \in Nat : 2^k <= n /\ n < 2^(k + 1)
           /\ \A i, j \in Nat : 2^i <= n /\ n < 2^(j + 1) => i <= j
<1>1. \E k \in Nat : 2^k <= n /\ n < 2^(k + 1)
  <2> DEFINE T == {k \in Nat : n < 2^(k + 1)}
  <2>1. n \in T
    <3>1. n < 2^n /\ 2^n \in Nat /\ 2^(n + 1) = 2 * 2^n
      BY PowersGrow, PowersOfTwo
    <3> QED
      BY <3>1
  <2>2. PICK k \in T : \A j \in T : k <= j
    <3>1. T \in SUBSET Nat /\ T # {}
      BY <2>1
    <3> HIDE DEF T
    <3> QED
      BY <3>1, LeastNumber
  <2>3. CASE k = 0
    <3>1. 2^k <= n /\ k \in Nat /\ n < 2^(k + 1)
      BY <2>2, <2>3, PowersOfTwo
    <3> QED
      BY <3>1
  <2>4. CASE k # 0
    <3>1. k - 1 \in Nat /\ k - 1 \notin T /\ (k - 1) + 1 = k
      BY <2>2, <2>4
    <3>2. ~(n < 2^k) /\ 2^k \in Nat
      BY <3>1, <2>2, PowersOfTwo
    <3> QED
      BY <2>2, <3>2
  <2> QED
    BY <2>3, <2>4
<1>2. ASSUME NEW i \in Nat, NEW j \in Nat, 2^i <= n, n < 2^(j + 1)
      PROVE  i <= j
  <2>1. CASE j + 1 <= i
    <3>1. 2^(j + 1) <= 2^i /\ 2^(j + 1) \in Nat /\ 2^i \in Nat
      BY <2>1, PowersGrow, PowersOfTwo
    <3> QED
      BY <1>2, <3>1
  <2> QED
    BY <2>1
<1> QED
  BY <1>1, <1>2

\* The recursive definition of Log2 defines a function, by its witness.
LEMMA Log2Unfolds ==
    \A n \in Nat \ {0} : Log2[n] = IF n = 1 THEN 0 ELSE 1 + Log2[n \div 2]
<1> DEFINE L(n) == CHOOSE k \in Nat : 2^k <= n /\ n < 2^(k + 1)
           f == [n \in Nat \ {0} |-> L(n)]
<1>1. ASSUME NEW n \in Nat \ {0}
      PROVE  L(n) \in Nat /\ 2^L(n) <= n /\ n < 2^(L(n) + 1)
  BY HighestBit
<1>2. ASSUME NEW n \in Nat \ {0}
      PROVE  f[n] = IF n = 1 THEN 0 ELSE 1 + f[n \div 2]
  <2> HIDE DEF L
  <2>1. ASSUME NEW k \in Nat, 2^k <= n, n < 2^(k + 1)
        PROVE  L(n) = k
    <3>1. L(n) \in Nat /\ 2^L(n) <= n /\ n < 2^(L(n) + 1)
      BY <1>1
    <3>2. PICK l \in Nat : l = L(n) /\ 2^l <= n /\ n < 2^(l + 1)
      BY <3>1
    <3>3. l <= k /\ k <= l
      BY <2>1, <3>2, HighestBit
    <3> QED
      BY <3>2, <3>3
  <2>2. CASE n = 1
    <3>1. ASSUME NEW z \in Nat, 2^z = 1, 2^(z + 1) = 2
          PROVE  L(n) = z
      BY <2>1, <2>2, <3>1
    <3> QED
      BY <2>2, <3>1, PowerZero
  <2>3. CASE n # 1
    <3>1. n \div 2 \in Nat \ {0} /\ (n \div 2) * 2 <= n /\ n < (n \div 2 + 1) * 2
      BY <2>3
    <3>2. PICK k \in Nat : k = L(n \div 2) /\ 2^k <= n \div 2 /\ n \div 2 < 2^(k + 1)
      BY <1>1, <3>1
    <3>3. /\ k + 1 \in Nat /\ 2^(k + 1) = 2 * 2^k /\ 2^((k + 1) + 1) = 2 * 2^(k + 1)
          /\ 2^k \in Nat /\ 2^(k + 1) \in Nat
      BY <3>2, PowersOfTwo
    <3>4. 2^(k + 1) <= n /\ n < 2^((k + 1) + 1)
      BY <3>1, <3>2, <3>3
    <3>5. L(n) = k + 1
      BY <2>1, <3>3, <3>4
    <3> QED
      BY <2>3, <3>1, <3>2, <3>5
  <2> QED
    BY <2>2, <2>3
<1>3. f = [n \in Nat \ {0} |-> IF n = 1 THEN 0 ELSE 1 + f[n \div 2]]
  <2> HIDE DEF L
  <2> QED
    BY <1>2
<1>4. \E h : h = [n \in Nat \ {0} |-> IF n = 1 THEN 0 ELSE 1 + h[n \div 2]]
  <2> HIDE DEF f
  <2> QED
    BY <1>3
<1>5. Log2 = [n \in Nat \ {0} |-> IF n = 1 THEN 0 ELSE 1 + Log2[n \div 2]]
  BY <1>4 DEF Log2
<1> QED
  BY <1>5

\* Log2, 63 - __builtin_clzll of the code, is the position of the highest one
\* bit of every number but 0.
THEOREM Log2IsHighestBit ==
    ASSUME NEW n \in Nat \ {0}
    PROVE  Log2[n] \in Nat /\ 2^Log2[n] <= n /\ n < 2^(Log2[n] + 1)
<1> DEFINE T == {k \in Nat : k # 0 => /\ Log2[k] \in Nat /\ 2^Log2[k] <= k
                                      /\ k < 2^(Log2[k] + 1)}
<1>1. ASSUME NEW k \in 0 .. n, \A j \in 0 .. k - 1 : j \in T
      PROVE  k \in T
  <2>1. CASE k \in {0, 1}
    <3>1. k = 1 => \E l \in Nat : l = Log2[k] /\ 2^l = 1 /\ 2^(l + 1) = 2
      <4>1. k = 1 => Log2[k] = 0
        BY Log2Unfolds
      <4> QED
        BY <4>1, PowerZero
    <3> QED
      BY <2>1, <3>1
  <2>2. CASE k \notin {0, 1}
    <3>1. k \div 2 \in 0 .. k - 1 /\ k \div 2 # 0
          /\ (k \div 2) * 2 <= k /\ k < (k \div 2 + 1) * 2
      BY <2>2
    <3>2. PICK l \in Nat : l = Log2[k \div 2] /\ 2^l <= k \div 2 /\ k \div 2 < 2^(l + 1)
      BY <1>1, <3>1
    <3>3. Log2[k] = l + 1
      BY <2>2, <3>2, Log2Unfolds
    <3>4. /\ l + 1 \in Nat /\ 2^(l + 1) = 2 * 2^l /\ 2^((l + 1) + 1) = 2 * 2^(l + 1)
          /\ 2^l \in Nat /\ 2^(l + 1) \in Nat
      BY <3>2, PowersOfTwo
    <3>5. 2^(l + 1) <= k /\ k < 2^((l + 1) + 1)
      BY <3>1, <3>2, <3>4
    <3> QED
      BY <3>3, <3>4, <3>5
  <2> QED
    BY <2>1, <2>2
<1>2. T \in SUBSET Nat
  OBVIOUS
<1>3. \A k \in 0 .. n : k \in T
  <2> HIDE DEF T
  <2> QED
    BY <1>1, <1>2, Induction
<1> QED
  BY <1>3

-----------------------------------------------------------------------------
(* The sizes of transforms. *)

LEMMA QuarterWord ==
    \E h \in Nat : /\ b = 4 * h /\ h >= 4
                   /\ Log2[b] \in Nat /\ Log2[b] >= 2
                   /\ 2^Log2[b] = 4 * h
                   /\ 2^(Log2[b] - 1) = 2 * h
                   /\ 2^(Log2[b] - 2) = h
<1>1. b \in Nat \ {0} /\ b >= 16
  BY HalfWord
<1>2. PICK l \in Nat : l = Log2[b] /\ b = 2^l
  BY <1>1, Log2IsHighestBit, HalfWordBits
<1>3. l >= 2
  <2>1. 2^0 = 1 /\ 2^1 = 2
    OBVIOUS
  <2>2. (l = 0 => 2^l = 2^0) /\ (l = 1 => 2^l = 2^1)
    BY Zenon
  <2> QED
    BY <1>1, <1>2, <2>1, <2>2
<1>4. PICK k \in Nat : l = (k + 1) + 1
  <2>1. l - 2 \in Nat /\ l = ((l - 2) + 1) + 1
    BY <1>3
  <2> QED
    BY <2>1
<1>5. 2^((k + 1) + 1) = 2 * 2^(k + 1) /\ 2^(k + 1) = 2 * 2^k /\ 2^k \in Nat
  BY PowersOfTwo
<1>6. l - 1 = k + 1 /\ l - 2 = k
  BY <1>4
<1>7. 2^l = 4 * 2^k /\ 2^(l - 1) = 2 * 2^k /\ 2^(l - 2) = 2^k
  BY <1>4, <1>5, <1>6
<1> QED
  BY <1>1, <1>2, <1>3, <1>5, <1>7

\* The table of fft_group: its sizes in quarters of b, and their points.
Quarters == <<5, 10, 12, 15, 20, 34, 68, 102, 170, 340, 514, 1028, 2570, 5140>>

LEMMA OddGroupTable ==
    ASSUME NEW h \in Nat, b = 4 * h, h >= 4,
           2^Log2[b] = 4 * h, 2^(Log2[b] - 1) = 2 * h, 2^(Log2[b] - 2) = h,
           NEW k \in 1 .. 14
    PROVE  /\ OddGroups[k][1] * OddGroups[k][2] \in Nat \ {0}
           /\ OddGroups[k][3] \in 0 .. 2
           /\ GroupSize(k) = Quarters[k] * h
           /\ OddGroups[k][1] * OddGroups[k][2] * 2^(Log2[b] - OddGroups[k][3]) = Quarters[k] * h
<1> DEFINE p == OddGroups[k][1] * OddGroups[k][2]
           c == OddGroups[k][3]
<1>1. p \in Nat \ {0} /\ c \in 0 .. 2
  BY DEF OddGroups
<1>2. Quarters[k] = p * (IF c = 0 THEN 4 ELSE IF c = 1 THEN 2 ELSE 1)
  BY DEF OddGroups, Quarters
<1>3. GroupSize(k) = (p * b) \div 2^c
  BY DEF GroupSize
<1> HIDE DEF p, c
<1>4. PICK q \in Nat : q = p * h
  BY <1>1
<1>5. p * b = 4 * q /\ Quarters[k] * h = q * (IF c = 0 THEN 4 ELSE IF c = 1 THEN 2 ELSE 1)
  BY <1>1, <1>2, <1>4
<1>6. 2^c = IF c = 0 THEN 1 ELSE IF c = 1 THEN 2 ELSE 4
  <2>1. 2^0 = 1 /\ 2^1 = 2 /\ 2^2 = 4
    OBVIOUS
  <2>2. (c = 0 => 2^c = 2^0) /\ (c = 1 => 2^c = 2^1) /\ (c = 2 => 2^c = 2^2)
    BY Zenon
  <2> QED
    BY <1>1, <2>1, <2>2
<1>7. (p * b) \div 2^c = Quarters[k] * h
  BY <1>1, <1>4, <1>5, <1>6
<1>8. p * 2^(Log2[b] - c) = Quarters[k] * h
  <2>1. 2^(Log2[b] - c) = h * (IF c = 0 THEN 4 ELSE IF c = 1 THEN 2 ELSE 1)
    <3>1. CASE c = 0
      <4>1. Log2[b] - c = Log2[b]
        BY <3>1, QuarterWord
      <4> QED
        BY <3>1, <4>1
    <3>2. CASE c = 1
      BY <3>2
    <3>3. CASE c = 2
      BY <3>3
    <3> QED
      BY <1>1, <3>1, <3>2, <3>3
  <2> QED
    BY <1>1, <1>4, <1>5, <2>1
<1> QED
  BY <1>1, <1>3, <1>7, <1>8 DEF p, c

\* A size up to b: the next power of two.
LEMMA SmallGroup ==
    ASSUME NEW size \in 2 .. b
    PROVE  /\ fft_group(size) = [p0 |-> 1, p1 |-> 1, e2 |-> Log2[size - 1] + 1]
           /\ Log2[size - 1] \in 0 .. Log2[b] - 1
           /\ PointsOf(fft_group(size)) = 2^(Log2[size - 1] + 1)
           /\ 2^(Log2[size - 1] + 1) \in Nat
           /\ 2^Log2[size - 1] < size /\ size <= 2^(Log2[size - 1] + 1)
           /\ 2^(Log2[size - 1] + 1) <= b
<1>1. b \in Nat /\ size \in Nat /\ size - 1 \in Nat \ {0} /\ size <= b
  BY HalfWord
<1>2. PICK l \in Nat : l = Log2[size - 1] /\ 2^l <= size - 1 /\ size - 1 < 2^(l + 1)
  BY <1>1, Log2IsHighestBit
<1>3. 2^l \in Nat /\ 2^(l + 1) \in Nat
  BY PowersOfTwo
<1>4. PICK m \in Nat : m = Log2[b] /\ 2^m = b
  BY QuarterWord
<1>5. l < m
  <2>1. CASE m <= l
    <3>1. 2^m <= 2^l
      BY <2>1, PowersGrow
    <3> QED
      BY <1>1, <1>2, <1>3, <1>4, <3>1
  <2> QED
    BY <2>1
<1>6. 2^(l + 1) <= 2^m
  BY <1>5, PowersGrow
<1>7. fft_group(size) = [p0 |-> 1, p1 |-> 1, e2 |-> l + 1]
  BY <1>1, <1>2 DEF fft_group
<1>8. PointsOf(fft_group(size)) = 2^(l + 1)
  BY <1>3, <1>7 DEF PointsOf
<1> QED
  BY <1>1, <1>2, <1>3, <1>4, <1>5, <1>6, <1>7, <1>8

\* A larger size: the first row of the table that holds it.
LEMMA LargeGroup ==
    ASSUME NEW size \in Sizes, size > b
    PROVE  \E k \in 1 .. 14 :
             /\ fft_group(size) = [p0 |-> OddGroups[k][1], p1 |-> OddGroups[k][2],
                                   e2 |-> Log2[b] - OddGroups[k][3]]
             /\ size <= GroupSize(k) /\ \A i \in 1 .. k - 1 : size > GroupSize(i)
<1> DEFINE T == {k \in 1 .. 14 : size <= GroupSize(k)}
           Fits(k) == size <= GroupSize(k) /\ \A i \in 1 .. k - 1 : size > GroupSize(i)
<1>1. Len(OddGroups) = 14
  BY DEF OddGroups
<1>2. PICK h \in Nat : /\ b = 4 * h /\ h >= 4
                       /\ \A i \in 1 .. 14 : GroupSize(i) = Quarters[i] * h /\ GroupSize(i) \in Nat
  <2>1. \A i \in 1 .. 14 : Quarters[i] \in Nat
    BY DEF Quarters
  <2> QED
    BY <2>1, QuarterWord, OddGroupTable
<1>3. 14 \in T /\ size \in Nat
  <2>1. size \in 2 .. GroupSize(14)
    BY <1>1 DEF Sizes
  <2> QED
    BY <1>2, <2>1
<1>4. PICK k \in T : \A j \in T : k <= j
  <2>1. T \in SUBSET Nat /\ T # {}
    BY <1>3
  <2> HIDE DEF T
  <2> QED
    BY <2>1, LeastNumber
<1>5. k \in 1 .. 14 /\ Fits(k)
  BY <1>2, <1>3, <1>4
<1>6. ~(size <= b)
  BY <1>2, <1>3
<1>7. PICK c : c = CHOOSE i \in 1 .. 14 : Fits(i)
  OBVIOUS
<1>8. c \in 1 .. 14 /\ Fits(c)
  <2> HIDE DEF Fits
  <2> QED
    BY <1>5, <1>7
<1>9. fft_group(size) = [p0 |-> OddGroups[c][1], p1 |-> OddGroups[c][2],
                         e2 |-> Log2[b] - OddGroups[c][3]]
  BY <1>1, <1>6, <1>7 DEF fft_group
<1> QED
  BY <1>8, <1>9

\* fft_group gives a size the fewest points, of all that a power of two up to
\* b or a row of the table has, that hold it.
THEOREM FewestPoints ==
    ASSUME NEW size \in Sizes
    PROVE  /\ PointsOf(fft_group(size)) \in Nat
           /\ PointsOf(fft_group(size)) >= size
           /\ \A n \in {GroupSize(k) : k \in DOMAIN OddGroups} \cup {2^e : e \in 0 .. Log2[b]} :
                n >= size => n >= PointsOf(fft_group(size))
<1>1. DOMAIN OddGroups = 1 .. 14
  BY DEF OddGroups
<1>2. PICK h \in Nat :
        /\ b = 4 * h /\ h >= 4
        /\ \A i \in 1 .. 14 :
             /\ OddGroups[i][1] * OddGroups[i][2] * 2^(Log2[b] - OddGroups[i][3]) = GroupSize(i)
             /\ GroupSize(i) = Quarters[i] * h
  BY QuarterWord, OddGroupTable
<1>3. /\ \A i \in 1 .. 14 : Quarters[i] \in Nat /\ Quarters[i] >= 5
      /\ \A i, j \in 1 .. 14 : i <= j => Quarters[i] <= Quarters[j]
  BY DEF Quarters
<1>4. /\ \A i \in 1 .. 14 : GroupSize(i) \in Nat /\ GroupSize(i) > b
      /\ \A i, j \in 1 .. 14 : i <= j => GroupSize(i) <= GroupSize(j)
  <2>1. ASSUME NEW i \in 1 .. 14
        PROVE  GroupSize(i) \in Nat /\ GroupSize(i) >= 5 * h
    <3>1. Quarters[i] * h >= 5 * h /\ Quarters[i] * h \in Nat
      BY <1>3
    <3> QED
      BY <1>2, <3>1
  <2>2. ASSUME NEW i \in 1 .. 14, NEW j \in 1 .. 14, i <= j
        PROVE  GroupSize(i) <= GroupSize(j)
    <3>1. Quarters[i] * h <= Quarters[j] * h
      BY <1>3, <2>2
    <3> QED
      BY <1>2, <3>1
  <2> QED
    BY <1>2, <2>1, <2>2
<1>5. size \in Nat /\ size >= 2 /\ b \in Nat /\ Log2[b] \in Nat /\ 2^Log2[b] = b
  <2>1. size \in Nat /\ size >= 2
    BY DEF Sizes
  <2>2. b \in Nat /\ Log2[b] \in Nat
    BY HalfWord, QuarterWord
  <2>3. 2^Log2[b] = b
    BY HalfWordBits, Zenon
  <2> QED
    BY <2>1, <2>2, <2>3
<1>6. CASE size <= b
  <2>1. size \in 2 .. b
    BY <1>5, <1>6
  <2>2. PICK l \in Nat : /\ PointsOf(fft_group(size)) = 2^(l + 1) /\ 2^(l + 1) \in Nat
                         /\ 2^l < size /\ size <= 2^(l + 1) /\ 2^(l + 1) <= b
    BY <2>1, SmallGroup
  <2>3. ASSUME NEW e \in 0 .. Log2[b], 2^e >= size
        PROVE  2^e >= 2^(l + 1)
    <3>1. e \in Nat /\ 2^e \in Nat /\ 2^l \in Nat
      BY <1>5, PowersOfTwo
    <3>2. CASE e <= l
      <4>1. 2^e <= 2^l
        BY <3>1, <3>2, PowersGrow
      <4> QED
        BY <1>5, <2>2, <2>3, <3>1, <4>1
    <3>3. CASE l + 1 <= e
      BY <3>1, <3>3, PowersGrow
    <3> QED
      BY <3>1, <3>2, <3>3
  <2>4. ASSUME NEW k \in 1 .. 14
        PROVE  GroupSize(k) >= 2^(l + 1)
    BY <1>4, <1>5, <2>2
  <2> QED
    BY <1>1, <2>2, <2>3, <2>4
<1>7. CASE size > b
  <2>1. PICK k \in 1 .. 14 :
          /\ fft_group(size) = [p0 |-> OddGroups[k][1], p1 |-> OddGroups[k][2],
                                e2 |-> Log2[b] - OddGroups[k][3]]
          /\ size <= GroupSize(k) /\ \A i \in 1 .. k - 1 : size > GroupSize(i)
    BY <1>7, LargeGroup
  <2>2. PointsOf(fft_group(size)) = GroupSize(k)
    BY <1>2, <2>1 DEF PointsOf
  <2>3. ASSUME NEW e \in 0 .. Log2[b]
        PROVE  2^e < size
    <3>1. e \in Nat /\ 2^e \in Nat /\ 2^e <= 2^Log2[b]
      BY <1>5, PowersGrow, PowersOfTwo
    <3> QED
      BY <1>5, <1>7, <3>1
  <2>4. ASSUME NEW i \in 1 .. 14, GroupSize(i) >= size
        PROVE  GroupSize(i) >= GroupSize(k)
    <3>1. ~(i \in 1 .. k - 1)
      BY <1>4, <1>5, <2>1, <2>4
    <3> QED
      BY <1>4, <3>1
  <2>5. ASSUME NEW e \in 0 .. Log2[b], 2^e >= size
        PROVE  FALSE
    <3>1. 2^e \in Nat
      BY <1>5, PowersOfTwo
    <3> QED
      BY <1>5, <2>3, <2>5, <3>1
  <2> QED
    BY <1>1, <1>4, <2>1, <2>2, <2>4, <2>5
<1> QED
  BY <1>5, <1>6, <1>7

LEMMA PageSize == page_u64 \in Nat /\ page_u64 >= 2
<1>1. PageBits - 1 \in Nat /\ PageBits = (PageBits - 1) + 1
  BY PageBitsAssumption
<1>2. 2^(PageBits - 1) \in Nat /\ 2^(PageBits - 1) > 0 /\ 2^PageBits = 2 * 2^(PageBits - 1)
  BY <1>1, PowersOfTwo
<1> QED
  BY <1>2 DEF page_u64

\* The pages of a transform hold the size.
LEMMA PagesHold ==
    ASSUME NEW size \in Sizes
    PROVE  /\ fft_pages(size) \in Nat \ {0}
           /\ size <= fft_pages(size) * page_u64
<1>1. PICK n \in Nat : n = PointsOf(fft_group(size)) /\ n >= size
  BY FewestPoints
<1>2. PICK m \in Nat : m = page_u64 /\ m >= 2
  BY PageSize
<1>3. size \in Nat /\ size >= 2
  BY DEF Sizes
<1>4. PICK q \in Nat, r \in Nat : q = (n - 1) \div m /\ r < m /\ n - 1 = m * q + r
  <2>1. n - 1 \in Nat /\ m > 0
    BY <1>1, <1>2, <1>3
  <2> QED
    BY <1>2, <2>1, Divided
<1>5. fft_pages(size) = q + 1
  BY <1>1, <1>2, <1>4 DEF fft_pages
<1>6. (q + 1) * m = m * q + m
  BY <1>2, <1>4
<1>7. size <= (q + 1) * m
  BY <1>1, <1>2, <1>3, <1>4, <1>6
<1> QED
  BY <1>2, <1>5, <1>7

LEMMA PowersAdd ==
    ASSUME NEW i \in Nat, NEW j \in Nat
    PROVE  2^(i + j) = 2^i * 2^j
<1> DEFINE T == {d \in Nat : 2^(i + d) = 2^i * 2^d}
<1>1. ASSUME NEW k \in 0 .. j, \A d \in 0 .. k - 1 : d \in T
      PROVE  k \in T
  <2>1. CASE k = 0
    <3>1. i + k = i /\ 2^i \in Nat /\ 2^k = 1
      BY <2>1, PowersOfTwo
    <3> QED
      BY <3>1
  <2>2. CASE k # 0
    <3>1. k - 1 \in T /\ k - 1 \in Nat /\ i + (k - 1) \in Nat
          /\ k = (k - 1) + 1 /\ i + k = (i + (k - 1)) + 1
      BY <1>1, <2>2
    <3>2. /\ 2^(i + k) = 2 * 2^(i + (k - 1)) /\ 2^k = 2 * 2^(k - 1)
          /\ 2^i \in Nat /\ 2^(k - 1) \in Nat /\ 2^(i + (k - 1)) \in Nat
      BY <3>1, PowersOfTwo
    <3>3. 2^(i + (k - 1)) = 2^i * 2^(k - 1)
      BY <3>1
    <3>4. 2^(i + k) = 2^i * 2^k
      BY <3>2, <3>3
    <3> QED
      BY <3>4
  <2> QED
    BY <2>1, <2>2
<1>2. T \in SUBSET Nat
  OBVIOUS
<1>3. \A k \in 0 .. j : k \in T
  <2> HIDE DEF T
  <2> QED
    BY <1>1, <1>2, Induction
<1> QED
  BY <1>3

LEMMA PagePower ==
    ASSUME NEW d \in Nat
    PROVE  2^(PageBits + d) = page_u64 * 2^d /\ 2^d \in Nat \ {0}
<1>1. 2^(PageBits + d) = 2^PageBits * 2^d
  BY PowersAdd, PageBitsAssumption
<1>2. 2^d \in Nat \ {0}
  BY PowersOfTwo
<1> QED
  BY <1>1, <1>2 DEF page_u64

\* A transform of full pages has no coefficients beyond its points.
LEMMA FullPages ==
    ASSUME NEW size, NEW q \in Nat \ {0}, PointsOf(fft_group(size)) = page_u64 * q
    PROVE  fft_pages(size) * page_u64 = PointsOf(fft_group(size))
<1>1. PICK m \in Nat : m = page_u64 /\ m >= 2
  BY PageSize
<1>2. PICK n \in Nat : n = m * q /\ n >= m
  <2>1. m * q \in Nat /\ m * q >= m * 1
    BY <1>1
  <2> QED
    BY <1>1, <2>1
<1>3. (n - 1) \div m = q - 1
  <2>1. n - 1 \in Int /\ q - 1 \in Int /\ m - 1 \in Int /\ 0 <= m - 1 /\ m - 1 < m
        /\ n - 1 = m * (q - 1) + (m - 1)
    BY <1>1, <1>2
  <2>2. (n - 1) % m = m - 1
    BY <2>1, ModUnique
  <2>3. n - 1 = m * ((n - 1) \div m) + ((n - 1) % m) /\ (n - 1) \div m \in Int
    BY <1>1, <2>1, DivMod
  <2>4. m * ((n - 1) \div m) = m * (q - 1)
    BY <1>1, <2>1, <2>2, <2>3
  <2> QED
    BY <1>1, <2>3, <2>4
<1>4. fft_pages(size) = (n - 1) \div m + 1
  BY <1>1, <1>2 DEF fft_pages
<1>5. fft_pages(size) = q
  BY <1>3, <1>4
<1> QED
  BY <1>1, <1>5

\* A power of two from the page size to b has as many points as coefficients.
LEMMA PowerGroup ==
    ASSUME NEW l \in Nat, PageBits <= l, l <= Log2[b]
    PROVE  fft_pages(2^l) * page_u64 = 2^l /\ 2^l <= b
<1>1. PICK m \in Nat : m = Log2[b] /\ 2^m = b /\ l <= m
  BY QuarterWord
<1>2. PICK s \in Nat : s = 2^l /\ s <= b /\ s >= 2
  <2>1. 2^l <= 2^m /\ 2^l \in Nat /\ 2^PageBits <= 2^l
    BY <1>1, PowersGrow, PowersOfTwo, PageBitsAssumption
  <2> QED
    BY <1>1, <2>1, PageSize DEF page_u64
<1>3. s \in 2 .. b /\ b \in Nat
  BY <1>2, HalfWord
<1>4. PICK e \in Nat : /\ PointsOf(fft_group(s)) = 2^(e + 1)
                       /\ 2^e < s /\ s <= 2^(e + 1)
  BY <1>3, SmallGroup
<1>5. e < l
  <2>1. CASE l <= e
    <3>1. 2^l <= 2^e /\ 2^e \in Nat
      BY <2>1, PowersGrow, PowersOfTwo
    <3> QED
      BY <1>2, <1>4, <3>1
  <2> QED
    BY <2>1
<1>6. l <= e + 1
  <2>1. CASE e + 2 <= l
    <3>1. 2^((e + 1) + 1) <= 2^l /\ 2^((e + 1) + 1) = 2 * 2^(e + 1)
          /\ 2^(e + 1) \in Nat /\ 2^(e + 1) > 0
      BY <2>1, PowersGrow, PowersOfTwo
    <3> QED
      BY <1>2, <1>4, <3>1
  <2> QED
    BY <2>1
<1>7. PointsOf(fft_group(s)) = s
  <2>1. e + 1 = l
    BY <1>5, <1>6
  <2> QED
    BY <1>2, <1>4, <2>1
<1>8. PICK d \in Nat : l = PageBits + d
  <2>1. l - PageBits \in Nat /\ l = PageBits + (l - PageBits)
    BY PageBitsAssumption
  <2> QED
    BY <2>1
<1>9. s = page_u64 * 2^d /\ 2^d \in Nat \ {0}
  BY <1>2, <1>8, PagePower
<1>10. fft_pages(s) * page_u64 = s
  BY <1>7, <1>9, FullPages
<1> QED
  BY <1>2, <1>10

\* So does a row of the table, of which the pages are a part.
LEMMA TableGroup ==
    ASSUME PageBits + 2 <= Log2[b], NEW k \in 1 .. 14
    PROVE  fft_pages(GroupSize(k)) * page_u64 = GroupSize(k)
<1>1. PICK h \in Nat : /\ b = 4 * h /\ h >= 4 /\ 2^(Log2[b] - 2) = h
                       /\ 2^Log2[b] = 4 * h /\ 2^(Log2[b] - 1) = 2 * h
                       /\ Log2[b] \in Nat
  BY QuarterWord
<1>2. \A i \in 1 .. 14 :
        /\ OddGroups[i][1] * OddGroups[i][2] * 2^(Log2[b] - OddGroups[i][3]) = Quarters[i] * h
        /\ GroupSize(i) = Quarters[i] * h
  BY <1>1, OddGroupTable
<1>3. /\ \A i \in 1 .. 14 : Quarters[i] \in Nat /\ Quarters[i] >= 5
      /\ \A i, j \in 1 .. 14 : i < j => Quarters[i] < Quarters[j]
      /\ Quarters[14] = 5140
  BY DEF Quarters
<1>4. ASSUME NEW i \in 1 .. 14
      PROVE  GroupSize(i) \in Nat /\ GroupSize(i) >= 5 * h
  <2>1. Quarters[i] * h >= 5 * h /\ Quarters[i] * h \in Nat
    BY <1>3
  <2> QED
    BY <1>2, <2>1
<1>5. ASSUME NEW i \in 1 .. 14, NEW j \in 1 .. 14, i < j
      PROVE  GroupSize(i) < GroupSize(j)
  <2>1. Quarters[i] + 1 <= Quarters[j] /\ Quarters[i] \in Nat /\ Quarters[j] \in Nat
    BY <1>3, <1>5
  <2>2. (Quarters[i] + 1) * h <= Quarters[j] * h
    BY <2>1
  <2>3. Quarters[i] * h < Quarters[j] * h
    BY <1>1, <2>1, <2>2
  <2> QED
    BY <1>2, <2>3
<1>6. GroupSize(k) \in Sizes /\ GroupSize(k) > b
  <2>1. Len(OddGroups) = 14
    BY DEF OddGroups
  <2>2. GroupSize(k) <= GroupSize(14) /\ GroupSize(14) \in Nat
    BY <1>4, <1>5
  <2> QED
    BY <1>1, <1>4, <2>1, <2>2 DEF Sizes
<1>7. PICK i \in 1 .. 14 :
        /\ fft_group(GroupSize(k)) = [p0 |-> OddGroups[i][1], p1 |-> OddGroups[i][2],
                                      e2 |-> Log2[b] - OddGroups[i][3]]
        /\ GroupSize(k) <= GroupSize(i)
        /\ \A j \in 1 .. i - 1 : GroupSize(k) > GroupSize(j)
  BY <1>6, LargeGroup
<1>8. i = k
  <2>1. ~(i < k)
    BY <1>4, <1>5, <1>7
  <2>2. ~(k < i)
    <3>1. k < i => k \in 1 .. i - 1
      OBVIOUS
    <3> QED
      BY <1>4, <1>7, <3>1
  <2> QED
    BY <2>1, <2>2
<1>9. PointsOf(fft_group(GroupSize(k))) = GroupSize(k)
  BY <1>2, <1>7, <1>8 DEF PointsOf
<1>10. PICK d \in Nat : Log2[b] - 2 = PageBits + d
  <2>1. (Log2[b] - 2) - PageBits \in Nat /\ Log2[b] - 2 = PageBits + ((Log2[b] - 2) - PageBits)
    BY <1>1, PageBitsAssumption
  <2> QED
    BY <2>1
<1>11. h = page_u64 * 2^d /\ 2^d \in Nat \ {0}
  <2>1. 2^(Log2[b] - 2) = 2^(PageBits + d)
    BY <1>10, Zenon
  <2> QED
    BY <1>1, <2>1, PagePower
<1>12. GroupSize(k) = page_u64 * (Quarters[k] * 2^d) /\ Quarters[k] * 2^d \in Nat \ {0}
  <2>1. page_u64 \in Nat /\ Quarters[k] \in Nat /\ Quarters[k] >= 5
    BY <1>3, PageSize
  <2>2. Quarters[k] * 2^d \in Nat \ {0}
    BY <1>11, <2>1
  <2>3. Quarters[k] * (page_u64 * 2^d) = page_u64 * (Quarters[k] * 2^d)
    BY <1>11, <2>1
  <2> QED
    BY <1>2, <1>11, <2>2, <2>3
<1> QED
  BY <1>9, <1>12, FullPages

\* The pages that next_smaller_pages promises hold no more coefficients than
\* the size has: root shrinks a polynomial only to a size that period_red need
\* not enlarge.
THEOREM SmallerPagesFit ==
    ASSUME PageBits + 2 <= Log2[b], NEW size \in Sizes, size > page_u64
    PROVE  next_smaller_pages(size) * page_u64 <= size
<1>1. size \in Nat /\ size >= 2
  BY DEF Sizes
<1>2. b \in Nat /\ b >= 16 /\ Log2[b] \in Nat /\ PageBits <= Log2[b]
  BY HalfWord, QuarterWord, PageBitsAssumption
<1>3. 2^Log2[b] = b
  BY HalfWordBits, Zenon
<1>4. CASE size < b
  <2>1. size \in 2 .. b
    BY <1>1, <1>2, <1>4
  <2>2. PICK l \in Nat : l = Log2[size - 1] /\ 2^l < size /\ size <= 2^(l + 1) /\ l <= Log2[b]
    BY <1>2, <2>1, SmallGroup
  <2>3. PageBits <= l
    <3>1. size - 1 \in Nat \ {0} /\ 2^PageBits <= size - 1 /\ size - 1 < 2^(l + 1)
      BY <1>1, <2>2, PageSize, PowersOfTwo DEF page_u64
    <3> QED
      BY <3>1, HighestBit, PageBitsAssumption
  <2>4. fft_pages(2^l) * page_u64 = 2^l /\ 2^l \in Nat
    BY <2>2, <2>3, PowerGroup, PowersOfTwo
  <2>5. next_smaller_pages(size) = fft_pages(2^l)
    BY <1>1, <1>4, <2>2 DEF next_smaller_pages
  <2> QED
    BY <1>1, <2>2, <2>4, <2>5
<1>5. CASE size >= b /\ size < GroupSize(1)
  <2>1. fft_pages(b) * page_u64 = b
    BY <1>2, <1>3, PowerGroup
  <2>2. next_smaller_pages(size) = fft_pages(b)
    BY <1>1, <1>2, <1>5 DEF next_smaller_pages
  <2> QED
    BY <1>5, <2>1, <2>2
<1>6. CASE size >= b /\ ~(size < GroupSize(1))
  <2> DEFINE Below(k) == GroupSize(k) <= size /\ (k < 14 => size < GroupSize(k + 1))
             T == {k \in 1 .. 14 : k < 14 => size < GroupSize(k + 1)}
  <2>1. Len(OddGroups) = 14
    BY DEF OddGroups
  <2>2. \A k \in 1 .. 14 : GroupSize(k) \in Nat
    <3>1. \A k \in 1 .. 14 : Quarters[k] \in Nat
      BY DEF Quarters
    <3>2. \E h \in Nat : \A k \in 1 .. 14 : GroupSize(k) = Quarters[k] * h
      BY QuarterWord, OddGroupTable
    <3> QED
      BY <3>1, <3>2
  <2>3. PICK k \in T : \A j \in T : k <= j
    <3>1. T \in SUBSET Nat /\ 14 \in T
      OBVIOUS
    <3> HIDE DEF T
    <3> QED
      BY <3>1, LeastNumber
  <2>4. Below(k) /\ k \in 1 .. 14
    <3>1. CASE k = 1
      BY <1>1, <1>6, <2>2, <2>3, <3>1
    <3>2. CASE k # 1
      <4>1. k - 1 \in 1 .. 13 /\ k - 1 \notin T /\ (k - 1) + 1 = k
        BY <2>3, <3>2
      <4> QED
        BY <1>1, <2>2, <2>3, <4>1
    <3> QED
      BY <3>1, <3>2
  <2>5. PICK c : c = CHOOSE i \in 1 .. 14 : Below(i)
    OBVIOUS
  <2>6. c \in 1 .. 14 /\ Below(c)
    <3> HIDE DEF Below
    <3> QED
      BY <2>4, <2>5
  <2>7. next_smaller_pages(size) = fft_pages(GroupSize(c))
    BY <1>1, <1>2, <1>6, <2>1, <2>5 DEF next_smaller_pages
  <2>8. fft_pages(GroupSize(c)) * page_u64 = GroupSize(c)
    BY <2>6, TableGroup
  <2> QED
    BY <2>6, <2>7, <2>8
<1> QED
  BY <1>1, <1>2, <1>4, <1>5, <1>6

=============================================================================
