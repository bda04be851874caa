--------------------------- MODULE TransformProofs ---------------------------
(***************************************************************************)
(* Of what TransformSafety states: the sizes of transforms, for every word *)
(* and page size and every size of polynomial; and what gpu_tg2 does with  *)
(* its chunks, for every group and number of device threads.               *)
(***************************************************************************)
EXTENDS TransformSafety, ArithmeticProofs, SequenceTheorems

\* fft_group gives the fewest points that hold a size, and the pages that
\* next_smaller_pages promises hold no more than the size has, for pages of at
\* most a quarter of the half word (2^18 of 2^32 in the code).
THEOREM SizesFitAlways ==
    ASSUME PageBits + 2 <= Log2[b]
    PROVE  SizesFit
<1> SUFFICES ASSUME NEW size \in Sizes
             PROVE  LET smaller == {GroupSize(k) : k \in DOMAIN OddGroups} \cup {2^e : e \in 0 .. Log2[b]}
                    IN /\ PointsOf(fft_group(size)) >= size
                       /\ \A n \in smaller : n >= size => n >= PointsOf(fft_group(size))
                       /\ size > page_u64 => next_smaller_pages(size) * page_u64 <= size
  BY DEF SizesFit
<1>1. /\ PointsOf(fft_group(size)) >= size
      /\ \A n \in {GroupSize(k) : k \in DOMAIN OddGroups} \cup {2^e : e \in 0 .. Log2[b]} :
           n >= size => n >= PointsOf(fft_group(size))
  BY FewestPoints
<1>2. size > page_u64 => next_smaller_pages(size) * page_u64 <= size
  BY SmallerPagesFit
<1> QED
  BY <1>1, <1>2, Zenon

-----------------------------------------------------------------------------
(* gpu_tg2, called with any group of odd p0 and p1 that it admits. *)

Odd == {n \in Nat : n % 2 = 1}

Tg2Call(G, a, c) == G \in [p0 : Odd, p1 : Odd, e2 : Nat] /\ Start("tg2_gpu", G, a, c)
Tg2Init == \E G, a, c : Tg2Call(G, a, c)
Tg2Spec == Tg2Init /\ [][Next]_vars

\* Each device thread has as many tasks below the middle of a block as above:
\* 2^5 threads, pages of 2^18 and e2 above 26 in the code.
ThreadBits == \E m \in Nat : ctp_threads = 2^m /\ PageBits + m <= tg2Bits

-----------------------------------------------------------------------------
(* The invariant. *)

\* The stages left after the first k.
StageCount == 3 * PP + (IF PP = 1 THEN 3 ELSE 4)
After(k) == [n \in 1 .. StageCount - k |-> GpuTg2Stage(n + k)]

Positions == 0 .. Pages - 1
Rounds == Tpages \div (2 * ctp_threads)
Nothing == [ct \in Threads |-> <<>>]

Tg2Shape ==
    /\ group \in [p0 : Odd, p1 : Odd, e2 : Nat] /\ group.e2 > tg2Bits
    /\ input.op = "tg2_gpu"
    /\ page = [f \in Polys |-> page[f]]

\* A list of pages at all the positions.
List(f) == DOMAIN page[f] = Positions /\ IsInjective(page[f]) /\ IdsOf(f) \subseteq Nat

Called ==
    /\ stages = After(0)
    /\ page["p"] = [i \in Positions |-> i]
    /\ page["f0"] = noPages
    /\ DOMAIN data = Positions
    /\ holding = Nothing
    /\ next = [ct \in Threads |-> ct]

\* Task t has been taken, and with it the pages of p of its column of tasks.
Taken(t) == t < next[t % ctp_threads]
TaskOf(x) == (x \div 2) % Tpages
Read == {x \in Positions : Taken(TaskOf(x))}

\* A thread stacks one chunk more with each task until it is half through,
\* and then one less.
Turn(j) == IF j <= Rounds THEN j ELSE 2 * Rounds - j
Thread(ct) == \E j \in 0 .. 2 * Rounds :
                 /\ next[ct] = ct + j * ctp_threads
                 /\ PP # 1 => Len(holding[ct]) = Turn(j)

\* The chunks of the tasks done are in fe or on a stack.
Stacked ==
    /\ holding \in [Threads -> Seq(Read)]
    /\ IdsOf("f0") \subseteq Read
    /\ \A ct, d \in Threads : \A i \in DOMAIN holding[ct], j \in DOMAIN holding[d] :
         holding[ct][i] = holding[d][j] => ct = d /\ i = j
    /\ \A ct \in Threads : \A i \in DOMAIN holding[ct] : holding[ct][i] \notin IdsOf("f0")
    /\ DOMAIN data = Positions \cup IdsOf("f1")
    /\ IdsOf("f1") \cap Positions = {}

\* With one block fe has new chunks, and p's go at once.
Replaced ==
    /\ holding = Nothing
    /\ IdsOf("f0") \subseteq Nat
    /\ DOMAIN data = IdsOf("f0") \cup IdsOf("f1") \cup (Positions \ Read)
    /\ IdsOf("f0") \cap IdsOf("f1") = {}
    /\ (IdsOf("f0") \cup IdsOf("f1")) \cap (Positions \ Read) = {}

Filling ==
    /\ stages = After(1)
    /\ page["p"] = [i \in Positions |-> i]
    /\ next \in [Threads -> Nat]
    /\ \A ct \in Threads : Thread(ct)
    /\ List("f1")
    /\ DOMAIN page["f0"] = {j \in Positions : Taken(j % Tpages)}
    /\ IsInjective(page["f0"])
    /\ IF PP = 1 THEN Replaced ELSE Stacked

\* The passes over the blocks: the odd half lives from block T on.
OddFrom(T) == {page["f1"][j] : j \in {j \in Positions : j >= T * Tpages}}
Passing ==
    /\ \E T \in 0 .. PP, s \in 0 .. 2 :
         /\ stages = After(2 + 3 * T + s)
         /\ T = PP => s = 0
         /\ DOMAIN data = IdsOf("f0") \cup OddFrom(T)
    /\ holding = Nothing
    /\ List("f0") /\ List("f1")
    /\ IdsOf("f0") \cap IdsOf("f1") = {}

Given ==
    /\ stages = After(3 * PP + 3) \/ stages = <<>>
    /\ next \in [Threads -> Nat]
    /\ holding = Nothing
    /\ List("p")
    /\ page["f0"] = noPages /\ page["f1"] = noPages
    /\ DOMAIN data = IdsOf("p")

Tg2Inv == Tg2Shape /\ (Called \/ Filling \/ Passing \/ Given)

-----------------------------------------------------------------------------
(* The numbers of a call. *)

LEMMA OddForm == \A n \in Odd : \E k \in Nat : n = 2 * k + 1
<1> SUFFICES ASSUME NEW n \in Odd
             PROVE  \E k \in Nat : n = 2 * k + 1
  OBVIOUS
<1>1. n \in Nat /\ n % 2 = 1
  BY DEF Odd
<1>2. PICK q \in Nat, r \in Nat : r = n % 2 /\ n = 2 * q + r
  BY <1>1, Divided
<1> QED
  BY <1>1, <1>2

\* A block has an even number of pages for every device thread, and the pages
\* of p reach to the middle of the middle block.
LEMMA Numbers ==
    ASSUME ThreadBits, Tg2Shape
    PROVE  \E d \in Nat \ {0}, r \in Nat \ {0}, h \in Nat \ {0}, m \in Nat :
             /\ ctp_threads = d /\ Rounds = r /\ h = r * d
             /\ PP = 2 * m + 1 /\ Tpages = 2 * h
             /\ Pages = (2 * m + 1) * (2 * h) /\ Pages \in Nat
             /\ Pages \div 2 = m * (2 * h) + h
<1>1. PICK e \in Nat : ctp_threads = 2^e /\ PageBits + e <= tg2Bits
  BY DEF ThreadBits
<1>2. group.e2 \in Nat /\ group.e2 > tg2Bits /\ tg2Bits \in Nat /\ PageBits \in Nat
  BY ThreadsAssumption, PageBitsAssumption DEF Tg2Shape
<1>3. PICK q \in Nat : group.e2 = PageBits + (q + 1 + e)
  <2>1. PICK u \in Nat, v \in Nat, w \in Nat : u = group.e2 /\ v = PageBits /\ w = tg2Bits
    BY <1>2
  <2>2. u - v - 1 - e \in Nat /\ u = v + ((u - v - 1 - e) + 1 + e)
    BY <1>1, <1>2, <2>1
  <2> QED
    BY <2>1, <2>2
<1>4. PICK d \in Nat \ {0} : d = 2^e
  BY PowersOfTwo
<1>5. PICK r \in Nat \ {0} : r = 2^q
  BY PowersOfTwo
<1>6. PICK h \in Nat \ {0} : h = r * d
  <2>1. r * d \in Nat \ {0}
    OBVIOUS
  <2> QED
    BY <2>1
<1>7. 2^(q + 1 + e) = 2 * h
  <2>1. 2^(q + 1) = 2 * r
    BY <1>5, PowersOfTwo
  <2>2. 2^(q + 1 + e) = 2^(q + 1) * 2^e
    BY PowersAdd
  <2>3. (2 * r) * d = 2 * h
    BY <1>6
  <2> QED
    BY <1>4, <2>1, <2>2, <2>3
<1>8. PICK s \in Nat : s = page_u64 /\ s >= 2
  BY PageSize
<1>9. 2^group.e2 = s * (2 * h)
  BY <1>3, <1>7, <1>8, PagePower
<1>10. PICK m \in Nat : PP = 2 * m + 1
  <2>1. PICK i \in Nat, j \in Nat : group.p0 = 2 * i + 1 /\ group.p1 = 2 * j + 1
    BY OddForm DEF Tg2Shape
  <2>2. (2 * i + 1) * (2 * j + 1) = 2 * (2 * (i * j) + i + j) + 1 /\ 2 * (i * j) + i + j \in Nat
    OBVIOUS
  <2> QED
    BY <2>1, <2>2 DEF PP
<1>11. PICK n \in Nat \ {0} : n = (2 * m + 1) * (2 * h)
  <2>1. (2 * m + 1) * (2 * h) \in Nat \ {0}
    OBVIOUS
  <2> QED
    BY <2>1
<1>12. N = s * n
  <2>1. N = (2 * m + 1) * (s * (2 * h))
    BY <1>9, <1>10 DEF N, PointsOf, PP
  <2>2. (2 * m + 1) * (s * (2 * h)) = s * ((2 * m + 1) * (2 * h))
    OBVIOUS
  <2> QED
    BY <1>11, <2>1, <2>2
<1>13. Pages = n
  <2>1. N - 1 = s * (n - 1) + (s - 1) /\ N - 1 \in Int /\ n - 1 \in Int
    BY <1>8, <1>12
  <2>2. (N - 1) \div s = n - 1
    BY <1>8, <2>1, DivUnique
  <2> QED
    BY <1>8, <2>2 DEF Pages
<1>14. Tpages = 2 * h
  <2>1. n = (2 * m + 1) * (2 * h) + 0 /\ 2 * h \in Int /\ 2 * m + 1 \in Nat
    BY <1>11
  <2>2. n \div (2 * m + 1) = 2 * h
    BY <2>1, DivUnique
  <2> QED
    BY <1>10, <1>13, <2>2 DEF Tpages
<1>15. Rounds = r
  <2>1. 2 * h = (2 * d) * r + 0 /\ 2 * h \in Int /\ 2 * d \in Nat /\ 2 * d > 0
    BY <1>6
  <2>2. (2 * h) \div (2 * d) = r
    BY <2>1, DivUnique
  <2> QED
    BY <1>1, <1>4, <1>14, <2>2 DEF Rounds
<1>16. Pages \div 2 = m * (2 * h) + h
  <2>1. n = 2 * (m * (2 * h) + h) + 0 /\ m * (2 * h) + h \in Int
    BY <1>11
  <2>2. n \div 2 = m * (2 * h) + h
    BY <2>1, DivUnique
  <2> QED
    BY <1>13, <2>2
<1>17. Pages = (2 * m + 1) * (2 * h) /\ Pages \in Nat
  BY <1>11, <1>13
<1>18. ctp_threads = d
  BY <1>1, <1>4
<1> QED
  BY <1>6, <1>10, <1>14, <1>15, <1>16, <1>17, <1>18, Zenon

\* A position is a task and a block.
LEMMA PositionOf ==
    ASSUME ThreadBits, Tg2Shape
    PROVE  /\ \A j \in Positions :
                /\ j % Tpages \in 0 .. Tpages - 1 /\ j \div Tpages \in 0 .. PP - 1
                /\ j = (j % Tpages) + (j \div Tpages) * Tpages
           /\ \A t \in 0 .. Tpages - 1, i \in 0 .. PP - 1 :
                /\ t + i * Tpages \in Positions
                /\ (t + i * Tpages) % Tpages = t /\ (t + i * Tpages) \div Tpages = i
<1>1. PICK h \in Nat \ {0}, m \in Nat :
          /\ PP = 2 * m + 1 /\ Tpages = 2 * h
          /\ Pages = (2 * m + 1) * (2 * h) /\ Pages \in Nat
  BY Numbers
<1>2. PICK t \in Nat \ {0}, pp \in Nat \ {0} : t = Tpages /\ pp = PP /\ Pages = t * pp
  <2>1. 2 * h \in Nat \ {0} /\ 2 * m + 1 \in Nat \ {0} /\ (2 * m + 1) * (2 * h) = (2 * h) * (2 * m + 1)
    OBVIOUS
  <2> QED
    BY <1>1, <2>1
<1>3. ASSUME NEW j \in Positions
      PROVE  /\ j % t \in 0 .. t - 1 /\ j \div t \in 0 .. pp - 1
             /\ j = (j % t) + (j \div t) * t
  <2>1. j \in Nat /\ j < t * pp
    BY <1>1, <1>2 DEF Positions
  <2>2. PICK q \in Nat, r \in Nat : q = j \div t /\ r = j % t /\ r < t /\ j = t * q + r
    BY <2>1, Divided
  <2>3. q < pp
    BY <2>1, <2>2, QuotientBelow
  <2>4. t * q = q * t
    OBVIOUS
  <2> QED
    BY <2>2, <2>3, <2>4
<1>4. ASSUME NEW k \in 0 .. t - 1, NEW i \in 0 .. pp - 1
      PROVE  k + i * t \in Positions /\ (k + i * t) % t = k /\ (k + i * t) \div t = i
  <2>1. i * t \in Nat /\ i * t = t * i
    OBVIOUS
  <2>2. t * i <= t * (pp - 1) /\ t * (pp - 1) = t * pp - t
    BY ProductMonotone
  <2>3. k + i * t \in Int /\ k + i * t = t * i + k
    BY <2>1
  <2>4. (k + i * t) % t = k /\ (k + i * t) \div t = i
    BY <2>3, DivUnique
  <2> QED
    BY <1>1, <1>2, <2>1, <2>2, <2>4 DEF Positions
<1> QED
  BY <1>2, <1>3, <1>4

\* The block that goes to block k when blocks are transposed.
SourceOf(k) == CHOOSE i \in 0 .. PP - 1 : Transposed(i, group) = k

LEMMA Transposition ==
    ASSUME ThreadBits, Tg2Shape
    PROVE  /\ \A i \in 0 .. PP - 1 : Transposed(i, group) \in 0 .. PP - 1
           /\ \A k \in 0 .. PP - 1 : /\ SourceOf(k) \in 0 .. PP - 1
                                     /\ Transposed(SourceOf(k), group) = k
           /\ \A i \in 0 .. PP - 1 : SourceOf(Transposed(i, group)) = i
<1>1. PICK p \in Nat \ {0}, q \in Nat \ {0} : p = group.p0 /\ q = group.p1
  <2>1. group.p0 \in Nat /\ group.p1 \in Nat /\ group.p0 # 0 /\ group.p1 # 0
    BY OddForm DEF Tg2Shape
  <2> QED
    BY <2>1
<1>2. PP = p * q /\ p * q \in Nat
  BY <1>1 DEF PP
<1>3. \A i \in 0 .. PP - 1 : \E u \in 0 .. p - 1, v \in 0 .. q - 1 :
         i = q * u + v /\ i \div q = u /\ i % q = v
  <2> SUFFICES ASSUME NEW i \in 0 .. PP - 1
               PROVE  \E u \in 0 .. p - 1, v \in 0 .. q - 1 :
                         i = q * u + v /\ i \div q = u /\ i % q = v
    OBVIOUS
  <2>1. PICK u \in Nat, v \in Nat : u = i \div q /\ v = i % q /\ v < q /\ i = q * u + v
    BY <1>2, Divided
  <2>2. q * u + v < q * p
    BY <1>2, <2>1
  <2>3. u < p
    BY <2>2, QuotientBelow
  <2> QED
    BY <2>1, <2>3
<1>4. ASSUME NEW u \in 0 .. p - 1, NEW v \in 0 .. q - 1
      PROVE  /\ q * u + v \in 0 .. PP - 1 /\ p * v + u \in 0 .. PP - 1
             /\ Transposed(q * u + v, group) = p * v + u
             /\ (p * v + u) \div p = v /\ (p * v + u) % p = u
  <2>1. q * u <= q * (p - 1) /\ q * (p - 1) = p * q - q /\ q * u \in Nat
    BY ProductMonotone
  <2>2. p * v <= p * (q - 1) /\ p * (q - 1) = p * q - p /\ p * v \in Nat
    BY ProductMonotone
  <2>3. (q * u + v) \div q = u /\ (q * u + v) % q = v
    BY <2>1, DivUnique
  <2>4. (p * v + u) \div p = v /\ (p * v + u) % p = u
    BY <2>2, DivUnique
  <2>5. Transposed(q * u + v, group) = v * p + u
    BY <1>1, <2>3 DEF Transposed
  <2>6. v * p + u = p * v + u
    OBVIOUS
  <2>7. q * u + v \in 0 .. PP - 1 /\ p * v + u \in 0 .. PP - 1
    BY <1>2, <2>1, <2>2
  <2> QED
    BY <2>4, <2>5, <2>6, <2>7
<1>5. ASSUME NEW i \in 0 .. PP - 1
      PROVE  Transposed(i, group) \in 0 .. PP - 1
  <2>1. PICK u \in 0 .. p - 1, v \in 0 .. q - 1 : i = q * u + v
    BY <1>3
  <2> QED
    BY <1>4, <2>1
<1>6. ASSUME NEW k \in 0 .. PP - 1
      PROVE  \E i \in 0 .. PP - 1 : Transposed(i, group) = k
  <2>1. PICK v \in Nat, u \in Nat : v = k \div p /\ u = k % p /\ u < p /\ k = p * v + u
    BY <1>2, Divided
  <2>2. v < q
    BY <1>2, <2>1, QuotientBelow
  <2>3. u \in 0 .. p - 1 /\ v \in 0 .. q - 1
    BY <2>1, <2>2
  <2>4. q * u + v \in 0 .. PP - 1 /\ Transposed(q * u + v, group) = k
    BY <1>4, <2>1, <2>3
  <2> QED
    BY <2>4
<1>7. ASSUME NEW i \in 0 .. PP - 1, NEW j \in 0 .. PP - 1, Transposed(i, group) = Transposed(j, group)
      PROVE  i = j
  <2>1. PICK u \in 0 .. p - 1, v \in 0 .. q - 1 : i = q * u + v
    BY <1>3
  <2>2. PICK x \in 0 .. p - 1, y \in 0 .. q - 1 : j = q * x + y
    BY <1>3
  <2>3. p * v + u = p * y + x
    BY <1>4, <1>7, <2>1, <2>2
  <2>4. v = y /\ u = x
    BY <1>4, <2>3
  <2> QED
    BY <2>1, <2>2, <2>4
<1>8. ASSUME NEW k \in 0 .. PP - 1
      PROVE  SourceOf(k) \in 0 .. PP - 1 /\ Transposed(SourceOf(k), group) = k
  BY <1>6 DEF SourceOf
<1> QED
  BY <1>5, <1>7, <1>8

-----------------------------------------------------------------------------
(* The stages. *)

LEMMA PassStage ==
    ASSUME NEW m \in Nat, PP = 2 * m + 1, NEW B \in 0 .. PP - 1, NEW s \in 0 .. 2
    PROVE  /\ 3 + 3 * B + s \in Nat /\ 3 + 3 * B + s <= 3 * PP + 2
           /\ GpuTg2Stage(3 + 3 * B + s) = Stage(<<"tg2Top", "tg2Group", "tg2Back">>[s + 1], "p", B)
<1>1. PICK i \in Nat : i = 3 + 3 * B + s
  OBVIOUS
<1>2. i > 2 /\ i <= 3 * PP + 2
  BY <1>1
<1>3. (i - 3) \div 3 = B /\ (i - 3) % 3 = s
  <2>1. i - 3 = 3 * B + s /\ i - 3 \in Int
    BY <1>1
  <2> QED
    BY <2>1, DivUnique
<1>4. GpuTg2Stage(i) = Stage(<<"tg2Top", "tg2Group", "tg2Back">>[((i - 3) % 3) + 1], "p", (i - 3) \div 3)
  BY <1>2 DEF GpuTg2Stage
<1> QED
  BY <1>1, <1>2, <1>3, <1>4

LEMMA OtherStages ==
    ASSUME NEW m \in Nat, PP = 2 * m + 1
    PROVE  /\ GpuTg2Stage(1) = Stage("alloc", "f1", 0)
           /\ GpuTg2Stage(2) = Stage("tg2Odd", "p", 0)
           /\ GpuTg2Stage(3 * PP + 3) = Stage("tg2Give", "p", 0)
           /\ GpuTg2Stage(3 * PP + 4) = Stage("invOdd", "p", 0)
  BY DEF GpuTg2Stage

LEMMA FirstStage ==
    ASSUME NEW m \in Nat, PP = 2 * m + 1
    PROVE  GpuTg2Stages = After(0)
<1>1. PICK n \in Nat : n = StageCount
  BY DEF StageCount
<1>2. After(0) = [k \in 1 .. n |-> GpuTg2Stage(k)]
  BY <1>1 DEF After
<1>3. GpuTg2Stages = [k \in 1 .. n |-> GpuTg2Stage(k)]
  BY <1>1 DEF GpuTg2Stages, StageCount
<1> QED
  BY <1>2, <1>3

LEMMA NextStage ==
    ASSUME NEW m \in Nat, PP = 2 * m + 1, NEW k \in 0 .. StageCount - 1
    PROVE  /\ After(k) # <<>> /\ Head(After(k)) = GpuTg2Stage(k + 1)
           /\ Tail(After(k)) = After(k + 1)
<1>1. PICK n \in Nat : n = StageCount /\ k + 1 <= n
  BY DEF StageCount
<1>2. After(k) = [i \in 1 .. n - k |-> GpuTg2Stage(i + k)]
  BY <1>1 DEF After
<1> DEFINE S == [i \in 1 .. n - k |-> GpuTg2Stage(i + k)]
<1>3. Len(S) = n - k /\ S[1] = GpuTg2Stage(k + 1) /\ S # <<>>
  BY <1>1
<1>4. Tail(S) = [i \in 1 .. (n - k) - 1 |-> S[i + 1]]
  BY <1>3
<1>5. \A i \in 1 .. (n - k) - 1 : S[i + 1] = GpuTg2Stage(i + (k + 1))
  BY <1>1
<1>6. After(k + 1) = [i \in 1 .. (n - k) - 1 |-> GpuTg2Stage(i + (k + 1))]
  BY <1>1 DEF After
<1>7. Head(S) = S[1]
  BY <1>3
<1> QED
  BY <1>2, <1>3, <1>4, <1>5, <1>6, <1>7

LEMMA LastStage ==
    ASSUME NEW m \in Nat, PP = 2 * m + 1
    PROVE  /\ After(StageCount) = <<>>
           /\ StageCount = IF PP = 1 THEN 3 * PP + 3 ELSE 3 * PP + 4
<1>1. PICK n \in Nat : n = StageCount
  BY DEF StageCount
<1>2. After(n) = [i \in 1 .. 0 |-> GpuTg2Stage(i + n)]
  BY <1>1 DEF After
<1> QED
  BY <1>1, <1>2 DEF StageCount

\* A step is of the operation whose turn it is.
LEMMA StepOf ==
    ASSUME Next, stages # <<>>, NEW o, o = Head(stages).op
    PROVE  /\ o = "alloc" => Alloc
           /\ o = "tg2Odd" => StageDone \/ \E ct \in Threads : Tg2OddTask(ct)
           /\ o = "tg2Top" => Tg2Top
           /\ o = "tg2Group" => Tg2Group
           /\ o = "tg2Back" => Tg2Back
           /\ o = "tg2Give" => Tg2Give
           /\ o = "invOdd" => StageDone \/ \E ct \in Threads : OddTask(ct)
<1>1. Head(stages).op = o
  OBVIOUS
<1>2. EvenBlock => o \in {"even", "invEven"}
  BY <1>1 DEF EvenBlock, At
<1>3. EvenPost => o \in {"evenMul", "evenTg2"}
  BY <1>1 DEF EvenPost, At
<1>4. Permute => o \in {"permute", "invPermute"}
  BY <1>1 DEF Permute, At
<1>5. (Split => o = "split") /\ (Give => o = "give") /\ (ClearTail => o = "tail")
  BY <1>1 DEF Split, Give, ClearTail, At
<1>6. (Alloc => o = "alloc") /\ (Tg2Give => o = "tg2Give")
  BY <1>1 DEF Alloc, Tg2Give, At
<1>7. (Tg2Top => o = "tg2Top") /\ (Tg2Group => o = "tg2Group") /\ (Tg2Back => o = "tg2Back")
  BY <1>1 DEF Tg2Top, Tg2Group, Tg2Back, At
<1>8. StageDone => o \in {"odd", "invOdd", "tg2Odd", "gpuEval"}
  BY <1>1 DEF StageDone, At, TaskStages, OddStages
<1>9. ~Finished
  BY DEF Finished
<1>10. \A ct \in Threads : /\ OddTask(ct) => o \in {"odd", "invOdd"}
                           /\ EvalTask(ct) => o = "gpuEval"
                           /\ Tg2OddTask(ct) => o = "tg2Odd"
  BY <1>1 DEF OddTask, EvalTask, Tg2OddTask, At, OddStages
<1> HIDE DEF EvenBlock, EvenPost, Permute, Split, Give, ClearTail, Alloc, Tg2Top, Tg2Group,
             Tg2Back, Tg2Give, StageDone, Finished, OddTask, EvalTask, Tg2OddTask
<1>11. \/ EvenBlock \/ EvenPost \/ Permute \/ Split \/ Give \/ ClearTail
       \/ Alloc \/ Tg2Top \/ Tg2Group \/ Tg2Back \/ Tg2Give \/ StageDone \/ Finished
       \/ \E ct \in Threads : OddTask(ct) \/ EvalTask(ct) \/ Tg2OddTask(ct)
  BY DEF Next
<1> QED
  BY <1>2, <1>3, <1>4, <1>5, <1>6, <1>7, <1>8, <1>9, <1>10, <1>11

-----------------------------------------------------------------------------
(* New chunks. *)

\* A set of numbers has an element with i smaller ones for every i that is
\* less than its size.
LEMMA Ranks ==
    ASSUME NEW B \in Nat, NEW S \in SUBSET (0 .. B), NEW i \in Nat, i < Cardinality(S)
    PROVE  \E x \in S : Cardinality({y \in S : y < x}) = i
<1> DEFINE Below(z) == {y \in S : y < z}
           T == {z \in Nat : z <= B /\ Cardinality(Below(z + 1)) > i}
<1>0. \A y \in S : y \in Nat /\ y <= B
  OBVIOUS
<1>1. IsFiniteSet(S)
  <2>1. 0 \in Int /\ B \in Int
    OBVIOUS
  <2>2. IsFiniteSet(0 .. B)
    BY <2>1, FS_Interval
  <2> QED
    BY <2>2, FS_Subset
<1>2. \A z \in Nat : IsFiniteSet(Below(z)) /\ Cardinality(Below(z)) \in Nat
  BY <1>1, FS_Subset, FS_CardinalityType
<1>3. B \in T
  <2>1. Below(B + 1) = S
    <3>1. \A y \in S : y < B + 1
      BY <1>0
    <3> QED
      BY <3>1
  <2> QED
    BY <2>1
<1>4. PICK x \in T : \A z \in T : x <= z
  <2>1. T \in SUBSET Nat /\ T # {}
    BY <1>3
  <2> HIDE DEF T
  <2> QED
    BY <2>1, LeastNumber
<1>5. Cardinality(Below(x)) <= i
  <2>1. CASE x = 0
    <3>1. \A y \in S : ~(y < x)
      BY <1>0, <2>1
    <3>2. Below(x) = {}
      BY <3>1
    <3> QED
      BY <3>2, FS_EmptySet
  <2>2. CASE x # 0
    <3>1. x - 1 \in Nat /\ x - 1 \notin T /\ (x - 1) + 1 = x
      BY <1>4, <2>2
    <3>2. ~(Cardinality(Below(x)) > i)
      BY <3>1
    <3> QED
      BY <1>2, <3>2
  <2> QED
    BY <2>1, <2>2
<1>6. x \in S
  <2> SUFFICES ASSUME x \notin S
               PROVE  FALSE
    OBVIOUS
  <2>1. \A y \in S : y < x + 1 <=> y < x
    <3>1. \A y \in Nat : y # x => (y < x + 1 <=> y < x)
      BY <1>4
    <3> QED
      BY <1>0, <3>1
  <2>2. Below(x + 1) = Below(x)
    BY <2>1
  <2> QED
    BY <1>2, <1>5, <2>2
<1>7. Below(x + 1) = Below(x) \cup {x} /\ x \notin Below(x)
  <2>1. \A y \in Nat : y < x + 1 <=> y < x \/ y = x
    BY <1>4
  <2>2. \A y \in S : y < x + 1 <=> y < x \/ y = x
    BY <1>0, <2>1
  <2>3. ~(x < x)
    BY <1>4
  <2> QED
    BY <1>6, <2>2, <2>3
<1>8. Cardinality(Below(x + 1)) = Cardinality(Below(x)) + 1
  <2>1. x \in Nat
    BY <1>4
  <2>2. IsFiniteSet(Below(x))
    BY <1>2, <2>1
  <2> HIDE DEF Below
  <2> QED
    BY <1>7, <2>2, FS_AddElement
<1>9. Cardinality(Below(x)) = i
  BY <1>2, <1>5, <1>8
<1> QED
  BY <1>6, <1>9

\* create_chunk finds identities that no live chunk has.
LEMMA FreshChunks ==
    ASSUME Pages \in Nat, IsFiniteSet(DOMAIN data), NEW n \in Nat,
           Cardinality(DOMAIN data) + n <= 6 * Pages + 3
    PROVE  /\ DOMAIN Fresh(n) = 0 .. n - 1
           /\ \A i \in 0 .. n - 1 : Fresh(n)[i] \in Nat /\ Fresh(n)[i] \notin DOMAIN data
           /\ IsInjective(Fresh(n))
<1>1. PICK B \in Nat : B = 6 * Pages + 2
  OBVIOUS
<1> DEFINE S == (0 .. B) \ DOMAIN data
           Rank(x) == Cardinality({y \in S : y < x})
           Pick(i) == CHOOSE x \in S : Rank(x) = i
<1>2. n <= Cardinality(S)
  <2>0. 0 \in Int /\ B \in Int /\ ~(0 > B) /\ B - 0 + 1 = B + 1
    BY <1>1
  <2>1. IsFiniteSet(0 .. B) /\ Cardinality(0 .. B) = B + 1
    BY <2>0, FS_Interval
  <2>2. Cardinality(S) = Cardinality(0 .. B) - Cardinality((0 .. B) \cap DOMAIN data)
    BY <2>1, FS_Difference
  <2>3. Cardinality((0 .. B) \cap DOMAIN data) <= Cardinality(DOMAIN data)
    BY FS_Intersection
  <2>4. /\ Cardinality((0 .. B) \cap DOMAIN data) \in Nat /\ Cardinality(DOMAIN data) \in Nat
        /\ Cardinality(0 .. B) \in Nat
    BY <2>1, FS_Intersection, FS_CardinalityType
  <2> QED
    BY <1>1, <2>1, <2>2, <2>3, <2>4
<1>3. Cardinality(S) \in Nat
  <2>1. 0 \in Int /\ B \in Int
    BY <1>1
  <2>2. IsFiniteSet(0 .. B)
    BY <2>1, FS_Interval
  <2> QED
    BY <2>2, FS_Difference, FS_CardinalityType
<1>4. \A i \in 0 .. n - 1 : \E x \in S : Rank(x) = i
  <2> SUFFICES ASSUME NEW i \in 0 .. n - 1
               PROVE  \E x \in S : Rank(x) = i
    OBVIOUS
  <2>1. i \in Nat /\ i < Cardinality(S) /\ S \in SUBSET (0 .. B)
    BY <1>2, <1>3
  <2> QED
    BY <2>1, Ranks
<1>5. \A i \in 0 .. n - 1 : Pick(i) \in S /\ Rank(Pick(i)) = i
  BY <1>4
<1>6. Fresh(n) = [i \in 0 .. n - 1 |-> Pick(i)]
  BY <1>1 DEF Fresh
<1> HIDE DEF Pick, Rank
<1>7. \A i \in 0 .. n - 1 : Fresh(n)[i] = Pick(i)
  BY <1>6
<1>8. \A i \in 0 .. n - 1 : Fresh(n)[i] \in Nat /\ Fresh(n)[i] \notin DOMAIN data
  BY <1>5, <1>7
<1>9. DOMAIN Fresh(n) = 0 .. n - 1
  BY <1>6
<1>10. IsInjective(Fresh(n))
  BY <1>5, <1>7, <1>9 DEF IsInjective
<1> QED
  BY <1>8, <1>9, <1>10

\* A list has no more chunks than places, and as many if none is on it twice.
LEMMA IdsCounted ==
    ASSUME Pages \in Nat, NEW f, NEW D \in SUBSET Positions, DOMAIN page[f] = D
    PROVE  /\ IsFiniteSet(IdsOf(f)) /\ Cardinality(IdsOf(f)) \in Nat
           /\ Cardinality(IdsOf(f)) <= Pages
           /\ D = Positions /\ IsInjective(page[f]) => Cardinality(IdsOf(f)) = Pages
<1> DEFINE e == [j \in D |-> page[f][j]]
<1>1. IsFiniteSet(Positions) /\ Cardinality(Positions) = Pages
  BY FS_Interval DEF Positions
<1>2. IsFiniteSet(D) /\ Cardinality(D) <= Pages /\ Cardinality(D) \in Nat
  BY <1>1, FS_Subset, FS_CardinalityType
<1>3. IdsOf(f) = {e[j] : j \in D}
  BY DEF IdsOf
<1>4. e \in Surjection(D, IdsOf(f))
  BY <1>3 DEF Surjection
<1>5. IsFiniteSet(IdsOf(f)) /\ Cardinality(IdsOf(f)) <= Cardinality(D)
      /\ (Cardinality(IdsOf(f)) = Cardinality(D) <=> e \in Injection(D, IdsOf(f)))
  BY <1>2, <1>4, FS_Surjection
<1>6. IsInjective(page[f]) => e \in Injection(D, IdsOf(f))
  <2>1. ASSUME IsInjective(page[f]), NEW i \in D, NEW j \in D, e[i] = e[j]
        PROVE  i = j
    BY <2>1 DEF IsInjective
  <2>2. e \in [D -> IdsOf(f)]
    BY <1>3
  <2> HIDE DEF e
  <2> QED
    BY <2>1, <2>2 DEF Injection, IsInjective
<1>7. Cardinality(IdsOf(f)) \in Nat
  BY <1>5, FS_CardinalityType
<1> QED
  BY <1>1, <1>2, <1>5, <1>6, <1>7

-----------------------------------------------------------------------------
(* The call, and the pages of fo. *)

\* What depends on the group only.
LEMMA SameGroup ==
    ASSUME group' = group
    PROVE  /\ PP' = PP /\ Pages' = Pages /\ Tpages' = Tpages
           /\ Positions' = Positions /\ Rounds' = Rounds /\ StageCount' = StageCount
           /\ \A k : After(k)' = After(k)
<1>1. N' = N /\ PP' = PP
  BY DEF N, PP
<1>2. Pages' = Pages
  BY <1>1 DEF Pages
<1>3. Tpages' = Tpages
  BY <1>1, <1>2 DEF Tpages
<1>4. Positions' = Positions /\ Rounds' = Rounds /\ StageCount' = StageCount
  BY <1>1, <1>2, <1>3 DEF Positions, Rounds, StageCount
<1>5. \A k : GpuTg2Stage(k)' = GpuTg2Stage(k)
  BY <1>1 DEF GpuTg2Stage
<1>6. \A k : After(k)' = After(k)
  BY <1>4, <1>5 DEF After
<1> QED
  BY <1>1, <1>2, <1>3, <1>4, <1>6

LEMMA CallStarts ==
    ASSUME ThreadBits, Tg2Init
    PROVE  Tg2Inv
<1>1. PICK G, a, c : Tg2Call(G, a, c)
  BY DEF Tg2Init
<1>2. Start("tg2_gpu", G, a, c) /\ G \in [p0 : Odd, p1 : Odd, e2 : Nat]
  BY <1>1 DEF Tg2Call
<1>3. group = G /\ input.op = "tg2_gpu" /\ G.e2 > tg2Bits
  BY <1>2 DEF Start, tg2_gpu_runs
<1> DEFINE loaded == <<"p">>
           list(k) == [i \in 0 .. Pages - 1 |-> i + (k - 1) * Pages]
<1>4. page = [f \in Polys |->
                IF \E k \in DOMAIN loaded : loaded[k] = f
                THEN list(CHOOSE k \in DOMAIN loaded : loaded[k] = f) ELSE noPages]
  BY <1>2 DEF Start
<1>5. page = [f \in Polys |-> page[f]]
  BY <1>4
<1>6. Tg2Shape
  BY <1>2, <1>3, <1>5 DEF Tg2Shape
<1>7. PICK m \in Nat : PP = 2 * m + 1 /\ Pages \in Nat
  BY <1>6, Numbers
<1>8. DOMAIN loaded = {1} /\ loaded[1] = "p"
  OBVIOUS
<1>9. (CHOOSE k \in DOMAIN loaded : loaded[k] = "p") = 1
  BY <1>8
<1>10. page["p"] = [i \in Positions |-> i]
  <2>1. page["p"] = list(1)
    BY <1>4, <1>8, <1>9 DEF Polys
  <2>2. (1 - 1) * Pages = 0
    BY <1>7
  <2>3. \A i \in Positions : i + (1 - 1) * Pages = i
    BY <1>7, <2>2 DEF Positions
  <2> QED
    BY <2>1, <2>3 DEF Positions
<1>11. page["f0"] = noPages
  BY <1>4, <1>8 DEF Polys
<1>12. DOMAIN data = Positions
  <2>1. DOMAIN data = 0 .. Len(loaded) * Pages - 1
    BY <1>2 DEF Start
  <2>2. Len(loaded) = 1 /\ 1 * Pages = Pages
    BY <1>7
  <2> QED
    BY <2>1, <2>2 DEF Positions
<1>13. stages = After(0)
  <2>1. stages = GpuTg2Stages
    BY <1>2 DEF Start, StagesOf
  <2> QED
    BY <1>7, <2>1, FirstStage
<1>14. holding = Nothing /\ next = [ct \in Threads |-> ct]
  BY <1>2 DEF Start, Nothing
<1> QED
  BY <1>6, <1>10, <1>11, <1>12, <1>13, <1>14 DEF Tg2Inv, Called

\* At the start of a stage no task has been taken.
LEMMA NoneTaken ==
    ASSUME NEW n, n = [ct \in Threads |-> ct]
    PROVE  /\ n \in [Threads -> Nat]
           /\ \A t \in Nat : ~(t < n[t % ctp_threads])
<1>1. PICK d \in Nat \ {0} : d = ctp_threads
  BY ThreadsAssumption
<1>2. n \in [Threads -> Nat]
  BY DEF Threads
<1>3. ASSUME NEW t \in Nat
      PROVE  ~(t < n[t % ctp_threads])
  <2>1. PICK q \in Nat, r \in Nat : r = t % d /\ r < d /\ t = d * q + r
    BY Divided
  <2>2. r \in Threads /\ n[r] = r
    BY <1>1, <2>1 DEF Threads
  <2>3. d * q \in Nat
    OBVIOUS
  <2> QED
    BY <1>1, <2>1, <2>2, <2>3
<1> QED
  BY <1>2, <1>3

LEMMA AllocStep ==
    ASSUME ThreadBits, Tg2Shape, Called, Next
    PROVE  (Tg2Shape /\ Filling)'
<1>1. PICK d \in Nat \ {0}, r \in Nat \ {0}, h \in Nat \ {0}, m \in Nat :
          /\ ctp_threads = d /\ Rounds = r /\ PP = 2 * m + 1 /\ Tpages = 2 * h /\ Pages \in Nat
  BY Numbers
<1>2. stages # <<>> /\ Head(stages) = Stage("alloc", "f1", 0) /\ Tail(stages) = After(1)
  <2>1. 0 \in 0 .. StageCount - 1 /\ 0 + 1 = 1
    BY <1>1 DEF StageCount
  <2> QED
    BY <1>1, <2>1, NextStage, OtherStages DEF Called
<1>3. Alloc /\ F = "f1"
  BY <1>2, StepOf DEF F, Stage
<1>4. /\ page' = [page EXCEPT !["f1"] = Fresh(Pages)]
      /\ data' = Write([id \in {Fresh(Pages)[i] : i \in 0 .. Pages - 1} |-> Zero])
      /\ stages' = After(1) /\ next' = [ct \in Threads |-> ct]
      /\ group' = group /\ input' = input /\ holding' = holding
  BY <1>2, <1>3 DEF Alloc, EndStage
<1>5. /\ PP' = PP /\ Pages' = Pages /\ Tpages' = Tpages /\ Positions' = Positions
      /\ Rounds' = Rounds /\ After(1)' = After(1)
  BY <1>4, SameGroup
<1>6. /\ DOMAIN Fresh(Pages) = Positions /\ IsInjective(Fresh(Pages))
      /\ \A i \in Positions : Fresh(Pages)[i] \in Nat /\ Fresh(Pages)[i] \notin Positions
  <2>1. IsFiniteSet(Positions) /\ Cardinality(Positions) = Pages
    <3>1. 0 \in Int /\ Pages - 1 \in Int
      BY <1>1
    <3> QED
      BY <1>1, <3>1, FS_Interval DEF Positions
  <2>2. IsFiniteSet(DOMAIN data) /\ Cardinality(DOMAIN data) + Pages <= 6 * Pages + 3
    BY <1>1, <2>1 DEF Called
  <2> QED
    BY <1>1, <2>2, FreshChunks DEF Called, Positions
<1>7. /\ page'["p"] = page["p"] /\ page'["f0"] = noPages /\ page'["f1"] = Fresh(Pages)
      /\ page' = [f \in Polys |-> page'[f]]
  BY <1>4 DEF Tg2Shape, Called, Polys
<1>8. /\ IdsOf("f1")' = {Fresh(Pages)[i] : i \in Positions}
      /\ IdsOf("f0")' = {}
  BY <1>6, <1>7 DEF IdsOf, noPages
<1>9. DOMAIN data' = Positions \cup IdsOf("f1")'
  BY <1>4, <1>8 DEF Write, Called, Positions
<1>10. next' \in [Threads -> Nat] /\ \A t \in Nat : ~Taken(t)'
  BY <1>4, NoneTaken DEF Taken
<1>11. Read' = {}
  <2>1. \A x \in Positions : TaskOf(x)' \in Nat
    <3> SUFFICES ASSUME NEW x \in Positions
                 PROVE  (x \div 2) % Tpages \in Nat
      BY <1>5 DEF TaskOf
    <3>1. x \in Nat
      BY <1>1 DEF Positions
    <3>2. x \div 2 \in Nat
      BY <3>1, DivMod
    <3> QED
      BY <1>1, <3>2, DivMod
  <2> QED
    BY <1>5, <1>10, <2>1 DEF Read
<1>12. \A ct \in Threads : Thread(ct)'
  <2> SUFFICES ASSUME NEW ct \in Threads
               PROVE  Thread(ct)'
    OBVIOUS
  <2>1. next'[ct] = ct + 0 * ctp_threads /\ 0 \in 0 .. 2 * Rounds' /\ Turn(0)' = 0
    BY <1>1, <1>4, <1>5 DEF Threads, Turn
  <2>2. Len(holding'[ct]) = 0
    BY <1>4 DEF Called, Nothing
  <2> QED
    BY <2>1, <2>2 DEF Thread
<1>13. DOMAIN page'["f0"] = {j \in Positions' : Taken(j % Tpages)'} /\ IsInjective(page'["f0"])
  <2>1. \A j \in Positions : j % Tpages \in Nat
    BY <1>1, PositionOf
  <2>2. DOMAIN page'["f0"] = {}
    BY <1>7 DEF noPages
  <2> QED
    BY <1>5, <1>10, <2>1, <2>2 DEF IsInjective
<1>14. List("f1")'
  BY <1>5, <1>6, <1>7, <1>8 DEF List
<1>15. Stacked' /\ Replaced'
  <2>1. holding' = Nothing' /\ holding' \in [Threads -> Seq(Read')]
    BY <1>4 DEF Called, Nothing
  <2>2. \A ct \in Threads : DOMAIN holding'[ct] = {}
    BY <1>4 DEF Called, Nothing
  <2>3. IdsOf("f1")' \cap Positions = {}
    BY <1>6, <1>8
  <2> QED
    BY <1>5, <1>8, <1>9, <1>11, <2>1, <2>2, <2>3 DEF Stacked, Replaced
<1>16. Filling'
  BY <1>4, <1>5, <1>7, <1>10, <1>12, <1>13, <1>14, <1>15 DEF Filling, Called
<1>17. Tg2Shape'
  BY <1>4, <1>7 DEF Tg2Shape
<1> QED
  BY <1>16, <1>17

-----------------------------------------------------------------------------
(* The tasks of a thread. *)

\* Where a thread is in its turns.
LEMMA ThreadTask ==
    ASSUME ThreadBits, Tg2Shape, NEW ct \in Threads, NEW j \in 0 .. 2 * Rounds,
           NEW task \in Nat, task = ct + j * ctp_threads
    PROVE  /\ task % ctp_threads = ct
           /\ task < Tpages => j < 2 * Rounds
           /\ task < Tpages \div 2 <=> j < Rounds
           /\ task >= Tpages => j = 2 * Rounds
<1>1. PICK d \in Nat \ {0}, r \in Nat \ {0}, h \in Nat \ {0}, m \in Nat :
          /\ ctp_threads = d /\ Rounds = r /\ h = r * d /\ Tpages = 2 * h
  BY Numbers
<1>2. ct \in 0 .. d - 1 /\ j \in 0 .. 2 * r
  BY <1>1 DEF Threads
<1>3. task = d * j + ct /\ d * j \in Nat
  <2>1. j * d = d * j /\ d * j \in Nat
    BY <1>2
  <2> QED
    BY <1>1, <1>2, <2>1
<1>4. task % d = ct
  BY <1>2, <1>3, DivUnique
<1>5. d * (2 * r) = 2 * h /\ d * r = h
  <2>1. d * (2 * r) = 2 * (r * d) /\ d * r = r * d
    OBVIOUS
  <2> QED
    BY <1>1, <2>1
<1>6. ASSUME task < 2 * h
      PROVE  j < 2 * r
  <2>1. d * j + ct < d * (2 * r)
    BY <1>3, <1>5, <1>6
  <2>2. j \in Nat /\ ct \in Nat /\ 2 * r \in Nat
    BY <1>2
  <2> QED
    BY <2>1, <2>2, QuotientBelow
<1>7. ASSUME task < h
      PROVE  j < r
  <2>1. d * j + ct < d * r
    BY <1>3, <1>5, <1>7
  <2>2. j \in Nat /\ ct \in Nat
    BY <1>2
  <2> QED
    BY <2>1, <2>2, QuotientBelow
<1>8. ASSUME j < r
      PROVE  task < h
  <2>1. d * j <= d * (r - 1) /\ d * (r - 1) = d * r - d
    BY <1>2, <1>8, ProductMonotone
  <2> QED
    BY <1>2, <1>3, <1>5, <2>1
<1>9. ASSUME task >= 2 * h
      PROVE  j = 2 * r
  <2>1. d * (j + 1) = d * j + d
    BY <1>2
  <2>2. d * (2 * r) + 0 < d * (j + 1)
    BY <1>2, <1>3, <1>5, <1>9, <2>1
  <2>3. 2 * r \in Nat /\ j + 1 \in Nat /\ 0 \in Nat
    BY <1>2
  <2>4. 2 * r < j + 1
    BY <2>2, <2>3, QuotientBelow
  <2> QED
    BY <1>2, <2>4
<1>10. Tpages \div 2 = h
  BY <1>1
<1> QED
  BY <1>1, <1>4, <1>6, <1>7, <1>8, <1>9, <1>10

\* A step takes the one task.
LEMMA OneTaken ==
    ASSUME ThreadBits, Tg2Shape, next \in [Threads -> Nat],
           NEW ct \in Threads, Thread(ct), NEW task \in Nat, task = next[ct],
           NEW n, n = [next EXCEPT ![ct] = @ + ctp_threads], NEW t \in Nat
    PROVE  /\ ~Taken(task)
           /\ t < n[t % ctp_threads] <=> Taken(t) \/ t = task
<1>1. PICK d \in Nat \ {0} : ctp_threads = d
  BY Numbers
<1>2. PICK j \in 0 .. 2 * Rounds : task = ct + j * ctp_threads
  BY DEF Thread
<1>3. task % d = ct /\ j \in Nat /\ ct \in 0 .. d - 1 /\ task = d * j + ct /\ d * j \in Nat
  <2>1. task % d = ct
    BY <1>1, <1>2, ThreadTask
  <2>2. j \in Nat /\ ct \in 0 .. d - 1
    BY <1>1 DEF Threads
  <2>3. j * d = d * j /\ d * j \in Nat
    BY <2>2
  <2> QED
    BY <1>1, <1>2, <2>1, <2>2, <2>3
<1>4. PICK q \in Nat, s \in Nat : s = t % d /\ s < d /\ t = d * q + s
  BY Divided
<1>5. s \in Threads
  BY <1>1, <1>4 DEF Threads
<1>6. Taken(t) <=> t < next[s]
  BY <1>1, <1>4 DEF Taken
<1>7. CASE s # ct
  <2>1. n[s] = next[s]
    BY <1>5, <1>7
  <2>2. t # task
    BY <1>3, <1>4, <1>7
  <2>3. ~Taken(task)
    <3>1. task % ctp_threads = ct /\ ~(task < task)
      BY <1>1, <1>3
    <3> QED
      BY <3>1 DEF Taken
  <2> QED
    BY <1>1, <1>4, <1>6, <2>1, <2>2, <2>3
<1>8. CASE s = ct
  <2>1. n[s] = task + d /\ next[s] = task
    BY <1>1, <1>5, <1>8
  <2>2. PICK a \in Nat : a = d * q /\ t = a + ct
    BY <1>4, <1>8
  <2>3. PICK c \in Nat : c = d * j /\ task = c + ct
    BY <1>3
  <2>4. ASSUME t < task + d
        PROVE  t < task \/ t = task
    <3>1. d * (j + 1) = c + d
      BY <1>3, <2>3
    <3>2. a < c + d
      BY <1>3, <2>2, <2>3, <2>4
    <3>3. d * q + 0 < d * (j + 1)
      BY <2>2, <3>1, <3>2
    <3>4. 0 \in Nat /\ j + 1 \in Nat
      BY <1>3
    <3>5. q < j + 1
      BY <3>3, <3>4, QuotientBelow
    <3>6. d * q <= d * j
      BY <1>3, <3>5, ProductMonotone
    <3> QED
      BY <1>3, <2>2, <2>3, <3>6
  <2>5. t < task + d <=> t < task \/ t = task
    BY <1>3, <2>4
  <2>6. ~Taken(task)
    BY <1>1, <1>3, <1>8, <2>1 DEF Taken
  <2> QED
    BY <1>1, <1>4, <1>6, <2>1, <2>5, <2>6
<1> QED
  BY <1>7, <1>8

\* At the end of the stage every task has been taken, and the stacks are empty.
LEMMA AllTaken ==
    ASSUME ThreadBits, Tg2Shape, next \in [Threads -> Nat],
           \A ct \in Threads : Thread(ct) /\ next[ct] >= Tpages
    PROVE  /\ \A t \in 0 .. Tpages - 1 : Taken(t)
           /\ \A ct \in Threads : PP # 1 => Len(holding[ct]) = 0
<1>1. PICK d \in Nat \ {0}, r \in Nat \ {0}, h \in Nat \ {0} :
          ctp_threads = d /\ Rounds = r /\ Tpages = 2 * h
  BY Numbers
<1>2. ASSUME NEW t \in 0 .. Tpages - 1
      PROVE  Taken(t)
  <2>1. t \in Nat /\ t < 2 * h
    BY <1>1
  <2>2. t % d \in 0 .. d - 1
    BY <2>1, DivMod
  <2>3. t % d \in Threads
    BY <1>1, <2>2 DEF Threads
  <2>4. next[t % d] >= 2 * h /\ next[t % d] \in Nat
    BY <1>1, <2>3
  <2> QED
    BY <1>1, <2>1, <2>4 DEF Taken
<1>3. ASSUME NEW ct \in Threads, PP # 1
      PROVE  Len(holding[ct]) = 0
  <2>1. PICK j \in 0 .. 2 * Rounds : next[ct] = ct + j * ctp_threads /\ Len(holding[ct]) = Turn(j)
    BY <1>3 DEF Thread
  <2>2. PICK task \in Nat : task = next[ct]
    OBVIOUS
  <2>3. j = 2 * Rounds
    BY <2>1, <2>2, ThreadTask
  <2>4. Turn(2 * r) = 0
    BY <1>1 DEF Turn
  <2> QED
    BY <1>1, <2>1, <2>3, <2>4
<1> QED
  BY <1>2, <1>3

-----------------------------------------------------------------------------
(* The pages of p that a task pushes. *)

LEMMA FullBlocks ==
    ASSUME ThreadBits, Tg2Shape, NEW task \in 0 .. Tpages - 1
    PROVE  \E m \in Nat, n \in Nat :
              /\ PP = 2 * m + 1 /\ Full(task) = 0 .. n - 1
              /\ n = IF task < Tpages \div 2 THEN m + 1 ELSE m
              /\ Cardinality(Full(task)) = n
<1>1. PICK h \in Nat \ {0}, m \in Nat :
          PP = 2 * m + 1 /\ Tpages = 2 * h /\ Pages \div 2 = m * (2 * h) + h
  BY Numbers
<1>2. PICK n \in Nat : n = IF task < h THEN m + 1 ELSE m
  OBVIOUS
<1>3. PICK w \in Nat : w = 2 * h /\ Tpages = w /\ Pages \div 2 = m * w + h
  BY <1>1
<1>4. ASSUME NEW i \in 0 .. PP - 1
      PROVE  task + i * w < m * w + h <=> i < n
  <2>0. i \in Nat /\ task \in Nat /\ task < w
    BY <1>1, <1>3
  <2>1. CASE i < m
    <3>1. w * i <= w * (m - 1) /\ w * (m - 1) = w * m - w
      BY <2>0, <2>1, ProductMonotone
    <3>2. i * w = w * i /\ m * w = w * m /\ w * i \in Nat /\ w * m \in Nat
      BY <2>0
    <3> QED
      BY <1>2, <2>0, <2>1, <3>1, <3>2
  <2>2. CASE i = m
    <3>1. i * w = m * w /\ m * w \in Nat
      BY <2>2
    <3> QED
      BY <1>2, <2>0, <2>2, <3>1
  <2>3. CASE i > m
    <3>1. w * (m + 1) <= w * i /\ w * (m + 1) = w * m + w
      BY <2>0, <2>3, ProductMonotone
    <3>2. i * w = w * i /\ m * w = w * m /\ w * i \in Nat /\ w * m \in Nat
      BY <2>0
    <3>3. h < w /\ task + w * i >= w * m + h
      BY <1>3, <2>0, <3>1, <3>2
    <3> QED
      BY <1>2, <2>0, <2>3, <3>2, <3>3
  <2> QED
    BY <2>0, <2>1, <2>2, <2>3
<1>5. n <= PP
  BY <1>1, <1>2
<1>6. Full(task) = {i \in 0 .. PP - 1 : task + i * w < m * w + h}
  BY <1>3 DEF Full
<1>7. Full(task) = 0 .. n - 1
  <2>1. \A i \in 0 .. PP - 1 : i \in 0 .. n - 1 <=> i < n
    BY <1>1
  <2>2. \A i \in 0 .. n - 1 : i \in 0 .. PP - 1
    BY <1>1, <1>5
  <2> QED
    BY <1>4, <1>6, <2>1, <2>2
<1>8. Cardinality(0 .. n - 1) = n
  <2>1. 0 \in Int /\ n - 1 \in Int
    OBVIOUS
  <2> QED
    BY <2>1, FS_Interval
<1>9. Tpages \div 2 = h
  BY <1>1
<1> QED
  BY <1>1, <1>2, <1>7, <1>8, <1>9

LEMMA PushedPages ==
    ASSUME ThreadBits, Tg2Shape, page["p"] = [i \in Positions |-> i],
           NEW task \in 0 .. Tpages - 1
    PROVE  \E m \in Nat, n \in Nat :
              /\ PP = 2 * m + 1 /\ n = IF task < Tpages \div 2 THEN m + 1 ELSE m
              /\ DOMAIN Pushed(task) = 1 .. 2 * n
              /\ Pushed(task) = [k \in 1 .. 2 * n |-> Pushed(task)[k]]
              /\ IsInjective(Pushed(task))
              /\ \A k \in 1 .. 2 * n : /\ Pushed(task)[k] \in Positions
                                       /\ TaskOf(Pushed(task)[k]) = task
<1>1. PICK m \in Nat, n \in Nat :
              /\ PP = 2 * m + 1 /\ Full(task) = 0 .. n - 1
              /\ n = IF task < Tpages \div 2 THEN m + 1 ELSE m
              /\ Cardinality(Full(task)) = n
  BY FullBlocks
<1>2. PICK h \in Nat \ {0}, mm \in Nat :
          /\ PP = 2 * mm + 1 /\ Tpages = 2 * h /\ Pages \div 2 = mm * (2 * h) + h
          /\ Pages = (2 * mm + 1) * (2 * h)
  BY Numbers
<1>3. PICK half \in Nat : half = Pages \div 2 /\ Pages = 2 * half
  <2>1. mm * (2 * h) + h \in Nat /\ (2 * mm + 1) * (2 * h) = 2 * (mm * (2 * h) + h)
    OBVIOUS
  <2> QED
    BY <1>2, <2>1
<1> DEFINE Id(k) == page["p"][2 * (task + ((k - 1) \div 2) * Tpages) + ((k - 1) % 2)]
<1>4. Pushed(task) = [k \in 1 .. 2 * n |-> Id(k)]
  BY <1>1 DEF Pushed
<1>5. ASSUME NEW k \in 1 .. 2 * n
      PROVE  \E q \in Full(task), s \in {0, 1} :
                /\ k = 2 * q + s + 1
                /\ task + q * Tpages \in Nat
                /\ Id(k) = 2 * (task + q * Tpages) + s
                /\ Id(k) \in Positions
                /\ Id(k) \div 2 = task + q * Tpages /\ Id(k) % 2 = s
                /\ (task + q * Tpages) % Tpages = task /\ (task + q * Tpages) \div Tpages = q
  <2>1. k - 1 \in Nat
    OBVIOUS
  <2>2. PICK q \in Nat, s \in Nat : q = (k - 1) \div 2 /\ s = (k - 1) % 2 /\ s < 2 /\ k - 1 = 2 * q + s
    BY <2>1, Divided
  <2>3. q \in 0 .. n - 1 /\ s \in {0, 1}
    BY <2>2
  <2>4. q \in Full(task) /\ q \in 0 .. PP - 1
    BY <1>1, <2>3 DEF Full
  <2>5. /\ task + q * Tpages \in Positions
        /\ (task + q * Tpages) % Tpages = task /\ (task + q * Tpages) \div Tpages = q
    BY <2>4, PositionOf
  <2>6. PICK x \in Nat : x = task + q * Tpages /\ x < half
    BY <1>3, <2>4, <2>5 DEF Positions, Full
  <2>7. 2 * x + s \in Positions
    BY <1>3, <2>3, <2>6 DEF Positions
  <2>8. (2 * x + s) \div 2 = x /\ (2 * x + s) % 2 = s
    <3>1. 2 * x + s \in Int /\ 2 \in Nat
      OBVIOUS
    <3> QED
      BY <2>2, <3>1, DivUnique
  <2>9. Id(k) = 2 * x + s
    BY <2>2, <2>6, <2>7
  <2> QED
    BY <2>2, <2>3, <2>4, <2>5, <2>6, <2>7, <2>8, <2>9
<1> HIDE DEF Id
<1>6. IsInjective(Pushed(task))
  <2> SUFFICES ASSUME NEW k \in 1 .. 2 * n, NEW l \in 1 .. 2 * n, Id(k) = Id(l)
               PROVE  k = l
    BY <1>4 DEF IsInjective
  <2>1. PICK q \in Full(task), s \in {0, 1} :
           /\ k = 2 * q + s + 1
           /\ Id(k) \div 2 = task + q * Tpages /\ Id(k) % 2 = s
           /\ (task + q * Tpages) \div Tpages = q
    BY <1>5
  <2>2. PICK u \in Full(task), v \in {0, 1} :
           /\ l = 2 * u + v + 1
           /\ Id(l) \div 2 = task + u * Tpages /\ Id(l) % 2 = v
           /\ (task + u * Tpages) \div Tpages = u
    BY <1>5
  <2>3. s = v /\ q = u
    BY <2>1, <2>2
  <2> QED
    BY <2>1, <2>2, <2>3
<1>7. \A k \in 1 .. 2 * n : /\ Pushed(task)[k] \in Positions /\ TaskOf(Pushed(task)[k]) = task
  BY <1>4, <1>5 DEF TaskOf
<1>8. DOMAIN Pushed(task) = 1 .. 2 * n /\ Pushed(task) = [k \in 1 .. 2 * n |-> Pushed(task)[k]]
  BY <1>4
<1> QED
  BY <1>1, <1>6, <1>7, <1>8

-----------------------------------------------------------------------------
(* One task of the odd part. *)

\* The places of a task.
LEMMA Places ==
    ASSUME ThreadBits, Tg2Shape, NEW task \in 0 .. Tpages - 1
    PROVE  {task + i * Tpages : i \in 0 .. PP - 1} = {j \in Positions : j % Tpages = task}
<1>1. \A i \in 0 .. PP - 1 : /\ task + i * Tpages \in Positions
                             /\ (task + i * Tpages) % Tpages = task
  BY PositionOf
<1>2. \A j \in Positions : /\ j \div Tpages \in 0 .. PP - 1
                           /\ j = (j % Tpages) + (j \div Tpages) * Tpages
  BY PositionOf
<1> QED
  BY <1>1, <1>2

\* A task puts its chunks in its places, the blocks transposed.  The list then
\* has every chunk once if the new ones are not among those it keeps.
LEMMA PlacedOnce ==
    ASSUME ThreadBits, Tg2Shape, NEW task \in 0 .. Tpages - 1,
           NEW list, DOMAIN list \subseteq Positions, IsInjective(list), NEW ck,
           DOMAIN ck = 0 .. PP - 1, IsInjective(ck),
           \A i \in 0 .. PP - 1, j \in DOMAIN list : j % Tpages # task => ck[i] # list[j],
           NEW L, L = PlaceAt(list, task, ck)
    PROVE  IsInjective(L)
<1>0. L = [j \in DOMAIN list \cup {j \in Positions : j % Tpages = task} |->
              IF j % Tpages = task THEN ck[SourceOf(j \div Tpages)] ELSE list[j]]
  <2>1. {task + i * Tpages : i \in 0 .. PP - 1} = {j \in Positions : j % Tpages = task}
    BY Places
  <2> QED
    BY <2>1 DEF PlaceAt, SourceOf
<1>1. DOMAIN L = DOMAIN list \cup {j \in Positions : j % Tpages = task}
  BY <1>0
<1>2. \A j \in DOMAIN L : L[j] = IF j % Tpages = task THEN ck[SourceOf(j \div Tpages)] ELSE list[j]
  BY <1>0
<1>3. \A j \in DOMAIN L : j \in Positions
  BY <1>1
<1>4. \A j \in Positions : /\ j \div Tpages \in 0 .. PP - 1
                           /\ j = (j % Tpages) + (j \div Tpages) * Tpages
                           /\ SourceOf(j \div Tpages) \in 0 .. PP - 1
                           /\ Transposed(SourceOf(j \div Tpages), group) = j \div Tpages
  BY PositionOf, Transposition
<1>5. ASSUME NEW i \in DOMAIN L, NEW j \in DOMAIN L, L[i] = L[j]
      PROVE  i = j
  <2>1. CASE i % Tpages = task /\ j % Tpages = task
    <3>1. ck[SourceOf(i \div Tpages)] = ck[SourceOf(j \div Tpages)]
      BY <1>2, <1>5, <2>1
    <3>2. SourceOf(i \div Tpages) = SourceOf(j \div Tpages)
      BY <1>3, <1>4, <3>1 DEF IsInjective
    <3>3. i \div Tpages = j \div Tpages
      BY <1>3, <1>4, <3>2
    <3> QED
      BY <1>3, <1>4, <2>1, <3>3
  <2>2. CASE i % Tpages # task /\ j % Tpages # task
    BY <1>1, <1>2, <1>5, <2>2 DEF IsInjective
  <2>3. CASE i % Tpages = task /\ j % Tpages # task
    BY <1>1, <1>2, <1>3, <1>4, <1>5, <2>3
  <2>4. CASE i % Tpages # task /\ j % Tpages = task
    BY <1>1, <1>2, <1>3, <1>4, <1>5, <2>4
  <2> QED
    BY <2>1, <2>2, <2>3, <2>4
<1> QED
  BY <1>5 DEF IsInjective

\* The last c of a stack popped.
LEMMA Popping ==
    ASSUME NEW A, NEW Y \in Seq(A), IsInjective(Y), NEW c \in Nat, Len(Y) >= c,
           NEW R, R = SubSeq(Y, 1, Len(Y) - c)
    PROVE  /\ R \in Seq(A) /\ Len(R) = Len(Y) - c
           /\ \A x \in 1 .. Len(Y) - c : R[x] = Y[x]
           /\ \A i \in 0 .. c - 1 : \E x \in DOMAIN Y : x \notin 1 .. Len(Y) - c /\ Popped(Y, i) = Y[x]
           /\ \A i, j \in 0 .. c - 1 : Popped(Y, i) = Popped(Y, j) => i = j
<1>1. PICK n \in Nat : n = Len(Y) /\ DOMAIN Y = 1 .. n /\ n >= c
  OBVIOUS
<1>2. n - c \in 0 .. n /\ n - c \in Nat
  BY <1>1
<1>3. R \in Seq(A) /\ Len(R) = n - c /\ \A x \in 1 .. n - c : R[x] = Y[x]
  <2>1. R = SubSeq(Y, 1, n - c)
    BY <1>1
  <2>2. R = [i \in 1 .. n - c |-> Y[1 + i - 1]]
    BY <1>1, <1>2, <2>1
  <2>3. \A i \in 1 .. n - c : 1 + i - 1 = i /\ i \in 1 .. n /\ Y[i] \in A
    BY <1>1
  <2>4. R = [i \in 1 .. n - c |-> Y[i]]
    BY <2>2, <2>3
  <2> QED
    BY <1>2, <2>3, <2>4
<1>5. \A i \in 0 .. c - 1 : /\ n - i \in 1 .. n /\ n - i \notin 1 .. n - c
                            /\ Popped(Y, i) = Y[n - i]
  BY <1>1 DEF Popped
<1>6. ASSUME NEW i \in 0 .. c - 1, NEW j \in 0 .. c - 1, Popped(Y, i) = Popped(Y, j)
      PROVE  i = j
  <2>1. n - i = n - j
    BY <1>1, <1>5, <1>6 DEF IsInjective
  <2> QED
    BY <1>1, <2>1
<1>7. \A x \in 1 .. Len(Y) - c : R[x] = Y[x]
  BY <1>1, <1>3
<1>8. \A i \in 0 .. c - 1 : \E x \in DOMAIN Y : x \notin 1 .. Len(Y) - c /\ Popped(Y, i) = Y[x]
  BY <1>1, <1>5
<1> QED
  BY <1>1, <1>3, <1>6, <1>7, <1>8

StackOf(ct) == holding[ct] \o Pushed(next[ct])
Even(ct) == IF PP = 1 THEN Fresh(1) ELSE [i \in 0 .. PP - 1 |-> Popped(StackOf(ct), i)]
OddOf(ct) == [i \in 0 .. PP - 1 |-> page["f1"][next[ct] + i * Tpages]]
Sources(ct) == IF PP = 1 /\ Full(next[ct]) # {}
               THEN {page["p"][2 * next[ct]], page["p"][2 * next[ct] + 1]} ELSE {}

LEMMA TaskEffects ==
    ASSUME NEW ct \in Threads, Tg2OddTask(ct), next[ct] \in Nat, Tpages \in Nat
    PROVE  /\ next[ct] < Tpages
           /\ next' = [next EXCEPT ![ct] = @ + ctp_threads]
           /\ group' = group /\ input' = input /\ stages' = stages
           /\ page' = [page EXCEPT !["f0"] = PlaceAt(@, next[ct], Even(ct)),
                                   !["f1"] = PlaceAt(@, next[ct], OddOf(ct))]
           /\ holding' = IF PP = 1 THEN holding
                         ELSE [holding EXCEPT ![ct] =
                                 SubSeq(StackOf(ct), 1, Len(StackOf(ct)) - PP)]
           /\ DOMAIN data' = (DOMAIN data \cup ({Even(ct)[i] : i \in 0 .. PP - 1}
                                               \cup {OddOf(ct)[i] : i \in 0 .. PP - 1}))
                             \ Sources(ct)
<1>1. At({"tg2Odd"}) /\ TakeTask(ct)
  BY DEF Tg2OddTask
<1>2. Tasks = Tpages
  BY <1>1 DEF Tasks, At
<1>3. /\ next[ct] < Tpages /\ next' = [next EXCEPT ![ct] = @ + ctp_threads]
      /\ group' = group /\ input' = input /\ stages' = stages
  BY <1>1, <1>2 DEF TakeTask
<1>4. page' = [page EXCEPT !["f0"] = PlaceAt(@, next[ct], Even(ct)),
                           !["f1"] = PlaceAt(@, next[ct], OddOf(ct))]
  BY DEF Tg2OddTask, Even, OddOf, StackOf
<1>5. holding' = IF PP = 1 THEN holding
                 ELSE [holding EXCEPT ![ct] = SubSeq(StackOf(ct), 1, Len(StackOf(ct)) - PP)]
  BY DEF Tg2OddTask, StackOf
<1>6. DOMAIN data' = (DOMAIN data \cup ({Even(ct)[i] : i \in 0 .. PP - 1}
                                         \cup {OddOf(ct)[i] : i \in 0 .. PP - 1}))
                     \ (IF PP = 1 /\ Full(next[ct]) # {}
                        THEN {page["p"][2 * (next[ct] + 0 * Tpages) + 0],
                              page["p"][2 * (next[ct] + 0 * Tpages) + 1]} ELSE {})
  BY DEF Tg2OddTask, Even, OddOf, StackOf, Write, Drop
<1>7. PP = 1 => 2 * (next[ct] + 0 * Tpages) + 0 = 2 * next[ct]
                /\ 2 * (next[ct] + 0 * Tpages) + 1 = 2 * next[ct] + 1
  OBVIOUS
<1>8. Sources(ct) = (IF PP = 1 /\ Full(next[ct]) # {}
                     THEN {page["p"][2 * (next[ct] + 0 * Tpages) + 0],
                           page["p"][2 * (next[ct] + 0 * Tpages) + 1]} ELSE {})
  BY <1>7 DEF Sources
<1> QED
  BY <1>3, <1>4, <1>5, <1>6, <1>8

LEMMA TaskTaken ==
    ASSUME ThreadBits, Tg2Shape, Filling, NEW ct \in Threads, Tg2OddTask(ct)
    PROVE  /\ next[ct] \in 0 .. Tpages - 1 /\ ~Taken(next[ct])
           /\ next' \in [Threads -> Nat]
           /\ next' = [next EXCEPT ![ct] = @ + ctp_threads]
           /\ group' = group /\ input' = input /\ stages' = stages
           /\ \A t \in Nat : Taken(t)' <=> Taken(t) \/ t = next[ct]
<1>1. next \in [Threads -> Nat] /\ Thread(ct)
  BY DEF Filling
<1>2. Tpages \in Nat /\ ctp_threads \in Nat
  <2>1. PICK h \in Nat : Tpages = 2 * h
    BY Numbers
  <2>2. 2 * h \in Nat
    OBVIOUS
  <2> QED
    BY <2>1, <2>2, ThreadsAssumption
<1>3. /\ next[ct] \in Nat /\ next[ct] < Tpages
      /\ next' = [next EXCEPT ![ct] = @ + ctp_threads]
      /\ group' = group /\ input' = input /\ stages' = stages
  <2>1. next[ct] \in Nat
    BY <1>1
  <2> QED
    BY <1>2, <2>1, TaskEffects
<1>4. next' \in [Threads -> Nat]
  BY <1>1, <1>2, <1>3
<1>5. ASSUME NEW task \in Nat, task = next[ct], NEW t \in Nat
      PROVE  ~Taken(task) /\ (t < next'[t % ctp_threads] <=> Taken(t) \/ t = task)
  BY <1>1, <1>3, <1>5, OneTaken
<1>6. ~Taken(next[ct]) /\ \A t \in Nat : Taken(t)' <=> Taken(t) \/ t = next[ct]
  BY <1>3, <1>5 DEF Taken
<1> QED
  BY <1>2, <1>3, <1>4, <1>6

ListOf(f, ct) == IF f = "f0" THEN Even(ct) ELSE OddOf(ct)

\* The lists after a task.
LEMMA HalvesPlaced ==
    ASSUME ThreadBits, Tg2Shape, Filling, NEW ct \in Threads, Tg2OddTask(ct),
           NEW f \in {"f0", "f1"}
    PROVE  /\ DOMAIN page[f] \subseteq Positions /\ IsInjective(page[f])
           /\ page'[f] = PlaceAt(page[f], next[ct], ListOf(f, ct))
           /\ DOMAIN page'[f] = DOMAIN page[f] \cup {j \in Positions : j % Tpages = next[ct]}
           /\ \A j \in DOMAIN page'[f] :
                page'[f][j] = IF j % Tpages = next[ct] THEN ListOf(f, ct)[SourceOf(j \div Tpages)]
                                                       ELSE page[f][j]
<1>1. next[ct] \in 0 .. Tpages - 1
  BY TaskTaken
<1>2. DOMAIN page[f] \subseteq Positions /\ IsInjective(page[f])
  BY DEF Filling, List
<1>3. page'[f] = PlaceAt(page[f], next[ct], ListOf(f, ct))
  <2>1. Tpages \in Nat /\ next[ct] \in Nat
    <3>1. PICK h \in Nat : Tpages = 2 * h
      BY Numbers
    <3>2. 2 * h \in Nat
      OBVIOUS
    <3> QED
      BY <1>1, <3>1, <3>2
  <2>2. page' = [page EXCEPT !["f0"] = PlaceAt(@, next[ct], Even(ct)),
                             !["f1"] = PlaceAt(@, next[ct], OddOf(ct))]
    BY <2>1, TaskEffects
  <2> QED
    BY <2>2 DEF Tg2Shape, Polys, ListOf
<1>4. page'[f] = [j \in DOMAIN page[f] \cup {j \in Positions : j % Tpages = next[ct]} |->
                    IF j % Tpages = next[ct] THEN ListOf(f, ct)[SourceOf(j \div Tpages)]
                                             ELSE page[f][j]]
  <2>1. {next[ct] + i * Tpages : i \in 0 .. PP - 1} = {j \in Positions : j % Tpages = next[ct]}
    BY <1>1, Places
  <2> QED
    BY <1>3, <2>1 DEF PlaceAt, SourceOf
<1> QED
  BY <1>2, <1>3, <1>4

LEMMA HalvesOnce ==
    ASSUME ThreadBits, Tg2Shape, Filling, NEW ct \in Threads, Tg2OddTask(ct),
           NEW f \in {"f0", "f1"},
           DOMAIN ListOf(f, ct) = 0 .. PP - 1, IsInjective(ListOf(f, ct)),
           \A i \in 0 .. PP - 1, j \in DOMAIN page[f] :
              j % Tpages # next[ct] => ListOf(f, ct)[i] # page[f][j]
    PROVE  IsInjective(page'[f])
<1>1. /\ DOMAIN page[f] \subseteq Positions /\ IsInjective(page[f])
      /\ page'[f] = PlaceAt(page[f], next[ct], ListOf(f, ct))
  BY HalvesPlaced
<1>2. next[ct] \in 0 .. Tpages - 1
  BY TaskTaken
<1> QED
  BY <1>1, <1>2, PlacedOnce

LEMMA HalvesAre ==
    ASSUME ThreadBits, Tg2Shape, Filling, NEW ct \in Threads, Tg2OddTask(ct),
           NEW f \in {"f0", "f1"},
           NEW x
    PROVE  x \in IdsOf(f)' <=> \/ \E j \in DOMAIN page[f] : j % Tpages # next[ct] /\ page[f][j] = x
                               \/ \E i \in 0 .. PP - 1 : ListOf(f, ct)[i] = x
<1>1. DOMAIN page'[f] = DOMAIN page[f] \cup {j \in Positions : j % Tpages = next[ct]}
  BY HalvesPlaced
<1>2. \A j \in DOMAIN page'[f] :
        page'[f][j] = IF j % Tpages = next[ct] THEN ListOf(f, ct)[SourceOf(j \div Tpages)]
                                               ELSE page[f][j]
  BY HalvesPlaced
<1>3. DOMAIN page'[f] \subseteq Positions
  BY <1>1, HalvesPlaced
<1>4. \A j \in Positions : SourceOf(j \div Tpages) \in 0 .. PP - 1
  BY PositionOf, Transposition
<1>5. ASSUME NEW j \in DOMAIN page'[f]
      PROVE  \/ \E k \in DOMAIN page[f] : k % Tpages # next[ct] /\ page[f][k] = page'[f][j]
             \/ \E i \in 0 .. PP - 1 : ListOf(f, ct)[i] = page'[f][j]
  <2>1. CASE j % Tpages = next[ct]
    BY <1>2, <1>3, <1>4, <2>1
  <2>2. CASE j % Tpages # next[ct]
    BY <1>1, <1>2, <2>2
  <2> QED
    BY <2>1, <2>2
<1>6. ASSUME NEW i \in 0 .. PP - 1
      PROVE  \E j \in DOMAIN page'[f] : page'[f][j] = ListOf(f, ct)[i]
  <2>1. PICK k \in 0 .. PP - 1 : k = Transposed(i, group) /\ SourceOf(k) = i
    BY Transposition
  <2>2. next[ct] \in 0 .. Tpages - 1
    BY TaskTaken
  <2>3. PICK j \in Positions : j % Tpages = next[ct] /\ j \div Tpages = k
    BY <2>2, PositionOf
  <2> QED
    BY <1>1, <1>2, <2>1, <2>3
<1>7. \A j \in DOMAIN page[f] : j % Tpages # next[ct] => j \in DOMAIN page'[f] /\ page'[f][j] = page[f][j]
  BY <1>1, <1>2
<1>8. x \in IdsOf(f)' <=> \E j \in DOMAIN page'[f] : page'[f][j] = x
  BY DEF IdsOf
<1> QED
  BY <1>5, <1>6, <1>7, <1>8

\* What a task does to the lists, whatever chunks it takes for the even half.
LEMMA ListsFilled ==
    ASSUME ThreadBits, Tg2Shape, Filling, NEW ct \in Threads, Tg2OddTask(ct),
           DOMAIN Even(ct) = 0 .. PP - 1, IsInjective(Even(ct)),
           \A i \in 0 .. PP - 1 : Even(ct)[i] \notin IdsOf("f0")
    PROVE  /\ Tg2Shape'
           /\ stages' = After(1)' /\ page'["p"] = [i \in Positions' |-> i]
           /\ next' \in [Threads -> Nat]
           /\ List("f1")' /\ IdsOf("f1")' = IdsOf("f1")
           /\ {OddOf(ct)[i] : i \in 0 .. PP - 1} \subseteq IdsOf("f1")
           /\ DOMAIN page'["f0"] = {j \in Positions' : Taken(j % Tpages)'}
           /\ IsInjective(page'["f0"])
           /\ IdsOf("f0")' = IdsOf("f0") \cup {Even(ct)[i] : i \in 0 .. PP - 1}
           /\ Read' = Read \cup {x \in Positions : TaskOf(x) = next[ct]}
           /\ \A x \in Read : TaskOf(x) # next[ct]
<1>1. PICK h \in Nat \ {0}, m \in Nat, d \in Nat \ {0} :
          PP = 2 * m + 1 /\ Tpages = 2 * h /\ Pages \in Nat /\ ctp_threads = d
  BY Numbers
<1>2. PICK task \in Nat : task = next[ct]
  BY DEF Filling
<1>3. /\ next[ct] < Tpages
      /\ next' = [next EXCEPT ![ct] = @ + ctp_threads]
      /\ group' = group /\ input' = input /\ stages' = stages
      /\ page' = [page EXCEPT !["f0"] = PlaceAt(@, next[ct], Even(ct)),
                              !["f1"] = PlaceAt(@, next[ct], OddOf(ct))]
  <2>1. next[ct] \in Nat /\ Tpages \in Nat
    <3>1. 2 * h \in Nat
      OBVIOUS
    <3> QED
      BY <1>1, <1>2, <3>1
  <2> QED
    BY <2>1, TaskEffects
<1>4. task \in 0 .. Tpages - 1
  BY <1>1, <1>2, <1>3
<1>5. /\ PP' = PP /\ Pages' = Pages /\ Tpages' = Tpages /\ Positions' = Positions
      /\ After(1)' = After(1)
  BY <1>3, SameGroup
<1>6. /\ page' = [f \in Polys |-> page'[f]]
      /\ page'["p"] = page["p"]
      /\ page'["f0"] = PlaceAt(page["f0"], task, Even(ct))
      /\ page'["f1"] = PlaceAt(page["f1"], task, OddOf(ct))
  BY <1>2, <1>3 DEF Tg2Shape, Polys
<1>7. Tg2Shape'
  BY <1>3, <1>6 DEF Tg2Shape
<1>8. /\ next \in [Threads -> Nat] /\ Thread(ct)
      /\ DOMAIN page["f0"] = {j \in Positions : Taken(j % Tpages)} /\ IsInjective(page["f0"])
      /\ DOMAIN page["f1"] = Positions /\ IsInjective(page["f1"]) /\ IdsOf("f1") \subseteq Nat
      /\ page["p"] = [i \in Positions |-> i] /\ stages = After(1)
  BY DEF Filling, List
<1>9. \A t \in Nat : Taken(t)' <=> Taken(t) \/ t = task
  BY <1>2, TaskTaken
<1>10. ~Taken(task)
  BY <1>2, TaskTaken
<1>11. next' \in [Threads -> Nat]
  BY TaskTaken
<1>12. \A j \in Positions : j % Tpages \in Nat
  BY <1>1, PositionOf
<1>13. \A j \in DOMAIN page["f0"] : j % Tpages # task
  BY <1>8, <1>10
<1>14. /\ IsInjective(page'["f0"])
       /\ DOMAIN page'["f0"] = DOMAIN page["f0"] \cup {j \in Positions : j % Tpages = task}
  <2>1. \A i \in 0 .. PP - 1, j \in DOMAIN page["f0"] :
           j % Tpages # next[ct] => Even(ct)[i] # page["f0"][j]
    BY DEF IdsOf
  <2>2. ListOf("f0", ct) = Even(ct)
    BY DEF ListOf
  <2>3. IsInjective(page'["f0"])
    BY <2>1, <2>2, HalvesOnce
  <2>4. DOMAIN page'["f0"] = DOMAIN page["f0"] \cup {j \in Positions : j % Tpages = next[ct]}
    BY HalvesPlaced
  <2> QED
    BY <1>2, <2>3, <2>4
<1>15. IdsOf("f0")' = IdsOf("f0") \cup {Even(ct)[i] : i \in 0 .. PP - 1}
  <2> SUFFICES ASSUME NEW x
               PROVE  x \in IdsOf("f0")' <=> \/ x \in IdsOf("f0")
                                             \/ \E i \in 0 .. PP - 1 : Even(ct)[i] = x
    OBVIOUS
  <2>1. ListOf("f0", ct) = Even(ct)
    BY DEF ListOf
  <2>2. x \in IdsOf("f0")' <=> \/ \E j \in DOMAIN page["f0"] : j % Tpages # next[ct] /\ page["f0"][j] = x
                               \/ \E i \in 0 .. PP - 1 : Even(ct)[i] = x
    <3>1. x \in IdsOf("f0")' <=>
            \/ \E j \in DOMAIN page["f0"] : j % Tpages # next[ct] /\ page["f0"][j] = x
            \/ \E i \in 0 .. PP - 1 : ListOf("f0", ct)[i] = x
      BY HalvesAre
    <3> QED
      BY <2>1, <3>1
  <2>3. x \in IdsOf("f0") <=> \E j \in DOMAIN page["f0"] : page["f0"][j] = x
    BY DEF IdsOf
  <2> QED
    BY <1>2, <1>13, <2>2, <2>3
<1>16. DOMAIN page'["f0"] = {j \in Positions' : Taken(j % Tpages)'}
  BY <1>5, <1>8, <1>9, <1>12, <1>14
<1>17. \A i \in 0 .. PP - 1 : /\ task + i * Tpages \in Positions
                              /\ (task + i * Tpages) % Tpages = task
                              /\ (task + i * Tpages) \div Tpages = i
  BY <1>4, PositionOf
<1>18. /\ DOMAIN OddOf(ct) = 0 .. PP - 1
       /\ \A i \in 0 .. PP - 1 : OddOf(ct)[i] = page["f1"][task + i * Tpages]
  BY <1>2 DEF OddOf
<1>19. IsInjective(OddOf(ct))
  <2> SUFFICES ASSUME NEW i \in 0 .. PP - 1, NEW j \in 0 .. PP - 1, OddOf(ct)[i] = OddOf(ct)[j]
               PROVE  i = j
    BY <1>18 DEF IsInjective
  <2>1. task + i * Tpages = task + j * Tpages
    BY <1>8, <1>17, <1>18 DEF IsInjective
  <2> QED
    BY <1>17, <2>1
<1>20. \A i \in 0 .. PP - 1, j \in DOMAIN page["f1"] :
          j % Tpages # task => OddOf(ct)[i] # page["f1"][j]
  BY <1>8, <1>17, <1>18 DEF IsInjective
<1>21. /\ IsInjective(page'["f1"])
       /\ DOMAIN page'["f1"] = DOMAIN page["f1"] \cup {j \in Positions : j % Tpages = task}
  <2>1. \A i \in 0 .. PP - 1, j \in DOMAIN page["f1"] :
           j % Tpages # next[ct] => OddOf(ct)[i] # page["f1"][j]
    BY <1>2, <1>20
  <2>2. ListOf("f1", ct) = OddOf(ct)
    BY DEF ListOf
  <2>3. IsInjective(page'["f1"])
    BY <1>18, <1>19, <2>1, <2>2, HalvesOnce
  <2>4. DOMAIN page'["f1"] = DOMAIN page["f1"] \cup {j \in Positions : j % Tpages = next[ct]}
    BY HalvesPlaced
  <2> QED
    BY <1>2, <2>3, <2>4
<1>22. DOMAIN page'["f1"] = Positions'
  BY <1>5, <1>8, <1>21
<1>23. {OddOf(ct)[i] : i \in 0 .. PP - 1} \subseteq IdsOf("f1")
  BY <1>8, <1>17, <1>18 DEF IdsOf
<1>24. IdsOf("f1")' = IdsOf("f1")
  <2>1. ASSUME NEW j \in Positions, j % Tpages = task
        PROVE  page["f1"][j] \in {OddOf(ct)[i] : i \in 0 .. PP - 1}
    <3>1. j \div Tpages \in 0 .. PP - 1 /\ j = task + (j \div Tpages) * Tpages
      BY <2>1, PositionOf
    <3> QED
      BY <1>18, <3>1
  <2>2. IdsOf("f1") = {page["f1"][j] : j \in Positions}
    BY <1>8 DEF IdsOf
  <2>3. ASSUME NEW x
        PROVE  x \in IdsOf("f1")' <=> x \in IdsOf("f1")
    <3>1. ListOf("f1", ct) = OddOf(ct)
      BY DEF ListOf
    <3>2. x \in IdsOf("f1")' <=> \/ \E j \in DOMAIN page["f1"] : j % Tpages # next[ct] /\ page["f1"][j] = x
                                 \/ \E i \in 0 .. PP - 1 : OddOf(ct)[i] = x
      BY <3>1, HalvesAre
    <3>3. x \in IdsOf("f1") <=> \E j \in Positions : page["f1"][j] = x
      BY <2>2
    <3>4. (\E i \in 0 .. PP - 1 : OddOf(ct)[i] = x) => x \in IdsOf("f1")
      BY <1>23
    <3>5. \A j \in Positions : j % Tpages = task /\ page["f1"][j] = x =>
             \E i \in 0 .. PP - 1 : OddOf(ct)[i] = x
      BY <2>1
    <3> QED
      BY <1>2, <1>8, <3>2, <3>3, <3>4, <3>5
  <2> QED
    BY <2>3
<1>25. List("f1")'
  BY <1>8, <1>21, <1>22, <1>24 DEF List
<1>26. \A x \in Positions : TaskOf(x) \in Nat /\ TaskOf(x)' = TaskOf(x)
  <2> SUFFICES ASSUME NEW x \in Positions
               PROVE  TaskOf(x) \in Nat /\ TaskOf(x)' = TaskOf(x)
    OBVIOUS
  <2>1. x \in Nat
    BY <1>1 DEF Positions
  <2>2. x \div 2 \in Nat
    BY <2>1, DivMod
  <2>3. (x \div 2) % Tpages \in Nat
    BY <1>1, <2>2, DivMod
  <2> QED
    BY <1>5, <2>3 DEF TaskOf
<1>27. Read' = Read \cup {x \in Positions : TaskOf(x) = next[ct]}
  <2>1. Read' = {x \in Positions : Taken(TaskOf(x))'}
    BY <1>5 DEF Read
  <2>2. \A x \in Positions : Taken(TaskOf(x))' <=> Taken(TaskOf(x)) \/ TaskOf(x) = task
    <3> SUFFICES ASSUME NEW x \in Positions
                 PROVE  Taken(TaskOf(x))' <=> Taken(TaskOf(x)) \/ TaskOf(x) = task
      OBVIOUS
    <3>1. PICK t \in Nat : t = TaskOf(x) /\ t = TaskOf(x)'
      BY <1>26
    <3>2. t < next'[t % ctp_threads] <=> Taken(t) \/ t = task
      BY <1>9 DEF Taken
    <3> QED
      BY <3>1, <3>2 DEF Taken
  <2> QED
    BY <1>2, <2>1, <2>2 DEF Read
<1>28. \A x \in Read : TaskOf(x) # next[ct]
  BY <1>2, <1>10 DEF Read
<1> QED
  BY <1>3, <1>5, <1>6, <1>7, <1>8, <1>11, <1>14, <1>15, <1>16, <1>23, <1>24, <1>25, <1>27, <1>28

\* The threads go on with their turns.
LEMMA NextTurn ==
    ASSUME ThreadBits, Tg2Shape, Filling, NEW ct \in Threads, Tg2OddTask(ct),
           \A j \in 0 .. 2 * Rounds - 1 :
              PP # 1 /\ Len(holding[ct]) = Turn(j) /\ next[ct] = ct + j * ctp_threads
                => Len(holding'[ct]) = Turn(j + 1),
           \A d \in Threads : d # ct => holding'[d] = holding[d]
    PROVE  \A d \in Threads : Thread(d)'
<1>1. PICK h \in Nat \ {0}, r \in Nat \ {0}, e \in Nat \ {0} :
         Rounds = r /\ Tpages = 2 * h /\ ctp_threads = e
  BY Numbers
<1>2. next \in [Threads -> Nat] /\ (\A d \in Threads : Thread(d)) /\ next[ct] \in Nat
  BY DEF Filling
<1>3. next[ct] < Tpages /\ next' = [next EXCEPT ![ct] = @ + ctp_threads] /\ group' = group
  <2>1. next[ct] < Tpages
    <3>1. next[ct] \in 0 .. Tpages - 1
      BY TaskTaken
    <3>2. Tpages \in Nat
      BY <1>1
    <3> QED
      BY <3>1, <3>2
  <2> QED
    BY <2>1, TaskTaken
<1>4. PP' = PP /\ Rounds' = Rounds
  BY <1>3, SameGroup
<1>5. \A j : Turn(j)' = Turn(j)
  BY <1>4 DEF Turn
<1>6. ASSUME NEW d \in Threads, d # ct
      PROVE  Thread(d)'
  <2>1. next'[d] = next[d] /\ holding'[d] = holding[d]
    BY <1>2, <1>3, <1>6
  <2> QED
    BY <1>2, <1>4, <1>5, <2>1 DEF Thread
<1>7. Thread(ct)'
  <2>1. PICK j \in 0 .. 2 * Rounds : /\ next[ct] = ct + j * ctp_threads
                                     /\ PP # 1 => Len(holding[ct]) = Turn(j)
    BY <1>2 DEF Thread
  <2>2. j < 2 * Rounds
    BY <1>2, <1>3, <2>1, ThreadTask
  <2>3. j \in 0 .. 2 * Rounds - 1 /\ j + 1 \in 0 .. 2 * Rounds
    BY <1>1, <2>2
  <2>4. PP # 1 => Len(holding'[ct]) = Turn(j + 1)
    BY <2>1, <2>3
  <2>5. next'[ct] = ct + (j + 1) * ctp_threads
    <3>1. next'[ct] = next[ct] + e
      BY <1>1, <1>2, <1>3
    <3>2. ct \in Nat /\ j \in Nat
      BY <1>1 DEF Threads
    <3>3. (ct + j * e) + e = ct + (j + 1) * e
      BY <3>2
    <3> QED
      BY <1>1, <2>1, <3>1, <3>3
  <2>6. Turn(j + 1)' = Turn(j + 1)
    BY <1>5
  <2> QED
    BY <1>4, <2>3, <2>4, <2>5, <2>6 DEF Thread
<1> QED
  BY <1>6, <1>7

-----------------------------------------------------------------------------
(* More than one block: the chunks go through the stacks. *)

\* The pages of p that are read when thread ct has done its task.
ReadBy(ct) == Read \cup {x \in Positions : TaskOf(x) = next[ct]}

\* A thread that has read its task's pages has enough for the even half.
LEMMA StackFilled ==
    ASSUME ThreadBits, Tg2Shape, Filling, PP # 1, NEW ct \in Threads, Tg2OddTask(ct)
    PROVE  /\ StackOf(ct) \in Seq(ReadBy(ct)) /\ IsInjective(StackOf(ct))
           /\ \A x \in DOMAIN StackOf(ct) :
                \/ \E y \in DOMAIN holding[ct] : StackOf(ct)[x] = holding[ct][y]
                \/ StackOf(ct)[x] \notin Read
           /\ Len(StackOf(ct)) \in Nat /\ Len(StackOf(ct)) >= PP
           /\ \A j \in 0 .. 2 * Rounds - 1 :
                Len(holding[ct]) = Turn(j) /\ next[ct] = ct + j * ctp_threads
                  => Len(StackOf(ct)) - PP = Turn(j + 1)
<1>1. /\ page["p"] = [i \in Positions |-> i] /\ Thread(ct) /\ next \in [Threads -> Nat]
      /\ holding \in [Threads -> Seq(Read)]
      /\ \A i, j \in DOMAIN holding[ct] : holding[ct][i] = holding[ct][j] => i = j
  BY DEF Filling, Stacked
<1>2. next[ct] \in 0 .. Tpages - 1 /\ ~Taken(next[ct])
  BY TaskTaken
<1>3. PICK m \in Nat, n \in Nat :
              /\ PP = 2 * m + 1 /\ n = IF next[ct] < Tpages \div 2 THEN m + 1 ELSE m
              /\ DOMAIN Pushed(next[ct]) = 1 .. 2 * n
              /\ Pushed(next[ct]) = [k \in 1 .. 2 * n |-> Pushed(next[ct])[k]]
              /\ IsInjective(Pushed(next[ct]))
              /\ \A k \in 1 .. 2 * n : /\ Pushed(next[ct])[k] \in Positions
                                       /\ TaskOf(Pushed(next[ct])[k]) = next[ct]
  BY <1>1, <1>2, PushedPages
<1>4. PICK P : P = Pushed(next[ct])
  OBVIOUS
<1>5. PICK S : S = holding[ct]
  OBVIOUS
<1>6. S \in Seq(ReadBy(ct)) /\ IsInjective(S) /\ \A x \in DOMAIN S : S[x] \in Read
  <2>1. S \in Seq(Read)
    BY <1>1, <1>5
  <2>2. \A x \in DOMAIN S : S[x] \in Read
    BY <2>1
  <2>3. S \in Seq(ReadBy(ct))
    BY <2>1 DEF ReadBy
  <2> QED
    BY <1>1, <1>5, <2>2, <2>3 DEF IsInjective
<1>7. PICK k \in Nat : k = 2 * n
  OBVIOUS
<1>8. /\ P = [x \in 1 .. k |-> P[x]] /\ IsInjective(P)
      /\ \A x \in 1 .. k : P[x] \in ReadBy(ct) /\ P[x] \notin Read
  <2>1. P = [x \in 1 .. k |-> P[x]] /\ IsInjective(P)
    BY <1>3, <1>4, <1>7
  <2>2. \A x \in 1 .. k : P[x] \in Positions /\ TaskOf(P[x]) = next[ct]
    BY <1>3, <1>4, <1>7
  <2>3. \A x \in Read : TaskOf(x) # next[ct]
    BY <1>2 DEF Read
  <2> QED
    BY <2>1, <2>2, <2>3 DEF ReadBy
<1>9. PICK Y : Y = StackOf(ct)
  OBVIOUS
<1>10. Y = S \o P
  BY <1>4, <1>5, <1>9 DEF StackOf
<1>11. /\ Y \in Seq(ReadBy(ct)) /\ Len(Y) = Len(S) + k /\ IsInjective(Y)
       /\ \A x \in DOMAIN Y : \/ x \in DOMAIN S /\ Y[x] = S[x]
                              \/ \E y \in 1 .. k : Y[x] = P[y]
  <2>1. PICK A : A = ReadBy(ct)
    OBVIOUS
  <2>2. PICK l \in Nat : l = Len(S) /\ DOMAIN S = 1 .. l
    BY <1>6
  <2>3. S \in Seq(A) /\ P \in Seq(A) /\ Len(P) = k /\ DOMAIN P = 1 .. k
    <3>1. P \in [1 .. k -> A]
      BY <1>8, <2>1
    <3> QED
      BY <1>6, <2>1, <3>1
  <2>4. Y \in Seq(A) /\ Len(Y) = l + k
    BY <1>10, <2>2, <2>3, ConcatProperties
  <2>5. \A x \in 1 .. l + k : Y[x] = IF x <= l THEN S[x] ELSE P[x - l]
    BY <1>10, <2>2, <2>3, ConcatProperties
  <2>6. DOMAIN Y = 1 .. l + k
    BY <2>4
  <2>7. \A x \in 1 .. l, y \in 1 .. k : S[x] # P[y]
    BY <1>6, <1>8, <2>2
  <2>8. IsInjective(S) /\ IsInjective(P)
    BY <1>6, <1>8
  <2>9. \A x \in 1 .. l + k : (x <= l => x \in 1 .. l) /\ (~(x <= l) => x - l \in 1 .. k)
    BY <2>2
  <2>10. ASSUME NEW x \in 1 .. l + k, NEW y \in 1 .. l + k, Y[x] = Y[y]
         PROVE  x = y
    <3>1. CASE x <= l /\ y <= l
      BY <2>2, <2>5, <2>8, <2>9, <2>10, <3>1 DEF IsInjective
    <3>2. CASE ~(x <= l) /\ ~(y <= l)
      <4>1. x - l \in DOMAIN P /\ y - l \in DOMAIN P /\ P[x - l] = P[y - l]
        BY <2>3, <2>5, <2>9, <2>10, <3>2
      <4>2. x - l = y - l
        BY <2>8, <4>1 DEF IsInjective
      <4> QED
        BY <2>2, <4>2
    <3>3. CASE x <= l /\ ~(y <= l)
      BY <2>5, <2>7, <2>9, <2>10, <3>3
    <3>4. CASE ~(x <= l) /\ y <= l
      BY <2>5, <2>7, <2>9, <2>10, <3>4
    <3> QED
      BY <3>1, <3>2, <3>3, <3>4
  <2>11. IsInjective(Y)
    BY <2>6, <2>10 DEF IsInjective
  <2>12. \A x \in DOMAIN Y : \/ x \in DOMAIN S /\ Y[x] = S[x]
                             \/ \E y \in 1 .. k : Y[x] = P[y]
    BY <2>2, <2>5, <2>6, <2>9
  <2> QED
    BY <2>1, <2>2, <2>4, <2>11, <2>12
<1>12. \A x \in DOMAIN Y : (\E y \in DOMAIN S : Y[x] = S[y]) \/ Y[x] \notin Read
  BY <1>8, <1>11
<1>13. PICK r \in Nat : r = Rounds
  BY Numbers
<1>14. ASSUME NEW j \in 0 .. 2 * Rounds, Len(S) = Turn(j), next[ct] = ct + j * ctp_threads
       PROVE  Len(Y) - PP = Turn(j + 1) /\ j + 1 <= 2 * Rounds
  <2>1. next[ct] < Tpages \div 2 <=> j < Rounds
    BY <1>2, <1>14, ThreadTask
  <2>2. j < 2 * Rounds
    <3>1. PICK h \in Nat : Tpages = 2 * h
      BY Numbers
    <3>2. next[ct] < Tpages
      BY <1>2, <3>1
    <3> QED
      BY <1>2, <1>14, <3>2, ThreadTask
  <2>3. Len(Y) = Len(S) + 2 * n
    BY <1>7, <1>11
  <2>4. Turn(j) = (IF j <= r THEN j ELSE 2 * r - j)
        /\ Turn(j + 1) = (IF j + 1 <= r THEN j + 1 ELSE 2 * r - (j + 1))
    BY <1>13 DEF Turn
  <2>5. j \in 0 .. 2 * r /\ j < 2 * r /\ n = IF j < r THEN m + 1 ELSE m
    BY <1>3, <1>13, <2>1, <2>2
  <2> QED
    BY <1>3, <1>13, <1>14, <2>3, <2>4, <2>5
<1>15. Len(Y) \in Nat /\ Len(Y) >= PP
  <2>1. Len(Y) \in Nat
    BY <1>11
  <2>2. PICK j \in 0 .. 2 * Rounds : next[ct] = ct + j * ctp_threads /\ Len(S) = Turn(j)
    BY <1>1, <1>5 DEF Thread
  <2>3. Len(Y) - PP = Turn(j + 1) /\ j + 1 <= 2 * Rounds
    BY <1>14, <2>2
  <2>4. Turn(j + 1) >= 0
    BY <1>13, <2>3 DEF Turn
  <2> QED
    BY <1>3, <2>1, <2>3, <2>4
<1> QED
  BY <1>5, <1>9, <1>11, <1>12, <1>13, <1>14, <1>15

LEMMA StackPopped ==
    ASSUME ThreadBits, Tg2Shape, Filling, PP # 1, NEW ct \in Threads, Tg2OddTask(ct)
    PROVE  /\ DOMAIN Even(ct) = 0 .. PP - 1 /\ IsInjective(Even(ct))
           /\ \A i \in 0 .. PP - 1 : \E x \in DOMAIN StackOf(ct) :
                Even(ct)[i] = StackOf(ct)[x] /\ x \notin DOMAIN holding'[ct]
           /\ holding' = [holding EXCEPT ![ct] = holding'[ct]]
           /\ holding'[ct] \in Seq(ReadBy(ct)) /\ Len(holding'[ct]) = Len(StackOf(ct)) - PP
           /\ \A x \in DOMAIN holding'[ct] :
                x \in DOMAIN StackOf(ct) /\ holding'[ct][x] = StackOf(ct)[x]
<1>1. PICK Y : Y = StackOf(ct)
  OBVIOUS
<1>2. PICK A : A = ReadBy(ct)
  OBVIOUS
<1>3. Y \in Seq(A) /\ IsInjective(Y) /\ Len(Y) >= PP
  BY <1>1, <1>2, StackFilled
<1>4. PICK c \in Nat : c = PP
  <2>1. PICK m \in Nat : PP = 2 * m + 1
    BY Numbers
  <2>2. 2 * m + 1 \in Nat
    OBVIOUS
  <2> QED
    BY <2>1, <2>2
<1>5. holding' = [holding EXCEPT ![ct] = SubSeq(Y, 1, Len(Y) - c)]
  <2>1. next[ct] \in Nat /\ Tpages \in Nat
    <3>1. PICK h \in Nat : Tpages = 2 * h
      BY Numbers
    <3>2. 2 * h \in Nat
      OBVIOUS
    <3> QED
      BY <3>1, <3>2, TaskTaken
  <2>2. holding' = IF PP = 1 THEN holding
                   ELSE [holding EXCEPT ![ct] = SubSeq(StackOf(ct), 1, Len(StackOf(ct)) - PP)]
    BY <2>1, TaskEffects
  <2> QED
    BY <1>1, <1>4, <2>2
<1>6. PICK R : R = SubSeq(Y, 1, Len(Y) - c)
  OBVIOUS
<1>7. holding' = [holding EXCEPT ![ct] = R] /\ holding'[ct] = R
  <2>1. holding \in [Threads -> Seq(Read)]
    BY DEF Filling, Stacked
  <2> QED
    BY <1>5, <1>6, <2>1
<1>8. /\ R \in Seq(A) /\ Len(R) = Len(Y) - c
      /\ \A x \in DOMAIN R : x \in DOMAIN Y /\ R[x] = Y[x]
      /\ \A i \in 0 .. c - 1 : \E x \in DOMAIN Y : x \notin DOMAIN R /\ Popped(Y, i) = Y[x]
      /\ \A i, j \in 0 .. c - 1 : Popped(Y, i) = Popped(Y, j) => i = j
  <2>0. Len(Y) >= c
    BY <1>3, <1>4
  <2>1. R \in Seq(A)
    BY <1>3, <1>6, <2>0, Popping
  <2>2. Len(R) = Len(Y) - c
    BY <1>3, <1>6, <2>0, Popping
  <2>3. \A x \in 1 .. Len(Y) - c : R[x] = Y[x]
    BY <1>3, <1>6, <2>0, Popping
  <2>4. \A i \in 0 .. c - 1 : \E x \in DOMAIN Y : x \notin 1 .. Len(Y) - c /\ Popped(Y, i) = Y[x]
    BY <1>3, <1>6, <2>0, Popping
  <2>5. \A i, j \in 0 .. c - 1 : Popped(Y, i) = Popped(Y, j) => i = j
    BY <1>3, <1>6, <2>0, Popping
  <2>6. DOMAIN R = 1 .. Len(Y) - c /\ DOMAIN Y = 1 .. Len(Y) /\ Len(Y) \in Nat
    BY <1>3, <2>1, <2>2
  <2>7. \A x \in DOMAIN R : x \in DOMAIN Y
    BY <2>0, <2>6
  <2> QED
    BY <2>1, <2>2, <2>3, <2>4, <2>5, <2>6, <2>7
<1>9. Even(ct) = [i \in 0 .. c - 1 |-> Popped(Y, i)]
  BY <1>1, <1>4 DEF Even
<1>10. DOMAIN Even(ct) = 0 .. c - 1 /\ \A i \in 0 .. c - 1 : Even(ct)[i] = Popped(Y, i)
  BY <1>9
<1>11. IsInjective(Even(ct))
  BY <1>8, <1>10 DEF IsInjective
<1> QED
  BY <1>1, <1>2, <1>4, <1>7, <1>8, <1>10, <1>11

LEMMA FillMany ==
    ASSUME ThreadBits, Tg2Shape, Filling, PP # 1, NEW ct \in Threads, Tg2OddTask(ct)
    PROVE  (Tg2Shape /\ Filling)'
<1>1. /\ holding \in [Threads -> Seq(Read)]
      /\ IdsOf("f0") \subseteq Read
      /\ \A c, d \in Threads : \A i \in DOMAIN holding[c], j \in DOMAIN holding[d] :
           holding[c][i] = holding[d][j] => c = d /\ i = j
      /\ \A c \in Threads : \A i \in DOMAIN holding[c] : holding[c][i] \notin IdsOf("f0")
      /\ DOMAIN data = Positions \cup IdsOf("f1")
      /\ IdsOf("f1") \cap Positions = {}
  BY DEF Filling, Stacked
<1>2. \A c \in Threads : \A i \in DOMAIN holding[c] : holding[c][i] \in Read
  BY <1>1
<1>3. group' = group
  BY TaskTaken
<1>4. PP' = PP /\ Positions' = Positions
  BY <1>3, SameGroup
<1>5. /\ DOMAIN Even(ct) = 0 .. PP - 1 /\ IsInjective(Even(ct))
      /\ \A i \in 0 .. PP - 1 : \E x \in DOMAIN StackOf(ct) :
           Even(ct)[i] = StackOf(ct)[x] /\ x \notin DOMAIN holding'[ct]
      /\ holding' = [holding EXCEPT ![ct] = holding'[ct]]
      /\ holding'[ct] \in Seq(ReadBy(ct)) /\ Len(holding'[ct]) = Len(StackOf(ct)) - PP
      /\ \A x \in DOMAIN holding'[ct] :
           x \in DOMAIN StackOf(ct) /\ holding'[ct][x] = StackOf(ct)[x]
  BY StackPopped
<1>6. /\ StackOf(ct) \in Seq(ReadBy(ct)) /\ IsInjective(StackOf(ct))
      /\ \A x \in DOMAIN StackOf(ct) :
           \/ \E y \in DOMAIN holding[ct] : StackOf(ct)[x] = holding[ct][y]
           \/ StackOf(ct)[x] \notin Read
  BY StackFilled
<1>7. \A x \in DOMAIN StackOf(ct) :
        /\ StackOf(ct)[x] \in ReadBy(ct)
        /\ StackOf(ct)[x] \notin IdsOf("f0")
        /\ \A d \in Threads : d # ct => \A j \in DOMAIN holding[d] : holding[d][j] # StackOf(ct)[x]
  <2> SUFFICES ASSUME NEW x \in DOMAIN StackOf(ct)
               PROVE  /\ StackOf(ct)[x] \in ReadBy(ct)
                      /\ StackOf(ct)[x] \notin IdsOf("f0")
                      /\ \A d \in Threads : d # ct =>
                           \A j \in DOMAIN holding[d] : holding[d][j] # StackOf(ct)[x]
    OBVIOUS
  <2>1. StackOf(ct)[x] \in ReadBy(ct)
    BY <1>6
  <2>2. CASE StackOf(ct)[x] \notin Read
    BY <1>1, <1>2, <2>1, <2>2
  <2>3. CASE \E y \in DOMAIN holding[ct] : StackOf(ct)[x] = holding[ct][y]
    BY <1>1, <2>1, <2>3
  <2> QED
    BY <1>6, <2>2, <2>3
<1>8. \A i \in 0 .. PP - 1 : Even(ct)[i] \in ReadBy(ct) /\ Even(ct)[i] \notin IdsOf("f0")
  BY <1>5, <1>7
<1>9. /\ Tg2Shape'
      /\ stages' = After(1)' /\ page'["p"] = [i \in Positions' |-> i]
      /\ next' \in [Threads -> Nat]
      /\ List("f1")' /\ IdsOf("f1")' = IdsOf("f1")
      /\ {OddOf(ct)[i] : i \in 0 .. PP - 1} \subseteq IdsOf("f1")
      /\ DOMAIN page'["f0"] = {j \in Positions' : Taken(j % Tpages)'}
      /\ IsInjective(page'["f0"])
      /\ IdsOf("f0")' = IdsOf("f0") \cup {Even(ct)[i] : i \in 0 .. PP - 1}
      /\ Read' = ReadBy(ct)
  BY <1>5, <1>8, ListsFilled DEF ReadBy
<1>10. \A d \in Threads : d # ct => holding'[d] = holding[d]
  BY <1>1, <1>5
<1>11. \A d \in Threads : Thread(d)'
  <2>1. \A j \in 0 .. 2 * Rounds - 1 :
           PP # 1 /\ Len(holding[ct]) = Turn(j) /\ next[ct] = ct + j * ctp_threads
             => Len(holding'[ct]) = Turn(j + 1)
    BY <1>5, StackFilled
  <2> QED
    BY <1>10, <2>1, NextTurn
<1>12. ReadBy(ct) \subseteq Positions /\ Read \subseteq ReadBy(ct)
  BY DEF ReadBy, Read
<1>13. holding' \in [Threads -> Seq(Read')]
  <2>1. ASSUME NEW d \in Threads
        PROVE  holding'[d] \in Seq(ReadBy(ct))
    <3>1. CASE d = ct
      BY <1>5, <3>1
    <3>2. CASE d # ct
      BY <1>1, <1>10, <1>12, <3>2
    <3> QED
      BY <3>1, <3>2
  <2>2. holding' = [d \in Threads |-> holding'[d]]
    BY <1>1, <1>5
  <2> QED
    BY <1>9, <2>1, <2>2
<1>14. IdsOf("f0")' \subseteq Read'
  BY <1>1, <1>8, <1>9, <1>12
<1>15. \A c, d \in Threads : \A i \in DOMAIN holding'[c], j \in DOMAIN holding'[d] :
         holding'[c][i] = holding'[d][j] => c = d /\ i = j
  <2> SUFFICES ASSUME NEW c \in Threads, NEW d \in Threads,
                      NEW i \in DOMAIN holding'[c], NEW j \in DOMAIN holding'[d],
                      holding'[c][i] = holding'[d][j]
               PROVE  c = d /\ i = j
    OBVIOUS
  <2>1. CASE c # ct /\ d # ct
    BY <1>1, <1>10, <2>1
  <2>2. CASE c = ct /\ d = ct
    BY <1>5, <1>6, <2>2 DEF IsInjective
  <2>3. CASE c = ct /\ d # ct
    BY <1>5, <1>7, <1>10, <2>3
  <2>4. CASE c # ct /\ d = ct
    BY <1>5, <1>7, <1>10, <2>4
  <2> QED
    BY <2>1, <2>2, <2>3, <2>4
<1>16. \A c \in Threads : \A i \in DOMAIN holding'[c] : holding'[c][i] \notin IdsOf("f0")'
  <2> SUFFICES ASSUME NEW c \in Threads, NEW i \in DOMAIN holding'[c]
               PROVE  /\ holding'[c][i] \notin IdsOf("f0")
                      /\ \A k \in 0 .. PP - 1 : Even(ct)[k] # holding'[c][i]
    BY <1>9
  <2>1. CASE c # ct
    BY <1>1, <1>5, <1>7, <1>10, <2>1
  <2>2. CASE c = ct
    BY <1>5, <1>6, <1>7, <2>2 DEF IsInjective
  <2> QED
    BY <2>1, <2>2
<1>17. DOMAIN data' = Positions' \cup IdsOf("f1")'
  <2>1. next[ct] \in Nat /\ Tpages \in Nat
    <3>1. PICK h \in Nat : Tpages = 2 * h
      BY Numbers
    <3>2. 2 * h \in Nat
      OBVIOUS
    <3> QED
      BY <3>1, <3>2, TaskTaken
  <2>2. DOMAIN data' = (DOMAIN data \cup ({Even(ct)[i] : i \in 0 .. PP - 1}
                                          \cup {OddOf(ct)[i] : i \in 0 .. PP - 1}))
                       \ Sources(ct)
    BY <2>1, TaskEffects
  <2>3. Sources(ct) = {}
    BY DEF Sources
  <2>4. {Even(ct)[i] : i \in 0 .. PP - 1} \subseteq Positions
    BY <1>8, <1>12
  <2> QED
    BY <1>1, <1>4, <1>9, <2>2, <2>3, <2>4
<1>18. Stacked'
  BY <1>1, <1>4, <1>9, <1>13, <1>14, <1>15, <1>16, <1>17 DEF Stacked
<1> QED
  BY <1>4, <1>9, <1>11, <1>18 DEF Filling

-----------------------------------------------------------------------------
(* One block: new chunks for the even half, and the pages read go at once. *)

LEMMA SourcesRead ==
    ASSUME ThreadBits, Tg2Shape, PP = 1, page["p"] = [i \in Positions |-> i],
           NEW ct \in Threads, next[ct] \in 0 .. Tpages - 1
    PROVE  \A x : x \in Sources(ct) <=> x \in Positions /\ TaskOf(x) = next[ct]
<1>1. PICK h \in Nat \ {0}, m \in Nat :
          /\ PP = 2 * m + 1 /\ Tpages = 2 * h /\ Pages = (2 * m + 1) * (2 * h)
          /\ Pages \div 2 = m * (2 * h) + h
  BY Numbers
<1>2. m = 0 /\ Pages = 2 * h /\ Pages \div 2 = h
  <2>1. m = 0
    BY <1>1
  <2>2. (2 * 0 + 1) * (2 * h) = 2 * h /\ 0 * (2 * h) + h = h
    OBVIOUS
  <2> QED
    BY <1>1, <2>1, <2>2
<1>3. PICK t \in Nat : t = next[ct] /\ t < 2 * h
  BY <1>1
<1>4. Full(next[ct]) # {} <=> t < h
  <2>1. Full(next[ct]) = {i \in 0 .. 0 : t + i * Tpages < h}
    BY <1>2, <1>3 DEF Full
  <2>2. t + 0 * Tpages = t
    BY <1>1
  <2>3. \A i : i \in 0 .. 0 <=> i = 0
    OBVIOUS
  <2> QED
    BY <2>1, <2>2, <2>3
<1>5. \A x : x \in Positions <=> x \in Nat /\ x < 2 * h
  BY <1>2 DEF Positions
<1>6. ASSUME NEW x \in Nat, x < 2 * h
      PROVE  TaskOf(x) = t <=> x \in {2 * t, 2 * t + 1}
  <2>1. PICK q \in Nat, s \in Nat : q = x \div 2 /\ s < 2 /\ x = 2 * q + s
    BY Divided
  <2>2. q < 2 * h
    BY <1>6, <2>1
  <2>3. q % (2 * h) = q
    <3>1. q = (2 * h) * 0 + q /\ q \in Int /\ 2 * h \in Nat /\ 0 \in Int
      BY <1>1
    <3> QED
      BY <2>2, <3>1, DivUnique
  <2>4. TaskOf(x) = q
    BY <1>1, <2>1, <2>3 DEF TaskOf
  <2> QED
    BY <2>1, <2>4
<1>7. ASSUME t < h
      PROVE  page["p"][2 * next[ct]] = 2 * t /\ page["p"][2 * next[ct] + 1] = 2 * t + 1
             /\ 2 * t < 2 * h /\ 2 * t + 1 < 2 * h
  BY <1>3, <1>5, <1>7
<1>8. ASSUME ~(t < h), NEW x \in Nat, x < 2 * h
      PROVE  TaskOf(x) # t
  <2>1. x # 2 * t /\ x # 2 * t + 1
    BY <1>8
  <2> QED
    BY <1>6, <1>8, <2>1
<1>9. CASE t < h
  <2>1. Sources(ct) = {2 * t, 2 * t + 1}
    BY <1>4, <1>7, <1>9 DEF Sources
  <2> QED
    BY <1>3, <1>5, <1>6, <1>7, <1>9, <2>1
<1>10. CASE ~(t < h)
  <2>1. Sources(ct) = {}
    BY <1>4, <1>10 DEF Sources
  <2> QED
    BY <1>3, <1>5, <1>8, <1>10, <2>1
<1> QED
  BY <1>9, <1>10

LEMMA EvenFresh ==
    ASSUME ThreadBits, Tg2Shape, Filling, PP = 1, NEW ct \in Threads
    PROVE  /\ DOMAIN Even(ct) = 0 .. PP - 1 /\ IsInjective(Even(ct))
           /\ \A i \in 0 .. PP - 1 : Even(ct)[i] \in Nat /\ Even(ct)[i] \notin DOMAIN data
<1>1. PICK n \in Nat : n = Pages
  BY Numbers
<1>2. Pages \in Nat
  BY <1>1
<1>3. /\ DOMAIN page["f0"] \in SUBSET Positions
      /\ DOMAIN page["f1"] \in SUBSET Positions
  BY DEF Filling, List
<1>4. /\ IsFiniteSet(IdsOf("f0")) /\ Cardinality(IdsOf("f0")) \in Nat
      /\ Cardinality(IdsOf("f0")) <= Pages
  BY <1>2, <1>3, IdsCounted
<1>5. /\ IsFiniteSet(IdsOf("f1")) /\ Cardinality(IdsOf("f1")) \in Nat
      /\ Cardinality(IdsOf("f1")) <= Pages
  BY <1>2, <1>3, IdsCounted
<1>6. IsFiniteSet(Positions) /\ Cardinality(Positions) = Pages
  <2>1. 0 \in Int /\ Pages - 1 \in Int
    BY <1>2
  <2> QED
    BY <1>2, <2>1, FS_Interval DEF Positions
<1> DEFINE I == IdsOf("f0") \cup IdsOf("f1")
           J == I \cup Positions
<1>7. IsFiniteSet(I) /\ Cardinality(I) \in Nat /\ Cardinality(I) <= 2 * Pages
  <2>1. IsFiniteSet(I) /\ Cardinality(I) = Cardinality(IdsOf("f0")) + Cardinality(IdsOf("f1"))
                             - Cardinality(IdsOf("f0") \cap IdsOf("f1"))
    BY <1>4, <1>5, FS_Union
  <2>2. Cardinality(IdsOf("f0") \cap IdsOf("f1")) \in Nat
    BY <1>4, FS_Intersection, FS_CardinalityType
  <2>3. Cardinality(I) \in Nat
    BY <2>1, FS_CardinalityType
  <2> QED
    BY <1>1, <1>4, <1>5, <2>1, <2>2, <2>3
<1> HIDE DEF I
<1>8. IsFiniteSet(J) /\ Cardinality(J) \in Nat /\ Cardinality(J) <= 3 * Pages
  <2>1. IsFiniteSet(J) /\ Cardinality(J) = Cardinality(I) + Cardinality(Positions)
                             - Cardinality(I \cap Positions)
    BY <1>6, <1>7, FS_Union
  <2>2. Cardinality(I \cap Positions) \in Nat
    BY <1>7, FS_Intersection, FS_CardinalityType
  <2>3. Cardinality(J) \in Nat
    BY <2>1, FS_CardinalityType
  <2> QED
    BY <1>1, <1>6, <1>7, <2>1, <2>2, <2>3
<1>9. DOMAIN data \subseteq J
  BY DEF Filling, Replaced, I
<1> HIDE DEF J
<1>10. IsFiniteSet(DOMAIN data) /\ Cardinality(DOMAIN data) \in Nat
       /\ Cardinality(DOMAIN data) <= Cardinality(J)
  BY <1>8, <1>9, FS_Subset, FS_CardinalityType
<1>11. Cardinality(DOMAIN data) + 1 <= 6 * Pages + 3
  BY <1>1, <1>8, <1>10
<1>12. /\ DOMAIN Fresh(1) = 0 .. 1 - 1 /\ IsInjective(Fresh(1))
       /\ \A i \in 0 .. 1 - 1 : Fresh(1)[i] \in Nat /\ Fresh(1)[i] \notin DOMAIN data
  BY <1>2, <1>10, <1>11, FreshChunks
<1> QED
  BY <1>12 DEF Even

LEMMA FillOne ==
    ASSUME ThreadBits, Tg2Shape, Filling, PP = 1, NEW ct \in Threads, Tg2OddTask(ct)
    PROVE  (Tg2Shape /\ Filling)'
<1>1. /\ holding = Nothing
      /\ IdsOf("f0") \subseteq Nat
      /\ DOMAIN data = IdsOf("f0") \cup IdsOf("f1") \cup (Positions \ Read)
      /\ IdsOf("f0") \cap IdsOf("f1") = {}
      /\ (IdsOf("f0") \cup IdsOf("f1")) \cap (Positions \ Read) = {}
      /\ page["p"] = [i \in Positions |-> i]
  BY DEF Filling, Replaced
<1>2. next[ct] \in 0 .. Tpages - 1 /\ group' = group
  BY TaskTaken
<1>3. PP' = PP /\ Positions' = Positions
  BY <1>2, SameGroup
<1>4. /\ DOMAIN Even(ct) = 0 .. PP - 1 /\ IsInjective(Even(ct))
      /\ \A i \in 0 .. PP - 1 : Even(ct)[i] \in Nat /\ Even(ct)[i] \notin DOMAIN data
  BY EvenFresh
<1>5. \A i \in 0 .. PP - 1 : Even(ct)[i] \notin IdsOf("f0")
  BY <1>1, <1>4
<1>6. /\ Tg2Shape'
      /\ stages' = After(1)' /\ page'["p"] = [i \in Positions' |-> i]
      /\ next' \in [Threads -> Nat]
      /\ List("f1")' /\ IdsOf("f1")' = IdsOf("f1")
      /\ {OddOf(ct)[i] : i \in 0 .. PP - 1} \subseteq IdsOf("f1")
      /\ DOMAIN page'["f0"] = {j \in Positions' : Taken(j % Tpages)'}
      /\ IsInjective(page'["f0"])
      /\ IdsOf("f0")' = IdsOf("f0") \cup {Even(ct)[i] : i \in 0 .. PP - 1}
      /\ Read' = Read \cup {x \in Positions : TaskOf(x) = next[ct]}
      /\ \A x \in Read : TaskOf(x) # next[ct]
  BY <1>4, <1>5, ListsFilled
<1>7. /\ holding' = holding
      /\ DOMAIN data' = (DOMAIN data \cup ({Even(ct)[i] : i \in 0 .. PP - 1}
                                           \cup {OddOf(ct)[i] : i \in 0 .. PP - 1}))
                        \ Sources(ct)
  <2>1. next[ct] \in Nat /\ Tpages \in Nat
    <3>1. PICK h \in Nat : Tpages = 2 * h
      BY Numbers
    <3>2. 2 * h \in Nat
      OBVIOUS
    <3> QED
      BY <1>2, <3>1, <3>2
  <2> QED
    BY <2>1, TaskEffects
<1>8. \A d \in Threads : Thread(d)'
  BY <1>7, NextTurn
<1>9. \A x : x \in Sources(ct) <=> x \in Positions /\ TaskOf(x) = next[ct]
  BY <1>1, <1>2, SourcesRead
<1> DEFINE E == {Even(ct)[i] : i \in 0 .. PP - 1}
           O == {OddOf(ct)[i] : i \in 0 .. PP - 1}
<1>10. (\A x \in E : x \in Nat /\ x \notin DOMAIN data) /\ O \subseteq IdsOf("f1")
  BY <1>4, <1>6
<1>11. /\ IdsOf("f0")' = IdsOf("f0") \cup E /\ IdsOf("f1")' = IdsOf("f1")
       /\ DOMAIN data' = (DOMAIN data \cup (E \cup O)) \ Sources(ct)
  BY <1>6, <1>7
<1> HIDE DEF E, O
<1>12. \A x : x \in Read' <=> x \in Read \/ x \in Sources(ct)
  BY <1>6, <1>9
<1>13. Sources(ct) \subseteq Positions \ Read
  BY <1>6, <1>9
<1>14. Replaced'
  <2>1. holding' = Nothing' /\ IdsOf("f0")' \subseteq Nat
    BY <1>1, <1>7, <1>10, <1>11 DEF Nothing
  <2>2. DOMAIN data' = IdsOf("f0")' \cup IdsOf("f1")' \cup (Positions \ Read')
    BY <1>1, <1>10, <1>11, <1>12, <1>13
  <2>3. IdsOf("f0")' \cap IdsOf("f1")' = {}
    BY <1>1, <1>10, <1>11
  <2>4. (IdsOf("f0")' \cup IdsOf("f1")') \cap (Positions \ Read') = {}
    BY <1>1, <1>10, <1>11, <1>12
  <2> QED
    BY <1>3, <2>1, <2>2, <2>3, <2>4 DEF Replaced
<1> QED
  BY <1>3, <1>6, <1>8, <1>14 DEF Filling

-----------------------------------------------------------------------------
(* The end of the odd part. *)

LEMMA FillDone ==
    ASSUME ThreadBits, Tg2Shape, Filling, StageDone
    PROVE  (Tg2Shape /\ Passing)'
<1>1. PICK h \in Nat \ {0}, m \in Nat :
          PP = 2 * m + 1 /\ Tpages = 2 * h /\ Pages \in Nat
  BY Numbers
<1>2. stages = After(1) /\ After(1) # <<>> /\ Head(After(1)).op = "tg2Odd" /\ Tail(After(1)) = After(2)
  <2>1. 1 \in 0 .. StageCount - 1 /\ 1 + 1 = 2
    BY <1>1 DEF StageCount
  <2>2. Head(After(1)) = Stage("tg2Odd", "p", 0) /\ After(1) # <<>> /\ Tail(After(1)) = After(2)
    BY <1>1, <2>1, NextStage, OtherStages
  <2> QED
    BY <2>2 DEF Stage, Filling
<1>3. /\ \A ct \in Threads : next[ct] >= Tpages
      /\ stages' = After(2) /\ group' = group /\ input' = input /\ page' = page
      /\ data' = data /\ holding' = holding
  BY <1>2 DEF StageDone, Tasks, At, EndStage
<1>4. /\ PP' = PP /\ Tpages' = Tpages /\ Positions' = Positions /\ After(2)' = After(2)
  BY <1>3, SameGroup
<1>5. /\ \A t \in 0 .. Tpages - 1 : Taken(t)
      /\ \A ct \in Threads : PP # 1 => Len(holding[ct]) = 0
  BY <1>3, AllTaken DEF Filling
<1>6. holding = Nothing
  <2>1. CASE PP = 1
    BY <2>1 DEF Filling, Replaced
  <2>2. CASE PP # 1
    <3>1. holding \in [Threads -> Seq(Read)]
      BY <2>2 DEF Filling, Stacked
    <3>2. \A ct \in Threads : holding[ct] = <<>>
      BY <1>5, <2>2, <3>1
    <3> QED
      BY <3>1, <3>2 DEF Nothing
  <2> QED
    BY <2>1, <2>2
<1>7. \A x \in Positions : x \in Nat /\ x \in Read /\ Taken(x % Tpages)
  <2> SUFFICES ASSUME NEW x \in Positions
               PROVE  x \in Nat /\ x \in Read /\ Taken(x % Tpages)
    OBVIOUS
  <2>1. x \in Nat
    BY <1>1 DEF Positions
  <2>2. x \div 2 \in Nat
    BY <2>1, DivMod
  <2>3. TaskOf(x) \in 0 .. Tpages - 1
    BY <1>1, <2>2, DivMod DEF TaskOf
  <2>4. x % Tpages \in 0 .. Tpages - 1
    BY PositionOf
  <2> QED
    BY <1>5, <2>1, <2>3, <2>4 DEF Read
<1>8. List("f0")
  <2>1. DOMAIN page["f0"] = Positions /\ IsInjective(page["f0"])
    BY <1>7 DEF Filling
  <2>2. IdsOf("f0") \subseteq Nat
    BY <1>7 DEF Filling, Replaced, Stacked, Read
  <2> QED
    BY <2>1, <2>2 DEF List
<1>9. List("f1")
  BY DEF Filling
<1>10. DOMAIN data = IdsOf("f0") \cup IdsOf("f1") /\ IdsOf("f0") \cap IdsOf("f1") = {}
  <2>1. CASE PP = 1
    BY <1>7, <2>1 DEF Filling, Replaced
  <2>2. CASE PP # 1
    <3>1. IdsOf("f0") \subseteq Positions
      BY <2>2 DEF Filling, Stacked, Read
    <3>2. IsFiniteSet(Positions) /\ Cardinality(Positions) = Pages
      <4>1. 0 \in Int /\ Pages - 1 \in Int
        BY <1>1
      <4> QED
        BY <1>1, <4>1, FS_Interval DEF Positions
    <3>3. Cardinality(IdsOf("f0")) = Pages
      <4>1. Positions \in SUBSET Positions /\ DOMAIN page["f0"] = Positions /\ IsInjective(page["f0"])
        BY <1>8 DEF List
      <4> QED
        BY <1>1, <4>1, IdsCounted
    <3>4. IdsOf("f0") = Positions
      BY <1>1, <3>1, <3>2, <3>3, FS_Subset
    <3> QED
      BY <2>2, <3>4 DEF Filling, Stacked
  <2> QED
    BY <2>1, <2>2
<1>11. OddFrom(0) = IdsOf("f1")
  <2>1. \A j \in Positions : j >= 0 * Tpages
    BY <1>1, <1>7
  <2> QED
    BY <1>9, <2>1 DEF OddFrom, IdsOf, List
<1>12. /\ OddFrom(0)' = OddFrom(0) /\ IdsOf("f0")' = IdsOf("f0") /\ IdsOf("f1")' = IdsOf("f1")
       /\ List("f0")' /\ List("f1")' /\ holding' = Nothing'
  BY <1>3, <1>4, <1>6, <1>8, <1>9 DEF OddFrom, IdsOf, List, Nothing
<1>13. 0 \in 0 .. PP /\ 0 \in 0 .. 2 /\ (0 = PP => 0 = 0) /\ 2 + 3 * 0 + 0 = 2
  BY <1>1
<1>14. Passing'
  BY <1>3, <1>4, <1>10, <1>11, <1>12, <1>13 DEF Passing
<1>15. Tg2Shape'
  BY <1>3 DEF Tg2Shape
<1> QED
  BY <1>14, <1>15

LEMMA FillStep ==
    ASSUME ThreadBits, Tg2Shape, Filling, Next
    PROVE  (Tg2Shape /\ (Filling \/ Passing))'
<1>1. stages = After(1) /\ stages # <<>> /\ Head(stages).op = "tg2Odd"
  <2>1. PICK m \in Nat : PP = 2 * m + 1
    BY Numbers
  <2>2. 1 \in 0 .. StageCount - 1 /\ 1 + 1 = 2
    BY <2>1 DEF StageCount
  <2>3. Head(After(1)) = Stage("tg2Odd", "p", 0) /\ After(1) # <<>>
    BY <2>1, <2>2, NextStage, OtherStages
  <2> QED
    BY <2>3 DEF Stage, Filling
<1>2. StageDone \/ \E ct \in Threads : Tg2OddTask(ct)
  BY <1>1, StepOf
<1> QED
  BY <1>2, FillDone, FillMany, FillOne

-----------------------------------------------------------------------------
(* The passes over the blocks, and the result. *)

LEMMA BlockChunks ==
    ASSUME ThreadBits, Tg2Shape, List("f0"), List("f1"), NEW T \in 0 .. PP - 1
    PROVE  /\ \A f \in {"f0", "f1"} : {BlockIds(f, T)[i] : i \in DOMAIN BlockIds(f, T)} = BlockSet(f, T)
           /\ BlockSet("f0", T) \subseteq IdsOf("f0")
           /\ BlockSet("f1", T) \subseteq OddFrom(T)
           /\ \A x : x \in OddFrom(T + 1) <=> x \in OddFrom(T) /\ x \notin BlockSet("f1", T)
<1>1. PICK h \in Nat \ {0}, m \in Nat : PP = 2 * m + 1 /\ Tpages = 2 * h /\ Pages \in Nat
  BY Numbers
<1>2. PICK w \in Nat \ {0} : w = Tpages
  <2>1. 2 * h \in Nat \ {0}
    OBVIOUS
  <2> QED
    BY <1>1, <2>1
<1>3. \A f : /\ DOMAIN BlockIds(f, T) = 0 .. w - 1
             /\ \A i \in 0 .. w - 1 : BlockIds(f, T)[i] = page[f][T * w + i]
  BY <1>2 DEF BlockIds
<1>4. \A f, x : x \in BlockSet(f, T) <=> \E i \in 0 .. w - 1 : page[f][T * w + i] = x
  <2> SUFFICES ASSUME NEW f, NEW x
               PROVE  x \in BlockSet(f, T) <=> \E i \in 0 .. w - 1 : page[f][T * w + i] = x
    OBVIOUS
  <2>1. \A i \in 0 .. w - 1 : BlockIds(f, T)[i] = page[f][T * w + i]
    BY <1>3
  <2>2. x \in BlockSet(f, T) <=> \E i \in 0 .. w - 1 : BlockIds(f, T)[i] = x
    BY <1>2 DEF BlockSet
  <2> QED
    BY <2>1, <2>2
<1>5. \A i \in 0 .. w - 1 : T * w + i \in Positions
  <2> SUFFICES ASSUME NEW i \in 0 .. w - 1
               PROVE  T * w + i \in Positions
    OBVIOUS
  <2>1. i + T * w \in Positions
    BY <1>2, PositionOf
  <2>2. i + T * w = T * w + i
    BY <1>1
  <2> QED
    BY <2>1, <2>2
<1>6. PICK a \in Nat : a = T * w /\ (T + 1) * w = a + w
  <2>1. T \in Nat
    BY <1>1
  <2>2. T * w \in Nat /\ (T + 1) * w = T * w + w
    BY <2>1
  <2> QED
    BY <2>2
<1>7. \A j \in Positions : j \in Nat
  BY <1>1 DEF Positions
<1>8. /\ \A x : x \in OddFrom(T) <=> \E j \in Positions : j >= a /\ page["f1"][j] = x
      /\ \A x : x \in OddFrom(T + 1) <=> \E j \in Positions : j >= a + w /\ page["f1"][j] = x
      /\ \A x : x \in BlockSet("f1", T) <=> \E j \in Positions : j >= a /\ j < a + w /\ page["f1"][j] = x
  <2>1. \A x : x \in OddFrom(T) <=> \E j \in Positions : j >= a /\ page["f1"][j] = x
    BY <1>2, <1>6 DEF OddFrom
  <2>2. \A x : x \in OddFrom(T + 1) <=> \E j \in Positions : j >= a + w /\ page["f1"][j] = x
    BY <1>2, <1>6 DEF OddFrom
  <2>3. \A j \in Positions : j >= a /\ j < a + w => j - a \in 0 .. w - 1 /\ a + (j - a) = j
    BY <1>7
  <2>4. \A i \in 0 .. w - 1 : a + i >= a /\ a + i < a + w /\ a + i \in Positions
    BY <1>5, <1>6
  <2>5. \A x : x \in BlockSet("f1", T) <=> \E i \in 0 .. w - 1 : page["f1"][a + i] = x
    BY <1>4, <1>6
  <2>6. \A x : x \in BlockSet("f1", T) <=> \E j \in Positions : j >= a /\ j < a + w /\ page["f1"][j] = x
    BY <2>3, <2>4, <2>5
  <2> QED
    BY <2>1, <2>2, <2>6
<1>9. \A x : x \in OddFrom(T + 1) <=> x \in OddFrom(T) /\ x \notin BlockSet("f1", T)
  <2> SUFFICES ASSUME NEW x
               PROVE  x \in OddFrom(T + 1) <=> x \in OddFrom(T) /\ x \notin BlockSet("f1", T)
    OBVIOUS
  <2>1. \A j \in Positions : j >= a + w <=> j >= a /\ ~(j < a + w)
    BY <1>7
  <2>2. \A i, j \in Positions : page["f1"][i] = page["f1"][j] => i = j
    BY DEF List, IsInjective
  <2> QED
    BY <1>8, <2>1, <2>2
<1>10. BlockSet("f0", T) \subseteq IdsOf("f0")
  BY <1>4, <1>5 DEF IdsOf, List
<1>11. BlockSet("f1", T) \subseteq OddFrom(T)
  BY <1>8
<1>12. \A f : {BlockIds(f, T)[i] : i \in DOMAIN BlockIds(f, T)} = BlockSet(f, T)
  <2> SUFFICES ASSUME NEW f
               PROVE  {BlockIds(f, T)[i] : i \in DOMAIN BlockIds(f, T)} = BlockSet(f, T)
    OBVIOUS
  <2>1. DOMAIN BlockIds(f, T) = 0 .. Tpages - 1
    BY <1>2, <1>3
  <2> QED
    BY <2>1 DEF BlockSet
<1> QED
  BY <1>9, <1>10, <1>11, <1>12

LEMMA PassEffects ==
    ASSUME ThreadBits, Tg2Shape, List("f0"), List("f1"), NEW T \in 0 .. PP - 1,
           Head(stages).T = T, NEW s \in 0 .. 2,
           (s = 0 => Tg2Top) /\ (s = 1 => Tg2Group) /\ (s = 2 => Tg2Back)
    PROVE  /\ stages' = Tail(stages) /\ group' = group /\ input' = input
           /\ page' = page /\ holding' = holding
           /\ s = 0 => DOMAIN data' = DOMAIN data \cup BlockSet("f0", T) \cup BlockSet("f1", T)
           /\ s = 1 => DOMAIN data' = DOMAIN data \cup BlockSet("f0", T)
           /\ s = 2 => DOMAIN data' = (DOMAIN data \cup BlockSet("f0", T)) \ BlockSet("f1", T)
<1>1. \A f \in {"f0", "f1"} : {BlockIds(f, T)[i] : i \in DOMAIN BlockIds(f, T)} = BlockSet(f, T)
  BY BlockChunks
<1>2. \A f \in {"f0", "f1"} : \A c : DOMAIN Spread(BlockIds(f, T), c) = BlockSet(f, T)
  BY <1>1 DEF Spread
<1>3. CASE s = 0
  <2>1. Tg2Top
    BY <1>3
  <2>2. DOMAIN data' = DOMAIN data \cup (BlockSet("f0", T) \cup BlockSet("f1", T))
    BY <1>2, <2>1 DEF Tg2Top, Write
  <2>3. /\ stages' = Tail(stages) /\ group' = group /\ input' = input
        /\ page' = page /\ holding' = holding
    BY <2>1 DEF Tg2Top, EndStage
  <2> QED
    BY <1>3, <2>2, <2>3
<1>4. CASE s = 1
  <2>1. Tg2Group
    BY <1>4
  <2>2. DOMAIN data' = DOMAIN data \cup BlockSet("f0", T)
    BY <1>2, <2>1 DEF Tg2Group, Write
  <2>3. /\ stages' = Tail(stages) /\ group' = group /\ input' = input
        /\ page' = page /\ holding' = holding
    BY <2>1 DEF Tg2Group, EndStage
  <2> QED
    BY <1>4, <2>2, <2>3
<1>5. CASE s = 2
  <2>1. Tg2Back
    BY <1>5
  <2>2. DOMAIN data' = (DOMAIN data \cup BlockSet("f0", T)) \ BlockSet("f1", T)
    BY <1>2, <2>1 DEF Tg2Back, Write, Drop
  <2>3. /\ stages' = Tail(stages) /\ group' = group /\ input' = input
        /\ page' = page /\ holding' = holding
    BY <2>1 DEF Tg2Back, EndStage
  <2> QED
    BY <1>5, <2>2, <2>3
<1> QED
  BY <1>3, <1>4, <1>5


LEMMA PassStep ==
    ASSUME ThreadBits, Tg2Shape, Passing, Next, NEW T \in 0 .. PP - 1, NEW s \in 0 .. 2,
           stages = After(2 + 3 * T + s), DOMAIN data = IdsOf("f0") \cup OddFrom(T)
    PROVE  (Tg2Shape /\ Passing)'
<1>1. PICK m \in Nat : PP = 2 * m + 1
  BY Numbers
<1>2. PICK k \in Nat : k = 2 + 3 * T + s /\ k + 1 = 3 + 3 * T + s
  BY <1>1
<1>3. k \in 0 .. StageCount - 1
  <2>1. T <= 2 * m
    BY <1>1
  <2> QED
    BY <1>1, <1>2, <2>1 DEF StageCount
<1>4. /\ stages # <<>> /\ Tail(stages) = After(k + 1)
      /\ Head(stages) = Stage(<<"tg2Top", "tg2Group", "tg2Back">>[s + 1], "p", T)
  <2>1. GpuTg2Stage(3 + 3 * T + s) = Stage(<<"tg2Top", "tg2Group", "tg2Back">>[s + 1], "p", T)
    BY <1>1, PassStage
  <2>2. After(k) # <<>> /\ Head(After(k)) = GpuTg2Stage(k + 1) /\ Tail(After(k)) = After(k + 1)
    BY <1>1, <1>3, NextStage
  <2> QED
    BY <1>2, <2>1, <2>2
<1>5. Head(stages).op = <<"tg2Top", "tg2Group", "tg2Back">>[s + 1] /\ Head(stages).T = T
  BY <1>4 DEF Stage
<1>6. (s = 0 => Tg2Top) /\ (s = 1 => Tg2Group) /\ (s = 2 => Tg2Back)
  <2>1. CASE s = 0
    <3>1. Head(stages).op = "tg2Top"
      BY <1>5, <2>1
    <3>2. Tg2Top
      BY <1>4, <3>1, StepOf
    <3> QED
      BY <2>1, <3>2
  <2>2. CASE s = 1
    <3>1. Head(stages).op = "tg2Group"
      BY <1>5, <2>2
    <3>2. Tg2Group
      BY <1>4, <3>1, StepOf
    <3> QED
      BY <2>2, <3>2
  <2>3. CASE s = 2
    <3>1. Head(stages).op = "tg2Back"
      BY <1>5, <2>3
    <3>2. Tg2Back
      BY <1>4, <3>1, StepOf
    <3> QED
      BY <2>3, <3>2
  <2> QED
    BY <2>1, <2>2, <2>3
<1>7. List("f0") /\ List("f1") /\ holding = Nothing /\ IdsOf("f0") \cap IdsOf("f1") = {}
  BY DEF Passing
<1>8. /\ stages' = After(k + 1) /\ group' = group /\ input' = input
      /\ page' = page /\ holding' = holding
      /\ s = 0 => DOMAIN data' = DOMAIN data \cup BlockSet("f0", T) \cup BlockSet("f1", T)
      /\ s = 1 => DOMAIN data' = DOMAIN data \cup BlockSet("f0", T)
      /\ s = 2 => DOMAIN data' = (DOMAIN data \cup BlockSet("f0", T)) \ BlockSet("f1", T)
  BY <1>4, <1>5, <1>6, <1>7, PassEffects
<1>9. /\ PP' = PP /\ Tpages' = Tpages /\ Positions' = Positions /\ After(k + 1)' = After(k + 1)
  BY <1>8, SameGroup
<1>10. /\ BlockSet("f0", T) \subseteq IdsOf("f0")
       /\ BlockSet("f1", T) \subseteq OddFrom(T)
       /\ \A x : x \in OddFrom(T + 1) <=> x \in OddFrom(T) /\ x \notin BlockSet("f1", T)
  BY <1>7, BlockChunks
<1>11. OddFrom(T) \subseteq IdsOf("f1")
  BY <1>7 DEF OddFrom, IdsOf, List
<1>12. PICK U \in 0 .. PP, u \in 0 .. 2 :
         /\ U = IF s = 2 THEN T + 1 ELSE T
         /\ u = IF s = 2 THEN 0 ELSE s + 1
         /\ k + 1 = 2 + 3 * U + u
  <2>1. CASE s = 2
    <3>1. T + 1 \in 0 .. PP /\ 0 \in 0 .. 2 /\ k + 1 = 2 + 3 * (T + 1) + 0
      BY <1>1, <1>2, <2>1
    <3> QED
      BY <2>1, <3>1
  <2>2. CASE s # 2
    <3>1. T \in 0 .. PP /\ s + 1 \in 0 .. 2 /\ k + 1 = 2 + 3 * T + (s + 1)
      BY <1>1, <1>2, <2>2
    <3> QED
      BY <2>2, <3>1
  <2> QED
    BY <2>1, <2>2
<1>13. DOMAIN data' = IdsOf("f0") \cup OddFrom(U)
  <2>1. CASE s = 2
    <3>1. U = T + 1
      BY <1>12, <2>1
    <3>2. DOMAIN data' = (DOMAIN data \cup BlockSet("f0", T)) \ BlockSet("f1", T)
      BY <1>8, <2>1
    <3> QED
      BY <1>7, <1>10, <1>11, <3>1, <3>2
  <2>2. CASE s # 2
    <3>1. U = T
      BY <1>12, <2>2
    <3>2. s = 0 \/ s = 1
      BY <2>2
    <3> QED
      BY <1>8, <1>10, <3>1, <3>2
  <2> QED
    BY <2>1, <2>2
<1>14. /\ OddFrom(U)' = OddFrom(U) /\ IdsOf("f0")' = IdsOf("f0") /\ IdsOf("f1")' = IdsOf("f1")
       /\ List("f0")' /\ List("f1")' /\ holding' = Nothing'
  BY <1>7, <1>8, <1>9 DEF OddFrom, IdsOf, List, Nothing
<1>15. U = PP => u = 0
  <2>1. T < PP
    BY <1>1
  <2> QED
    BY <1>12, <2>1
<1>16. Passing'
  <2>1. stages' = After(2 + 3 * U + u)'
    BY <1>8, <1>9, <1>12
  <2>2. U \in 0 .. PP' /\ (U = PP' => u = 0)
    BY <1>9, <1>15
  <2>3. DOMAIN data' = IdsOf("f0")' \cup OddFrom(U)'
    BY <1>13, <1>14
  <2>4. IdsOf("f0")' \cap IdsOf("f1")' = {}
    BY <1>7, <1>14
  <2> QED
    BY <1>14, <2>1, <2>2, <2>3, <2>4 DEF Passing
<1>17. Tg2Shape'
  BY <1>8 DEF Tg2Shape
<1> QED
  BY <1>16, <1>17

\* fe's chunks are p's then, at the places the odd part of the way back takes
\* them from.
LEMMA Transposes ==
    ASSUME ThreadBits, Tg2Shape, List("f0"),
           NEW p, p = [i \in Positions |->
                         page["f0"][(i % Tpages) + Tpages * Transposed(i \div Tpages, group)]]
    PROVE  /\ DOMAIN p = Positions /\ IsInjective(p)
           /\ {p[i] : i \in Positions} = IdsOf("f0")
<1>1. PICK h \in Nat \ {0}, m \in Nat : PP = 2 * m + 1 /\ Tpages = 2 * h
  BY Numbers
<1>2. PICK w \in Nat \ {0} : w = Tpages
  <2>1. 2 * h \in Nat \ {0}
    OBVIOUS
  <2> QED
    BY <1>1, <2>1
<1> DEFINE To(i) == (i % w) + w * Transposed(i \div w, group)
<1>3. \A i \in Positions : /\ i % w \in 0 .. w - 1 /\ i \div w \in 0 .. PP - 1
                           /\ i = (i % w) + (i \div w) * w
  BY <1>2, PositionOf
<1>4. \A t \in 0 .. w - 1, i \in 0 .. PP - 1 :
        /\ t + i * w \in Positions /\ t + w * i = t + i * w
        /\ (t + i * w) % w = t /\ (t + i * w) \div w = i
  <2>1. \A t \in 0 .. w - 1, i \in 0 .. PP - 1 :
          t + i * w \in Positions /\ (t + i * w) % w = t /\ (t + i * w) \div w = i
    BY <1>2, PositionOf
  <2>2. \A i \in 0 .. PP - 1 : w * i = i * w
    BY <1>1
  <2> QED
    BY <2>1, <2>2
<1>5. \A i \in 0 .. PP - 1 : Transposed(i, group) \in 0 .. PP - 1
  BY Transposition
<1>6. \A i \in Positions : /\ To(i) \in Positions /\ To(i) % w = i % w
                           /\ To(i) \div w = Transposed(i \div w, group)
  BY <1>3, <1>4, <1>5
<1> HIDE DEF To
<1>7. DOMAIN p = Positions /\ \A i \in Positions : p[i] = page["f0"][To(i)]
  BY <1>2 DEF To
<1>8. ASSUME NEW i \in Positions, NEW j \in Positions, p[i] = p[j]
      PROVE  i = j
  <2>1. To(i) = To(j)
    BY <1>6, <1>7, <1>8 DEF List, IsInjective
  <2>2. i % w = j % w /\ Transposed(i \div w, group) = Transposed(j \div w, group)
    BY <1>6, <2>1
  <2>3. i \div w \in 0 .. PP - 1 /\ j \div w \in 0 .. PP - 1
    BY <1>3
  <2>4. SourceOf(Transposed(i \div w, group)) = i \div w
        /\ SourceOf(Transposed(j \div w, group)) = j \div w
    BY <2>3, Transposition
  <2>5. i \div w = j \div w
    BY <2>2, <2>4
  <2> QED
    BY <1>3, <2>2, <2>5
<1>9. ASSUME NEW j \in Positions
      PROVE  \E i \in Positions : To(i) = j
  <2>1. j % w \in 0 .. w - 1 /\ j \div w \in 0 .. PP - 1 /\ j = (j % w) + (j \div w) * w
    BY <1>3
  <2>2. PICK k \in 0 .. PP - 1 : Transposed(k, group) = j \div w
    BY <2>1, Transposition
  <2>3. PICK i : i = (j % w) + k * w
    OBVIOUS
  <2>4. i \in Positions /\ i % w = j % w /\ i \div w = k
    BY <1>4, <2>1, <2>3
  <2>5. To(i) = (j % w) + w * (j \div w)
    BY <2>2, <2>4 DEF To
  <2>6. (j % w) + w * (j \div w) = j
    BY <1>4, <2>1
  <2> QED
    BY <2>4, <2>5, <2>6
<1>10. IsInjective(p)
  BY <1>7, <1>8 DEF IsInjective
<1>11. \A x : (\E i \in Positions : p[i] = x) <=> x \in IdsOf("f0")
  <2>1. \A x : x \in IdsOf("f0") <=> \E j \in Positions : page["f0"][j] = x
    BY DEF IdsOf, List
  <2> QED
    BY <1>6, <1>7, <1>9, <2>1
<1>12. {p[i] : i \in Positions} = IdsOf("f0")
  BY <1>11
<1> QED
  BY <1>7, <1>10, <1>12

LEMMA GiveStep ==
    ASSUME ThreadBits, Tg2Shape, Passing, Next,
           stages = After(3 * PP + 2), DOMAIN data = IdsOf("f0") \cup OddFrom(PP)
    PROVE  (Tg2Shape /\ Given)'
<1>1. PICK h \in Nat \ {0}, m \in Nat :
         PP = 2 * m + 1 /\ Tpages = 2 * h /\ Pages = (2 * m + 1) * (2 * h) /\ Pages \in Nat
  BY Numbers
<1>2. PICK k \in Nat : k = 3 * PP + 2 /\ k + 1 = 3 * PP + 3
  BY <1>1
<1>3. k \in 0 .. StageCount - 1
  BY <1>1, <1>2 DEF StageCount
<1>4. stages # <<>> /\ Tail(stages) = After(k + 1) /\ Head(stages) = Stage("tg2Give", "p", 0)
  <2>1. GpuTg2Stage(3 * PP + 3) = Stage("tg2Give", "p", 0)
    BY <1>1, OtherStages
  <2>2. After(k) # <<>> /\ Head(After(k)) = GpuTg2Stage(k + 1) /\ Tail(After(k)) = After(k + 1)
    BY <1>1, <1>3, NextStage
  <2> QED
    BY <1>2, <2>1, <2>2
<1>5. Tg2Give
  <2>1. Head(stages).op = "tg2Give"
    BY <1>4 DEF Stage
  <2> QED
    BY <1>4, <2>1, StepOf
<1> DEFINE p == [i \in Positions |->
                   page["f0"][(i % Tpages) + Tpages * Transposed(i \div Tpages, group)]]
<1>6. /\ page' = [page EXCEPT !["f0"] = noPages, !["f1"] = noPages, !["p"] = p]
      /\ stages' = After(k + 1) /\ next' = [ct \in Threads |-> ct]
      /\ group' = group /\ input' = input /\ data' = data /\ holding' = holding
  BY <1>4, <1>5 DEF Tg2Give, EndStage, Positions
<1>7. List("f0") /\ holding = Nothing
  BY DEF Passing
<1>8. DOMAIN p = Positions /\ IsInjective(p) /\ {p[i] : i \in Positions} = IdsOf("f0")
  BY <1>7, Transposes
<1> HIDE DEF p
<1>9. PP' = PP /\ Positions' = Positions /\ After(k + 1)' = After(k + 1)
  BY <1>6, SameGroup
<1>10. /\ page' = [f \in Polys |-> page'[f]]
       /\ page'["p"] = p /\ page'["f0"] = noPages /\ page'["f1"] = noPages
  BY <1>6 DEF Tg2Shape, Polys
<1>11. IdsOf("p")' = IdsOf("f0")
  <2>1. IdsOf("p")' = {p[i] : i \in DOMAIN p}
    BY <1>10 DEF IdsOf
  <2> QED
    BY <1>8, <2>1
<1>12. OddFrom(PP) = {}
  <2>1. ASSUME NEW j \in Positions
        PROVE  ~(j >= PP * Tpages)
    BY <1>1 DEF Positions
  <2> QED
    BY <2>1 DEF OddFrom
<1>13. List("p")'
  BY <1>7, <1>8, <1>9, <1>10, <1>11 DEF List
<1>14. next' \in [Threads -> Nat]
  BY <1>6, NoneTaken
<1>15. Given'
  <2>1. stages' = After(3 * PP + 3)'
    BY <1>2, <1>6, <1>9
  <2>2. (3 * PP + 3)' = 3 * PP + 3
    BY <1>9
  <2>3. DOMAIN data' = IdsOf("p")'
    BY <1>6, <1>11, <1>12
  <2>4. holding' = Nothing'
    BY <1>6, <1>7 DEF Nothing
  <2>5. noPages' = noPages
    BY DEF noPages
  <2> QED
    BY <1>10, <1>13, <1>14, <2>1, <2>2, <2>3, <2>4, <2>5 DEF Given
<1>16. Tg2Shape'
  BY <1>6, <1>10 DEF Tg2Shape
<1> QED
  BY <1>15, <1>16


LEMMA GivenStep ==
    ASSUME ThreadBits, Tg2Shape, Given, Next
    PROVE  (Tg2Shape /\ Given)'
<1>1. PICK h \in Nat \ {0}, m \in Nat : PP = 2 * m + 1 /\ Tpages = 2 * h
  BY Numbers
<1>2. /\ List("p") /\ holding = Nothing /\ next \in [Threads -> Nat]
      /\ page["f0"] = noPages /\ page["f1"] = noPages /\ DOMAIN data = IdsOf("p")
  BY DEF Given
<1> DEFINE Goal == /\ group' = group /\ input' = input /\ page' = page /\ holding' = holding
                   /\ next' \in [Threads -> Nat] /\ DOMAIN data' = DOMAIN data
                   /\ stages' = stages \/ stages' = <<>>
<1>3. ASSUME stages = <<>>
      PROVE  Goal
  <2>1. \A ops : ~At(ops)
    BY <1>3 DEF At
  <2>2. Finished
    BY <2>1 DEF Next, EvenBlock, EvenPost, Permute, Split, Give, ClearTail, Alloc, Tg2Top, Tg2Group,
                Tg2Back, Tg2Give, StageDone, OddTask, EvalTask, Tg2OddTask
  <2>3. Goal
    BY <1>2, <2>2 DEF Finished, vars
  <2> QED
    BY <2>3
<1>4. ASSUME stages # <<>>
      PROVE  Goal
  <2>1. stages = After(3 * PP + 3) /\ PP # 1
    <3>1. stages = After(3 * PP + 3)
      BY <1>4 DEF Given
    <3>2. PP = 1 => StageCount = 3 * PP + 3
      BY <1>1, LastStage
    <3>3. After(StageCount) = <<>>
      BY <1>1, LastStage
    <3> QED
      BY <1>4, <3>1, <3>2, <3>3
  <2>2. PICK k \in Nat : k = 3 * PP + 3 /\ k + 1 = 3 * PP + 4
    BY <1>1
  <2>3. k \in 0 .. StageCount - 1 /\ StageCount = k + 1
    BY <1>1, <2>1, <2>2, LastStage
  <2>4. Head(stages) = Stage("invOdd", "p", 0) /\ Tail(stages) = <<>>
    <3>1. GpuTg2Stage(3 * PP + 4) = Stage("invOdd", "p", 0)
      BY <1>1, OtherStages
    <3>2. Head(After(k)) = GpuTg2Stage(k + 1) /\ Tail(After(k)) = After(k + 1)
      BY <1>1, <2>3, NextStage
    <3>3. After(k + 1) = <<>>
      BY <1>1, <2>3, LastStage
    <3> QED
      BY <2>1, <2>2, <3>1, <3>2, <3>3
  <2>5. Head(stages).op = "invOdd" /\ F = "p"
    BY <2>4 DEF Stage, F
  <2>6. StageDone \/ \E ct \in Threads : OddTask(ct)
    BY <1>4, <2>5, StepOf
  <2>7. CASE StageDone
    <3>1. /\ stages' = <<>> /\ next' = [ct \in Threads |-> ct]
          /\ group' = group /\ input' = input /\ page' = page /\ data' = data /\ holding' = holding
      BY <2>4, <2>7 DEF StageDone, EndStage
    <3>2. next' \in [Threads -> Nat]
      BY <3>1, NoneTaken
    <3> QED
      BY <3>1, <3>2
  <2>8. CASE \E ct \in Threads : OddTask(ct)
    <3>1. PICK ct \in Threads : OddTask(ct)
      BY <2>8
    <3>2. /\ next[ct] < Tpages /\ next' = [next EXCEPT ![ct] = @ + ctp_threads]
          /\ group' = group /\ input' = input /\ stages' = stages
          /\ page' = page /\ holding' = holding
      BY <2>5, <3>1 DEF OddTask, TakeTask, Tasks, At
    <3>3. next' \in [Threads -> Nat] /\ next[ct] \in 0 .. Tpages - 1
      BY <1>1, <1>2, <3>2, ThreadsAssumption
    <3> DEFINE ids == [i \in 0 .. PP - 1 |-> page["p"][next[ct] + i * Tpages]]
    <3>4. DOMAIN data' = DOMAIN data \cup {ids[i] : i \in 0 .. PP - 1}
      BY <2>5, <3>1 DEF OddTask, Write
    <3>5. \A i \in 0 .. PP - 1 : ids[i] \in IdsOf("p")
      <4>1. \A i \in 0 .. PP - 1 : next[ct] + i * Tpages \in Positions
        BY <3>3, PositionOf
      <4> QED
        BY <1>2, <4>1 DEF IdsOf, List
    <3>6. DOMAIN data' = DOMAIN data
      BY <1>2, <3>4, <3>5
    <3> QED
      BY <3>2, <3>3, <3>6
  <2> QED
    BY <2>6, <2>7, <2>8
<1>5. Goal
  BY <1>3, <1>4
<1>6. PP' = PP /\ Positions' = Positions /\ \A k : After(k)' = After(k)
  BY <1>5, SameGroup
<1>7. Given'
  <2>1. stages' = After(3 * PP + 3)' \/ stages' = <<>>
    BY <1>5, <1>6 DEF Given
  <2>2. IdsOf("p")' = IdsOf("p") /\ List("p")'
    BY <1>2, <1>5, <1>6 DEF IdsOf, List
  <2>3. holding' = Nothing' /\ page'["f0"] = noPages' /\ page'["f1"] = noPages'
    BY <1>2, <1>5 DEF Nothing, noPages
  <2>4. (3 * PP + 3)' = 3 * PP + 3
    BY <1>6
  <2> QED
    BY <1>2, <1>5, <1>6, <2>1, <2>2, <2>3, <2>4 DEF Given
<1>8. Tg2Shape'
  BY <1>5 DEF Tg2Shape
<1> QED
  BY <1>7, <1>8

-----------------------------------------------------------------------------
(* The theorems. *)

LEMMA Tg2Step ==
    ASSUME ThreadBits, Tg2Inv, Next
    PROVE  Tg2Inv'
<1>1. Tg2Shape /\ (Called \/ Filling \/ Passing \/ Given)
  BY DEF Tg2Inv
<1>2. CASE Called
  BY <1>1, <1>2, AllocStep DEF Tg2Inv
<1>3. CASE Filling
  BY <1>1, <1>3, FillStep DEF Tg2Inv
<1>4. CASE Passing
  <2>1. PICK T \in 0 .. PP, s \in 0 .. 2 :
          /\ stages = After(2 + 3 * T + s)
          /\ T = PP => s = 0
          /\ DOMAIN data = IdsOf("f0") \cup OddFrom(T)
    BY <1>4 DEF Passing
  <2>2. PICK m \in Nat : PP = 2 * m + 1
    BY <1>1, Numbers
  <2>3. CASE T = PP
    <3>1. 2 + 3 * T + s = 3 * PP + 2
      BY <2>1, <2>2, <2>3
    <3> QED
      BY <1>1, <1>4, <2>1, <2>3, <3>1, GiveStep DEF Tg2Inv
  <2>4. CASE T # PP
    <3>1. T \in 0 .. PP - 1
      BY <2>2, <2>4
    <3> QED
      BY <1>1, <1>4, <2>1, <3>1, PassStep DEF Tg2Inv
  <2> QED
    BY <2>3, <2>4
<1>5. CASE Given
  BY <1>1, <1>5, GivenStep DEF Tg2Inv
<1> QED
  BY <1>1, <1>2, <1>3, <1>4, <1>5

LEMMA Tg2Still ==
    ASSUME Tg2Inv, UNCHANGED vars
    PROVE  Tg2Inv'
<1>1. /\ group' = group /\ input' = input /\ stages' = stages /\ page' = page
      /\ data' = data /\ next' = next /\ holding' = holding
  BY DEF vars
<1>2. /\ PP' = PP /\ Pages' = Pages /\ Tpages' = Tpages
      /\ Positions' = Positions /\ Rounds' = Rounds
      /\ \A k : After(k)' = After(k)
  BY <1>1, SameGroup
<1>3. Tg2Shape' <=> Tg2Shape
  BY <1>1 DEF Tg2Shape
<1>4. Called' <=> Called
  BY <1>1, <1>2 DEF Called, Nothing, noPages
<1>5. \A f : IdsOf(f)' = IdsOf(f) /\ (List(f)' <=> List(f))
  BY <1>1, <1>2 DEF IdsOf, List
<1>6. \A t : (Taken(t)' <=> Taken(t))
  BY <1>1 DEF Taken
<1>7. Read' = Read
  BY <1>2, <1>6 DEF Read, TaskOf
<1>8. \A ct : (Thread(ct)' <=> Thread(ct))
  BY <1>1, <1>2 DEF Thread, Turn
<1>9. Stacked => Stacked'
  <2> SUFFICES ASSUME Stacked
               PROVE  Stacked'
    OBVIOUS
  <2>1. holding' \in [Threads -> Seq(Read')]
    BY <1>1, <1>7 DEF Stacked
  <2>2. IdsOf("f0")' = IdsOf("f0") /\ IdsOf("f1")' = IdsOf("f1")
    BY <1>5
  <2>3. IdsOf("f0")' \subseteq Read'
    BY <1>7, <2>2 DEF Stacked
  <2>4. \A ct, d \in Threads : \A i \in DOMAIN holding'[ct], j \in DOMAIN holding'[d] :
          holding'[ct][i] = holding'[d][j] => ct = d /\ i = j
    BY <1>1 DEF Stacked
  <2>5. \A ct \in Threads : \A i \in DOMAIN holding'[ct] : holding'[ct][i] \notin IdsOf("f0")'
    BY <1>1, <2>2 DEF Stacked
  <2>6. DOMAIN data' = Positions' \cup IdsOf("f1")' /\ IdsOf("f1")' \cap Positions' = {}
    BY <1>1, <1>2, <2>2 DEF Stacked
  <2> QED
    BY <2>1, <2>3, <2>4, <2>5, <2>6 DEF Stacked
<1>10. Replaced => Replaced'
  BY <1>1, <1>2, <1>5, <1>7 DEF Replaced, Nothing
<1>11. Filling => Filling'
  BY <1>1, <1>2, <1>5, <1>6, <1>8, <1>9, <1>10 DEF Filling
<1>12. \A T : OddFrom(T)' = OddFrom(T)
  BY <1>1, <1>2 DEF OddFrom
<1>13. Passing' <=> Passing
  BY <1>1, <1>2, <1>5, <1>12 DEF Passing, Nothing
<1>14. Given' <=> Given
  BY <1>1, <1>2, <1>5 DEF Given, Nothing, noPages
<1> QED
  BY <1>3, <1>4, <1>11, <1>13, <1>14 DEF Tg2Inv

\* Whatever the group, a call of gpu_tg2 is in one of its phases: called; filling
\* fe and fo task by task; passing over the blocks; or given to p.
THEOREM Tg2Invariant == ASSUME ThreadBits PROVE Tg2Spec => []Tg2Inv
<1>1. Tg2Init => Tg2Inv
  BY CallStarts
<1>2. Tg2Inv /\ [Next]_vars => Tg2Inv'
  BY Tg2Step, Tg2Still
<1> QED
  BY <1>1, <1>2, PTL DEF Tg2Spec

LEMMA InvHoldsOnce ==
    ASSUME ThreadBits, Tg2Inv
    PROVE  HeldOnce
<1>1. Tg2Shape /\ (Called \/ Filling \/ Passing \/ Given)
  BY DEF Tg2Inv
<1>2. PICK n \in Nat : n = Pages
  BY <1>1, Numbers
<1>3. CASE holding = Nothing /\ IdsOf("f0") \subseteq Nat
  <2>1. -1 \notin IdsOf("f0")
    BY <1>3
  <2>2. \A ct \in Threads : DOMAIN holding[ct] = {}
    BY <1>3 DEF Nothing
  <2> QED
    BY <2>1, <2>2 DEF HeldOnce
<1>4. Called \/ Given => IdsOf("f0") = {}
  BY DEF Called, Given, IdsOf, noPages
<1>5. CASE Called \/ Passing \/ Given
  BY <1>3, <1>4, <1>5 DEF Called, Passing, Given, List
<1>6. CASE Filling /\ PP = 1
  BY <1>3, <1>6 DEF Filling, Replaced
<1>7. CASE Filling /\ PP # 1
  <2>1. Stacked
    BY <1>7 DEF Filling
  <2>2. Read \subseteq Positions /\ -1 \notin Positions
    BY <1>2 DEF Read, Positions
  <2>3. -1 \notin IdsOf("f0")
    BY <2>1, <2>2 DEF Stacked
  <2>4. ASSUME NEW ct \in Threads, NEW i \in DOMAIN holding[ct]
        PROVE  /\ holding[ct][i] \in DOMAIN data
               /\ holding[ct][i] \notin IdsOf("f0") \cup IdsOf("f1")
               /\ \A d \in Threads : \A j \in DOMAIN holding[d] :
                    holding[d][j] = holding[ct][i] => d = ct /\ i = j
    <3>1. holding[ct] \in Seq(Read)
      BY <2>1 DEF Stacked
    <3>2. holding[ct][i] \in Read
      BY <3>1
    <3> QED
      BY <2>1, <2>2, <3>2 DEF Stacked
  <2> QED
    BY <2>3, <2>4 DEF HeldOnce
<1> QED
  BY <1>1, <1>5, <1>6, <1>7

\* The chunks that the device threads of gpu_tg2 keep for reuse are live, kept
\* once and on no list being written, and no stack is popped when it is empty:
\* for every group of odd p0 and p1, page size, number of threads and order of
\* the tasks, when each thread has as many tasks below the middle as above.
THEOREM HeldOnceCorrect == ASSUME ThreadBits PROVE Tg2Spec => []HeldOnce
<1>1. Tg2Inv => HeldOnce
  BY InvHoldsOnce
<1> QED
  BY <1>1, Tg2Invariant, PTL

LEMMA InvLosesNoChunk ==
    ASSUME ThreadBits, Tg2Inv
    PROVE  NoChunkLost
<1>1. Tg2Shape /\ (Called \/ Filling \/ Passing \/ Given)
  BY DEF Tg2Inv
<1>2. PICK m \in Nat : PP = 2 * m + 1 /\ Pages \in Nat
  BY <1>1, Numbers
<1> SUFFICES ASSUME stages = <<>>
             PROVE  /\ DOMAIN data = IdsOf("p")
                    /\ Cardinality(IdsOf("p")) = Pages
                    /\ \A f \in Polys \ {"p"} : page[f] = noPages
  BY <1>1 DEF NoChunkLost, Tg2Shape
<1>3. ASSUME NEW k \in 0 .. StageCount - 1
      PROVE  stages # After(k)
  BY <1>2, NextStage
<1>4. Given
  <2>1. 0 \in 0 .. StageCount - 1 /\ 1 \in 0 .. StageCount - 1
    BY <1>2 DEF StageCount
  <2>2. ASSUME NEW T \in 0 .. PP, NEW s \in 0 .. 2, T = PP => s = 0
        PROVE  2 + 3 * T + s \in 0 .. StageCount - 1
    BY <1>2, <2>2 DEF StageCount
  <2>3. ~Called /\ ~Filling
    BY <1>3, <2>1 DEF Called, Filling
  <2>4. ~Passing
    BY <1>3, <2>2 DEF Passing
  <2> QED
    BY <1>1, <2>3, <2>4
<1>5. Cardinality(IdsOf("p")) = Pages
  <2>1. Positions \in SUBSET Positions /\ DOMAIN page["p"] = Positions /\ IsInjective(page["p"])
    BY <1>4 DEF Given, List
  <2> QED
    BY <1>2, <2>1, IdsCounted
<1> QED
  BY <1>4, <1>5 DEF Given, Polys

\* When gpu_tg2 ends, the live chunks are those of p, each once: none is left
\* on a stack, in fe or fo, and none of the result's was deleted.
THEOREM NoChunkLostCorrect == ASSUME ThreadBits PROVE Tg2Spec => []NoChunkLost
<1>1. Tg2Inv => NoChunkLost
  BY InvLosesNoChunk
<1> QED
  BY <1>1, Tg2Invariant, PTL

=============================================================================
