------------------------------ MODULE PolyProofs ------------------------------
(***************************************************************************)
(* Of src/poly.cpp, for every size of polynomial and of page.  period_red  *)
(* with any number of threads: however the tasks are taken and their       *)
(* additions fall between each other, no thread comes to a page that has   *)
(* been deleted, and what is left in the end is what p lists.  sync and    *)
(* load, over the files of an earlier polynomial and with any directory,   *)
(* clearing, file, read or write that fails: what was stored comes back,   *)
(* or an error is returned, but for a load that cannot count the files.    *)
(***************************************************************************)
EXTENDS PolySafety, ArithmeticProofs

\* A call period_red(p, n, period, ratio): the size and the period have a row
\* of fft_group, and the pages of the size hold the period.
RedCall(F, n, a, period, ratio) ==
    /\ F.q \in Nat \ {0}
    /\ n \in Sizes /\ period \in Sizes
    /\ period <= fft_pages(n) * page_u64
    /\ ratio \in Int
    /\ Begin("red", F, n, a, [period |-> period, ratio |-> ratio])

RedInit == \E F, n, a, period, ratio : RedCall(F, n, a, period, ratio)
RedSpec == RedInit /\ [][Next]_vars

-----------------------------------------------------------------------------
(* The invariant. *)

P == input.x.period
R == fft_pages(input.n)             \* pages before
M == page_u64
T == Tasks(P)
Size(t) == IF t = T - 1 THEN P - t * M ELSE M

RedInput ==
    /\ input.op = "red" /\ input.n \in Sizes
    /\ input.x.period \in Sizes /\ input.x.ratio \in Int
    /\ field.q \in Nat \ {0}
    /\ P <= R * M

Reducing ==
    /\ calls = <<Red(input.n, input.x.period, input.x.ratio)>>
    /\ poly = [f \in Polys |-> IF f = "p" THEN [max |-> R, pages |-> R, page |-> [k \in 0 .. R - 1 |-> k]]
                                          ELSE noPoly]
    /\ made = R

\* A thread is at a multiple of the period from its page, and goes to the rest
\* of a segment only if there is one, on a page of p.
Threads == [at : {"seg", "rest"}, task : Nat, seg : Nat, ratio : Int]
WorkerTyped == worker \in [Workers -> {Idle} \cup Threads]
Placed(u) ==
    u # Idle =>
        /\ u.task \in 0 .. T - 1
        /\ \E j \in Nat \ {0} : u.seg = u.task * M + j * P
        /\ u.at = "rest" => /\ u.seg < R * M
                            /\ u.seg \div M + 1 < R
                            /\ M - (u.seg % M) < Size(u.task)
WorkerPlaced(w) == Placed(worker[w])

\* A task is in the list, with one thread, or done.
TasksOnce ==
    /\ left \subseteq 0 .. T - 1
    /\ \A v, w \in Workers : v # w /\ worker[v] # Idle /\ worker[w] # Idle =>
                                worker[v].task # worker[w].task
    /\ \A w \in Workers : worker[w] # Idle => worker[w].task \notin left

\* The coefficients already added: those of tasks done, and those that a
\* thread has passed.
ReachedAt(u) == IF u.at = "seg" THEN u.seg ELSE (u.seg \div M + 1) * M
Reached(w) == ReachedAt(worker[w])
Counted == {x \in P .. R * M - 1 :
              /\ (x % P) \div M \notin left
              /\ \A w \in Workers : worker[w] # Idle /\ worker[w].task = (x % P) \div M
                                      => x < Reached(w)}
CountedIn(k) == {x \in Counted : x \div M = k}

\* The coefficients of task t from lo up to h.
Ones(p, rm, m, t, lo, h) == {x \in p .. rm - 1 : (x % p) \div m = t /\ lo <= x /\ x < h}
Coming(t, lo, h) == Ones(P, R * M, M, t, lo, h)

\* chunk_used counts them page by page, and a page lives until all are.
CountExact == \A k \in 0 .. R - 1 : Used(k) = Cardinality(CountedIn(k))
LiveUntilUsed == DOMAIN data = {k \in 0 .. R - 1 : Used(k) < M}

\* The live pages are those p lists, once each, and no other polynomial's.
Listed ==
    /\ poly["p"].pages \in Nat
    /\ \A f \in Polys \ {"p"} : poly[f].pages = 0
    /\ \A i, j \in 0 .. poly["p"].pages - 1 : IdOf("p", i) = IdOf("p", j) => i = j
    /\ DOMAIN data = IdsOf("p", 0 .. poly["p"].pages - 1)

RedRunning == /\ Reducing /\ WorkerTyped /\ (\A w \in Workers : WorkerPlaced(w))
              /\ TasksOnce /\ CountExact /\ LiveUntilUsed

RedInv == RedInput /\ (RedRunning \/ (calls = <<>> /\ Listed))

-----------------------------------------------------------------------------
(* Numbers. *)

LEMMA MinOfTwo ==
    ASSUME NEW i \in Int, NEW j \in Int
    PROVE  Min({i, j}) = IF i <= j THEN i ELSE j
<1>1. i <= j => Min({i, j}) = i
  BY DEF Min
<1>2. ~(i <= j) => Min({i, j}) = j
  BY DEF Min
<1> QED
  BY <1>1, <1>2

\* Task t adds size coefficients of m a page, of a period p.
Shape(p, m, t, size) ==
    /\ p \in Nat /\ m \in Nat /\ t \in Nat /\ size \in Nat
    /\ 0 < size /\ size <= m /\ t * m + size <= p
    /\ size = m \/ t * m + size = p

\* The j-th segment of task t starts at s.
SegmentAt(p, m, t, size, j, s) ==
    /\ Shape(p, m, t, size)
    /\ j \in Nat /\ j >= 1 /\ s \in Nat /\ s = t * m + j * p

\* The coefficients of a task: of those from the start of a segment up to that
\* of the next, the first size ones.
LEMMA OfTask ==
    ASSUME NEW p, NEW m, NEW t, NEW size, NEW j, NEW s, SegmentAt(p, m, t, size, j, s),
           NEW x \in Nat
    PROVE  /\ s <= x /\ x < s + size => (x % p) \div m = t
           /\ s <= x /\ x < s + p /\ (x % p) \div m = t => x < s + size
<1>0. /\ p \in Nat /\ m \in Nat /\ t \in Nat /\ size \in Nat
      /\ 0 < m /\ 0 < size /\ size <= m /\ t * m + size <= p
      /\ size = m \/ t * m + size = p
      /\ j \in Nat /\ s \in Nat /\ s = t * m + j * p
  BY DEF Shape, SegmentAt
<1>1. PICK tm \in Nat : tm = t * m
  BY <1>0
<1>2. PICK jp \in Nat : jp = j * p /\ jp = p * j
  BY <1>0
<1>3. s = tm + jp /\ tm + size <= p /\ p > 0
  BY <1>0, <1>1, <1>2
<1>4. ASSUME s <= x, x < s + size
      PROVE  (x % p) \div m = t
  <2>1. PICK r \in Nat : r = x - jp /\ x = p * j + r /\ r < p
    BY <1>0, <1>2, <1>3, <1>4
  <2>2. x % p = r
    BY <1>0, <2>1, Remainder, Zenon
  <2>3. t * m <= r /\ r < t * m + m
    BY <1>0, <1>1, <1>2, <1>3, <1>4, <2>1
  <2> QED
    BY <1>0, <2>2, <2>3, PageOf
<1>5. ASSUME s <= x, x < s + p, (x % p) \div m = t
      PROVE  x < s + size
  <2>1. CASE x - jp < p
    <3>1. PICK r \in Nat : r = x - jp /\ x = p * j + r /\ r < p
      BY <1>0, <1>2, <1>3, <1>5, <2>1
    <3>2. x % p = r
      BY <1>0, <3>1, Remainder, Zenon
    <3>3. r < t * m + m
      BY <1>0, <1>5, <3>1, <3>2, PageOf
    <3> QED
      BY <1>0, <1>1, <1>3, <2>1, <3>1, <3>3
  <2>2. CASE ~(x - jp < p)
    <3>1. PICK r \in Nat : r = x - jp - p /\ r < p /\ r < tm
      BY <1>0, <1>3, <1>5, <2>2
    <3>2. PICK i \in Nat : i = j + 1
      BY <1>0
    <3>3. x = p * i + r
      BY <1>0, <1>2, <3>1, <3>2
    <3>4. x % p = r
      BY <1>0, <3>1, <3>3, Remainder, Zenon
    <3>5. t * m <= r
      BY <1>0, <1>5, <3>1, <3>4, PageOf
    <3> QED
      BY <1>0, <1>1, <3>1, <3>5
  <2> QED
    BY <1>0, <2>1, <2>2
<1> QED
  BY <1>4, <1>5

-----------------------------------------------------------------------------
(* The sizes of a call, and what its state is while the tasks run. *)

LEMMA RedNumbers ==
    ASSUME RedInput
    PROVE  /\ M \in Nat /\ M >= 2 /\ R \in Nat \ {0} /\ R * M \in Nat
           /\ P \in Nat /\ P >= 2 /\ P <= R * M
           /\ T \in Nat \ {0} /\ T <= R /\ (T - 1) * M < P /\ P <= T * M
           /\ \A t \in 0 .. T - 1 : /\ Size(t) \in Nat /\ 0 < Size(t) /\ Size(t) <= M
                                    /\ t * M + Size(t) <= P
                                    /\ Size(t) = M \/ t * M + Size(t) = P
<1>1. PICK m \in Nat : m = M /\ m >= 2
  BY PageSize DEF M
<1>2. PICK r \in Nat : r = R /\ r # 0 /\ r * m \in Nat
  BY <1>1, PagesHold DEF RedInput, R
<1>3. PICK p \in Nat : p = P /\ p >= 2 /\ p <= r * m
  <2>1. P \in 2 .. GroupSize(Len(OddGroups))
    BY DEF RedInput, P, Sizes
  <2> QED
    BY <1>1, <1>2, <2>1 DEF RedInput
<1>4. PICK q \in Nat, l \in Nat : q = (p - 1) \div m /\ l < m /\ p - 1 = m * q + l
  <2>1. p - 1 \in Nat /\ m > 0
    BY <1>1, <1>3
  <2> QED
    BY <2>1, Divided
<1>5. T = q + 1
  BY <1>1, <1>3, <1>4 DEF T, Tasks, M
<1>6. m * q = q * m /\ (q + 1) * m = q * m + m /\ q * m \in Nat
  BY <1>1, <1>4
<1>7. q * m < p /\ p <= (q + 1) * m
  BY <1>3, <1>4, <1>6
<1>8. q + 1 <= r
  <2>1. CASE r <= q
    <3>1. m * r <= m * q
      BY <2>1, ProductMonotone
    <3> QED
      BY <1>1, <1>2, <1>3, <1>6, <1>7, <3>1
  <2> QED
    BY <2>1
<1>9. ASSUME NEW t \in 0 .. q
      PROVE  LET size == IF t = q THEN p - t * m ELSE m
             IN /\ size \in Nat /\ 0 < size /\ size <= m /\ t * m + size <= p
                /\ size = m \/ t * m + size = p
  <2>1. CASE t = q
    BY <1>1, <1>3, <1>6, <1>7, <2>1
  <2>2. CASE t # q
    <3>1. m * t <= m * (q - 1) /\ m * (q - 1) = m * q - m /\ m * t = t * m
      BY <1>1, <2>2, ProductMonotone
    <3> QED
      BY <1>1, <1>3, <1>6, <1>7, <2>2, <3>1
  <2> QED
    BY <2>1, <2>2
<1>10. \A t \in 0 .. T - 1 : t \in 0 .. q /\ Size(t) = IF t = q THEN p - t * m ELSE m
  BY <1>1, <1>3, <1>5 DEF Size
<1>11. \A t \in 0 .. T - 1 : /\ Size(t) \in Nat /\ 0 < Size(t) /\ Size(t) <= M
                             /\ t * M + Size(t) <= P
                             /\ Size(t) = M \/ t * M + Size(t) = P
  BY <1>1, <1>3, <1>9, <1>10
<1> QED
  BY <1>1, <1>2, <1>3, <1>5, <1>7, <1>8, <1>11

LEMMA RedFrame ==
    ASSUME Reducing
    PROVE  /\ calls # <<>> /\ Head(calls).op = "red" /\ Tail(calls) = <<>>
           /\ TheCall.op = "red" /\ TheCall.x.ratio = input.x.ratio
           /\ Period = P /\ RedPages = R /\ \A t : TaskSize(t) = Size(t)
           /\ \A k \in 0 .. R - 1 : IdOf("p", k) = k
<1>1. /\ calls # <<>> /\ Tail(calls) = <<>>
      /\ TheCall = Red(input.n, input.x.period, input.x.ratio)
  BY DEF Reducing, TheCall
<1>2. /\ TheCall.op = "red" /\ TheCall.n = input.n
      /\ TheCall.x.period = input.x.period /\ TheCall.x.ratio = input.x.ratio
  BY <1>1 DEF Red, Call
<1>3. Period = P /\ RedPages = R
  BY <1>2 DEF Period, RedPages, P, R
<1>4. \A t : TaskSize(t) = Size(t)
  BY <1>3 DEF TaskSize, Size, T, M
<1>5. ASSUME NEW k \in 0 .. R - 1
      PROVE  IdOf("p", k) = k
  <2>1. poly["p"].page = [i \in 0 .. R - 1 |-> i]
    BY DEF Reducing, Polys
  <2> QED
    BY <2>1 DEF IdOf
<1> QED
  BY <1>1, <1>2, <1>3, <1>4, <1>5 DEF TheCall

\* A step is of the next call, and after the last there is none.
LEMMA CallSteps ==
    ASSUME Next
    PROVE  /\ At("red") => RedDone \/ \E w \in Workers : TakeTask(w) \/ Segment(w)
                                                        \/ SegmentRest(w) \/ TaskDone(w)
           /\ At("sync") => SyncPoly
           /\ At("load") => LoadPoly
           /\ calls = <<>> => UNCHANGED vars
<1> DEFINE Others == NewPoly \/ AllocPage \/ FreePage \/ CopyFrom
             \/ EvalPoly \/ Forward \/ ForwardMul \/ Backward \/ SquareRoots \/ ComposePoly
             \/ TakePages \/ CollectPoly \/ EnumRoots \/ SetRatio
             \/ KeepOddParts \/ TryOddPart \/ Tried
           Reds == RedDone \/ \E w \in Workers : TakeTask(w) \/ Segment(w)
                                                 \/ SegmentRest(w) \/ TaskDone(w)
<1>1. Others \/ SyncPoly \/ LoadPoly \/ Reds \/ Finished
  BY Zenon DEF Next
<1>2. ASSUME Others
      PROVE  calls # <<>> /\ ~At("red") /\ ~At("sync") /\ ~At("load")
  <2>1. NewPoly => At("new")
    BY DEF NewPoly
  <2>2. AllocPage => At("alloc")
    BY DEF AllocPage
  <2>3. FreePage => At("free")
    BY DEF FreePage
  <2>4. CopyFrom => At("copy")
    BY DEF CopyFrom
  <2>5. EvalPoly => At("eval")
    BY DEF EvalPoly
  <2>6. Forward => At("fft")
    BY DEF Forward
  <2>7. ForwardMul => At("fftMul")
    BY DEF ForwardMul
  <2>8. Backward => At("invfft")
    BY DEF Backward
  <2>9. SquareRoots => At("tg2")
    BY DEF SquareRoots
  <2>10. ComposePoly => At("compose")
    BY DEF ComposePoly
  <2>11. TakePages => At("take")
    BY DEF TakePages
  <2>12. CollectPoly => At("collect")
    BY DEF CollectPoly
  <2>13. EnumRoots => At("enum")
    BY DEF EnumRoots
  <2>14. SetRatio => At("ratio")
    BY DEF SetRatio
  <2>15. KeepOddParts => At("oddParts")
    BY DEF KeepOddParts
  <2>16. TryOddPart => At("try")
    BY DEF TryOddPart
  <2>17. Tried => At("try")
    BY DEF Tried
  <2>18. \E op \in {"new", "alloc", "free", "copy", "eval", "fft", "fftMul", "invfft", "tg2",
                    "compose", "take", "collect", "enum", "ratio", "oddParts", "try"} : At(op)
    BY <1>2, <2>1, <2>2, <2>3, <2>4, <2>5, <2>6, <2>7, <2>8, <2>9, <2>10, <2>11, <2>12, <2>13, <2>14, <2>15, <2>16, <2>17
  <2> QED
    BY <2>18 DEF At
<1>3. ASSUME Reds
      PROVE  At("red")
  <2>1. RedDone => At("red")
    BY DEF RedDone
  <2>2. \A w \in Workers : TakeTask(w) \/ Segment(w) \/ SegmentRest(w) \/ TaskDone(w)
                             => At("red")
    BY DEF TakeTask, Segment, SegmentRest, TaskDone
  <2> QED
    BY <1>3, <2>1, <2>2
<1>4. (SyncPoly => At("sync")) /\ (LoadPoly => At("load"))
  BY DEF SyncPoly, LoadPoly
<1>5. Finished => calls = <<>> /\ UNCHANGED vars
  BY DEF Finished
<1>6. /\ At("red") => calls # <<>> /\ ~At("sync") /\ ~At("load")
      /\ At("sync") => calls # <<>> /\ ~At("red") /\ ~At("load")
      /\ At("load") => calls # <<>> /\ ~At("red") /\ ~At("sync")
  BY DEF At
<1> HIDE DEF Others, Reds
<1>7. /\ At("red") => Reds
      /\ At("sync") => SyncPoly
      /\ At("load") => LoadPoly
      /\ calls = <<>> => UNCHANGED vars
  BY <1>1, <1>2, <1>3, <1>4, <1>5, <1>6, Zenon
<1> QED
  BY <1>7 DEF Reds

\* While the tasks run nothing else does.
LEMMA RedSteps ==
    ASSUME Next, Reducing
    PROVE  RedDone \/ \E w \in Workers : TakeTask(w) \/ Segment(w) \/ SegmentRest(w) \/ TaskDone(w)
<1>1. At("red")
  BY RedFrame DEF At
<1> QED
  BY <1>1, CallSteps, Zenon

-----------------------------------------------------------------------------
(* Counting. *)

LEMMA OnePage ==
    ASSUME NEW C \in SUBSET Nat, NEW m \in Nat, m > 0, NEW k \in Nat
    PROVE  /\ IsFiniteSet({x \in C : x \div m = k})
           /\ Cardinality({x \in C : x \div m = k}) \in Nat
           /\ Cardinality({x \in C : x \div m = k}) <= m
           /\ \A x \in Nat : x \div m = k /\ x \notin C => Cardinality({y \in C : y \div m = k}) < m
<1> DEFINE page == k * m .. k * m + m - 1
           in == {x \in C : x \div m = k}
<1>1. k * m \in Nat
  OBVIOUS
<1>2. IsFiniteSet(page) /\ Cardinality(page) = m
  <2>1. k * m \in Int /\ k * m + m - 1 \in Int /\ ~(k * m > k * m + m - 1)
    BY <1>1
  <2>2. Cardinality(page) = (k * m + m - 1) - k * m + 1
    BY <2>1, FS_Interval
  <2> QED
    BY <1>1, <2>1, <2>2, FS_Interval
<1>3. \A x \in Nat : x \div m = k => x \in page
  BY <1>1, PageOf
<1>4. in \subseteq page
  BY <1>3
<1>5. \A x : x \in in <=> x \in C /\ x \div m = k
  OBVIOUS
<1> HIDE DEF page, in
<1>6. IsFiniteSet(in) /\ Cardinality(in) <= Cardinality(page)
      /\ (Cardinality(page) = Cardinality(in) => page = in)
  BY <1>2, <1>4, FS_Subset
<1>7. Cardinality(in) \in Nat
  BY <1>6, FS_CardinalityType
<1>8. ASSUME NEW x \in Nat, x \div m = k, x \notin C
      PROVE  Cardinality(in) < m
  <2>1. page # in
    BY <1>3, <1>5, <1>8
  <2> QED
    BY <1>2, <1>6, <1>7, <2>1
<1> QED
  BY <1>2, <1>6, <1>7, <1>8 DEF in

LEMMA CountedFinite ==
    ASSUME RedInput, NEW k \in 0 .. R - 1
    PROVE  /\ IsFiniteSet(CountedIn(k)) /\ Cardinality(CountedIn(k)) \in Nat
           /\ Cardinality(CountedIn(k)) <= M
           /\ \A x \in Nat : x \div M = k /\ x \notin Counted => Cardinality(CountedIn(k)) < M
<1>1. M \in Nat /\ M > 0 /\ P \in Nat /\ k \in Nat /\ R * M \in Nat
  BY RedNumbers
<1>2. Counted \in SUBSET Nat
  BY <1>1 DEF Counted
<1> QED
  BY <1>1, <1>2, OnePage DEF CountedIn

\* The page of a task is never used up: its first coefficient is not added to
\* anything.
LEMMA TaskPageFirst ==
    ASSUME RedInput, NEW k \in 0 .. T - 1
    PROVE  k * M \in Nat /\ k * M < P /\ (k * M) \div M = k /\ k \in 0 .. R - 1
<1>1. PICK m \in Nat : m = M /\ m >= 2
  BY RedNumbers
<1>2. PICK t \in Nat : t = T /\ t # 0 /\ t <= R /\ (t - 1) * m < P /\ P \in Nat /\ R \in Nat
  BY <1>1, RedNumbers
<1>3. k * m < P
  <2>1. m * k <= m * (t - 1) /\ m * (t - 1) = (t - 1) * m /\ m * k = k * m
    BY <1>2, ProductMonotone
  <2> QED
    BY <1>1, <1>2, <2>1
<1>4. PICK x \in Nat : x = k * m
  BY <1>1
<1>5. x \div m = k
  BY <1>1, <1>4, PageOf
<1> QED
  BY <1>1, <1>2, <1>3, <1>4, <1>5

\* A thread that passes some coefficients of its task has counted those.
LEMMA CountedGrows ==
    ASSUME TasksOnce, UNCHANGED <<input, left>>,
           NEW w \in Workers, worker[w] # Idle, worker'[w] # Idle,
           worker'[w].task = worker[w].task,
           \A v \in Workers \ {w} : worker'[v] = worker[v],
           NEW f \in Nat, NEW h \in Nat, f <= h, Reached(w) = f, Reached(w)' = h,
           NEW S, S = Coming(worker[w].task, f, h)
    PROVE  Counted' = Counted \cup S /\ Counted \cap S = {}
<1>1. UNCHANGED <<P, R, M>>
  BY DEF P, R, M
<1>2. \A v \in Workers \ {w} : Reached(v)' = Reached(v)
  BY <1>1 DEF Reached, ReachedAt
<1>3. P \in Int /\ (R * M) - 1 \in Int => \A x \in P .. R * M - 1 : x \in Int
  OBVIOUS
<1>4. ASSUME NEW x
      PROVE  x \in Counted' <=> x \in Counted \/ x \in S
  <2>1. CASE x \notin P .. R * M - 1
    BY <1>1, <2>1 DEF Counted, Coming, Ones
  <2>2. CASE x \in P .. R * M - 1
    <3>1. CASE (x % P) \div M # worker[w].task
      <4>0. x \notin S
        BY <3>1 DEF Coming, Ones
      <4>1. x \in Counted' <=> /\ (x % P) \div M \notin left
                               /\ \A v \in Workers \ {w} : worker[v] # Idle /\ worker[v].task = (x % P) \div M
                                                             => x < Reached(v)
        BY <1>1, <1>2, <2>2, <3>1 DEF Counted
      <4>2. x \in Counted <=> /\ (x % P) \div M \notin left
                              /\ \A v \in Workers \ {w} : worker[v] # Idle /\ worker[v].task = (x % P) \div M
                                                            => x < Reached(v)
        BY <2>2, <3>1 DEF Counted
      <4> QED
        BY <3>1, <4>0, <4>1, <4>2
    <3>2. CASE (x % P) \div M = worker[w].task
      <4>1. (x % P) \div M \notin left
            /\ \A v \in Workers \ {w} : worker[v] # Idle => worker[v].task # (x % P) \div M
        BY <3>2 DEF TasksOnce
      <4>2. x \in Counted' <=> x < h
        BY <1>1, <2>2, <3>2, <4>1 DEF Counted
      <4>3. x \in Counted <=> x < f
        BY <2>2, <3>2, <4>1 DEF Counted
      <4>4. x \in Int
        BY <2>2
      <4>5. x \in S <=> f <= x /\ x < h
        BY <2>2, <3>2 DEF Coming, Ones
      <4> QED
        BY <4>2, <4>3, <4>4, <4>5
    <3> QED
      BY <3>1, <3>2
  <2> QED
    BY <2>1, <2>2
<1>5. ASSUME NEW x \in S
      PROVE  x \notin Counted
  BY DEF Counted, Coming, Ones
<1> QED
  BY <1>4, <1>5

\* chunk_used and the live pages after num coefficients of page k were added
\* that were not before.
LEMMA CountsGrow ==
    ASSUME RedInput, Reducing, CountExact, LiveUntilUsed, UNCHANGED input,
           NEW k \in 0 .. R - 1, NEW num \in Nat \ {0}, NEW lo \in Nat,
           k * M <= lo, lo + num <= k * M + M,
           Counted' = Counted \cup (lo .. lo + num - 1),
           Counted \cap (lo .. lo + num - 1) = {},
           chunk_used' = [j \in DOMAIN chunk_used \cup {k} |->
                            IF j = k THEN Used(k) + num ELSE chunk_used[j]],
           NEW task \in 0 .. T - 1,
           DOMAIN data' = DOMAIN data \ (IF k # task /\ UsedUp(Used(k) + num) THEN {k} ELSE {})
    PROVE  CountExact' /\ LiveUntilUsed'
<1>1. UNCHANGED <<P, R, M, T>>
  BY DEF P, R, M, T
<1>2. M \in Nat /\ M >= 2 /\ k \in Nat /\ k * M \in Nat
  BY RedNumbers
<1> DEFINE new == lo .. lo + num - 1
<1>3. \A x \in new : x \in Nat /\ x \div M = k
  <2>1. ASSUME NEW x \in new
        PROVE  x \in Nat /\ k * M <= x /\ x < k * M + M
    BY <1>2
  <2> QED
    BY <1>2, <2>1, PageOf
<1>4. IsFiniteSet(new) /\ Cardinality(new) = num
  <2>1. lo \in Int /\ lo + num - 1 \in Int /\ ~(lo > lo + num - 1)
    OBVIOUS
  <2>2. Cardinality(new) = (lo + num - 1) - lo + 1
    BY <2>1, FS_Interval
  <2> QED
    BY <2>1, <2>2, FS_Interval
<1> HIDE DEF new
<1>5. /\ \A i : i # k => CountedIn(i)' = CountedIn(i)
      /\ CountedIn(k)' = CountedIn(k) \cup new
      /\ CountedIn(k) \cap new = {}
  <2>1. Counted' = Counted \cup new /\ Counted \cap new = {}
    BY DEF new
  <2> QED
    BY <1>1, <1>3, <2>1 DEF CountedIn
<1>6. Cardinality(CountedIn(k)') = Cardinality(CountedIn(k)) + num
  <2>1. IsFiniteSet(CountedIn(k)) /\ Cardinality(CountedIn(k)) \in Nat
    BY CountedFinite
  <2>2. Cardinality(CountedIn(k) \cap new) = 0
    BY <1>5, FS_EmptySet
  <2>3. Cardinality(CountedIn(k) \cup new) =
           Cardinality(CountedIn(k)) + Cardinality(new) - Cardinality(CountedIn(k) \cap new)
    BY <1>4, <2>1, FS_Union
  <2> QED
    BY <1>4, <1>5, <2>1, <2>2, <2>3
<1>7. \A i \in 0 .. R - 1 : Used(i)' = IF i = k THEN Used(k) + num ELSE Used(i)
  BY DEF Used
<1>8. CountExact'
  <2>1. \A i \in 0 .. R - 1 : Used(i)' = Cardinality(CountedIn(i)')
    BY <1>5, <1>6, <1>7 DEF CountExact
  <2> QED
    BY <1>1, <2>1 DEF CountExact
<1>9. /\ Cardinality(CountedIn(k)') <= M
      /\ k = task => Cardinality(CountedIn(k)') < M
  <2>1. P \in Nat /\ R * M \in Nat /\ M > 0
    BY RedNumbers
  <2>2. Counted' \in SUBSET Nat /\ \A x \in Counted' : P <= x
    BY <1>1, <2>1 DEF Counted
  <2>3. CountedIn(k)' = {x \in Counted' : x \div M = k}
    BY <1>1 DEF CountedIn
  <2>4. k = task => k * M < P /\ (k * M) \div M = k
    BY TaskPageFirst
  <2>5. k = task => k * M \notin Counted'
    BY <1>2, <2>1, <2>2, <2>4
  <2> QED
    BY <1>2, <2>1, <2>2, <2>3, <2>4, <2>5, OnePage
<1>10. Used(k) + num <= M /\ (k = task => Used(k) + num < M) /\ Used(k) \in Nat
  <2>1. Used(k) = Cardinality(CountedIn(k)) /\ Used(k) \in Nat
    BY CountedFinite DEF CountExact
  <2> QED
    BY <1>6, <1>9, <2>1
<1>11. LiveUntilUsed'
  <2>1. ASSUME NEW i
        PROVE  i \in DOMAIN data' <=> i \in 0 .. R - 1 /\ Used(i)' < M
    <3>1. CASE i # k
      BY <1>7, <3>1 DEF LiveUntilUsed
    <3>2. CASE i = k
      <4>1. i \in DOMAIN data
        BY <1>2, <1>10, <3>2 DEF LiveUntilUsed
      <4>2. UsedUp(Used(k) + num) <=> Used(k) + num = M
        BY DEF UsedUp, M
      <4>3. Used(i)' = Used(k) + num
        BY <1>7, <3>2
      <4> QED
        BY <1>2, <1>10, <3>2, <4>1, <4>2, <4>3
    <3> QED
      BY <3>1, <3>2
  <2>2. \A i : i \in DOMAIN data' <=> i \in {j \in 0 .. R - 1 : Used(j)' < M}
    BY <2>1
  <2>3. DOMAIN data' = {j \in 0 .. R - 1 : Used(j)' < M}
    BY <2>2
  <2> QED
    BY <1>1, <2>3 DEF LiveUntilUsed
<1> QED
  BY <1>8, <1>11

-----------------------------------------------------------------------------
(* The steps of the threads. *)

\* What a thread does not change.
LEMMA ThreadFrame ==
    ASSUME RedInput, Reducing, UNCHANGED <<field, input, calls, poly, made>>
    PROVE  RedInput' /\ Reducing' /\ UNCHANGED <<P, R, M, T>>
           /\ \A t : Size(t)' = Size(t)
<1>1. UNCHANGED <<P, R, M, T>>
  BY DEF P, R, M, T
<1>2. RedInput'
  BY <1>1 DEF RedInput
<1>3. Reducing'
  BY <1>1 DEF Reducing
<1> QED
  BY <1>1, <1>2, <1>3 DEF Size

\* One step of a thread moves that thread only.
LEMMA OneMoves ==
    ASSUME WorkerTyped, \A v \in Workers : WorkerPlaced(v), RedInput, Reducing,
           UNCHANGED <<field, input, calls, poly, made>>,
           NEW w \in Workers, NEW to,
           to \in {Idle} \cup Threads,
           worker' = [worker EXCEPT ![w] = to], Placed(to)
    PROVE  /\ WorkerTyped' /\ (\A v \in Workers : WorkerPlaced(v)')
           /\ worker'[w] = to /\ \A v \in Workers \ {w} : worker'[v] = worker[v]
<1>1. worker'[w] = to /\ \A v \in Workers \ {w} : worker'[v] = worker[v]
  BY DEF WorkerTyped
<1>2. WorkerTyped'
  BY DEF WorkerTyped
<1>3. UNCHANGED <<P, R, M, T>> /\ \A t : Size(t)' = Size(t)
  BY ThreadFrame
<1>4. WorkerPlaced(w)'
  BY <1>1, <1>3 DEF WorkerPlaced, Placed
<1>5. ASSUME NEW v \in Workers \ {w}
      PROVE  WorkerPlaced(v)'
  <2>1. WorkerPlaced(v)
    OBVIOUS
  <2> QED
    BY <1>1, <1>3, <2>1 DEF WorkerPlaced, Placed
<1> QED
  BY <1>1, <1>2, <1>4, <1>5

LEMMA TaskTaken ==
    ASSUME RedInput, RedRunning, NEW w \in Workers, TakeTask(w)
    PROVE  RedInput' /\ RedRunning'
<1>1. PICK t \in left \ FetchedBut(w) :
        /\ left' = left \ {t}
        /\ worker' = [worker EXCEPT ![w] = [at |-> "seg", task |-> t,
                        seg |-> t * M + P, ratio |-> input.x.ratio]]
        /\ UNCHANGED <<field, input, calls, poly, made, chunk_used, data>>
        /\ worker[w] = Idle
  BY RedFrame DEF TakeTask, RedRunning, M
<1>2. t \in 0 .. T - 1 /\ t \in Nat /\ t \in left
      /\ \A v \in Workers \ {w} : worker[v] # Idle => worker[v].task # t
  <2>1. t \in left /\ left \subseteq 0 .. T - 1
    BY DEF RedRunning, TasksOnce
  <2>2. ASSUME NEW v \in Workers \ {w}, worker[v] # Idle
        PROVE  worker[v].task # t
    BY <2>2 DEF FetchedBut
  <2>3. T \in Nat
    BY RedNumbers
  <2>4. t \in 0 .. T - 1
    BY <2>1
  <2> QED
    BY <2>1, <2>2, <2>3, <2>4
<1> DEFINE to == [at |-> "seg", task |-> t, seg |-> t * M + P, ratio |-> input.x.ratio]
<1>3. M \in Nat /\ P \in Nat /\ R * M \in Nat /\ P > 0 /\ M > 0
  BY RedNumbers
<1>4. t * M \in Nat /\ t * M + P \in Nat /\ t * M + P = t * M + 1 * P
  BY <1>2, <1>3
<1>5. /\ to \in Threads
      /\ to.task = t /\ to.seg = t * M + 1 * P /\ to.at = "seg"
  BY <1>2, <1>4 DEF RedInput, Threads
<1>6. to # Idle
  BY DEF Idle
<1>7. \E j \in Nat \ {0} : to.seg = to.task * M + j * P
  <2>1. 1 \in Nat \ {0}
    OBVIOUS
  <2> QED
    BY <1>5, <2>1
<1>8. /\ RedInput' /\ Reducing' /\ UNCHANGED <<P, R, M, T>>
  BY <1>1, ThreadFrame DEF RedRunning
<1> HIDE DEF to
<1>9. /\ WorkerTyped' /\ (\A v \in Workers : WorkerPlaced(v)')
      /\ worker'[w] = to /\ \A v \in Workers \ {w} : worker'[v] = worker[v]
  <2>1. worker' = [worker EXCEPT ![w] = to]
    BY <1>1 DEF to
  <2>2. to \in {Idle} \cup Threads
    BY <1>5
  <2>3. Placed(to)
    BY <1>2, <1>5, <1>7 DEF Placed
  <2> QED
    BY <1>1, <2>1, <2>2, <2>3, OneMoves DEF RedRunning
<1>10. TasksOnce'
  BY <1>1, <1>2, <1>5, <1>8, <1>9 DEF RedRunning, TasksOnce
<1>11. Counted' = Counted
  <2>1. Reached(w)' = t * M + P
    BY <1>4, <1>5, <1>8, <1>9 DEF Reached, ReachedAt
  <2>2. \A v \in Workers \ {w} : Reached(v)' = Reached(v)
    BY <1>8, <1>9 DEF Reached, ReachedAt
  <2>3. ASSUME NEW x \in P .. R * M - 1, (x % P) \div M = t
        PROVE  x \notin Counted' /\ x \notin Counted
    <3>1. x \in Nat /\ P <= x
      BY <1>3
    <3>2. PICK q \in Nat, r \in Nat : q = x \div P /\ r = x % P /\ r < P /\ x = P * q + r
      BY <1>3, <3>1, Divided
    <3>3. t * M <= r
      BY <1>2, <1>3, <2>3, <3>2, PageOf
    <3>4. P * 1 <= P * q
      <4>1. CASE q = 0
        BY <1>3, <3>1, <3>2, <4>1
      <4> QED
        BY <1>3, <3>2, <4>1, ProductMonotone
    <3>5. ~(x < t * M + P)
      BY <1>3, <1>4, <3>2, <3>3, <3>4
    <3>6. x \notin Counted'
      BY <1>5, <1>6, <1>8, <1>9, <2>1, <2>3, <3>5 DEF Counted
    <3>7. x \notin Counted
      BY <1>2, <2>3 DEF Counted
    <3> QED
      BY <3>6, <3>7
  <2>4. ASSUME NEW x \in P .. R * M - 1, (x % P) \div M # t
        PROVE  x \in Counted' <=> x \in Counted
    <3>1. x \in Counted' <=> /\ (x % P) \div M \notin left
                             /\ \A v \in Workers \ {w} : worker[v] # Idle /\ worker[v].task = (x % P) \div M
                                                           => x < Reached(v)
      BY <1>1, <1>5, <1>8, <1>9, <2>2, <2>4 DEF Counted
    <3>2. x \in Counted <=> /\ (x % P) \div M \notin left
                            /\ \A v \in Workers \ {w} : worker[v] # Idle /\ worker[v].task = (x % P) \div M
                                                          => x < Reached(v)
      BY <1>1 DEF Counted
    <3> QED
      BY <3>1, <3>2
  <2>5. \A x : x \in Counted' \/ x \in Counted => x \in P .. R * M - 1
    BY <1>8 DEF Counted
  <2> QED
    BY <2>3, <2>4, <2>5
<1>12. CountExact' /\ LiveUntilUsed'
  <2>1. \A k : CountedIn(k)' = CountedIn(k) /\ Used(k)' = Used(k)
    BY <1>1, <1>8, <1>11 DEF CountedIn, Used
  <2> QED
    BY <1>1, <1>8, <2>1 DEF RedRunning, CountExact, LiveUntilUsed
<1> QED
  BY <1>8, <1>9, <1>10, <1>12 DEF RedRunning

\* A thread that adds the num coefficients from lo on, its next ones, to its
\* page, and goes on to `to'.
LEMMA SegmentKeeps ==
    ASSUME RedInput, RedRunning, NEW w \in Workers, worker[w] # Idle,
           NEW k \in 0 .. R - 1, NEW pos, NEW from, NEW num \in Nat \ {0}, NEW to,
           AddSegment(w, k, pos, from, num, to),
           to \in Threads,
           to # Idle, to.task = worker[w].task, Placed(to),
           NEW lo \in Nat, Reached(w) = lo, k * M <= lo, lo + num <= k * M + M,
           NEW h \in Nat, h = ReachedAt(to), lo <= h,
           Coming(worker[w].task, lo, h) = lo .. lo + num - 1
    PROVE  RedInput' /\ RedRunning'
<1>1. /\ worker' = [worker EXCEPT ![w] = to]
      /\ UNCHANGED <<field, input, calls, poly, made, left>>
      /\ chunk_used' = [j \in DOMAIN chunk_used \cup {k} |->
                          IF j = k THEN Used(k) + num ELSE chunk_used[j]]
      /\ DOMAIN data' = DOMAIN data \ (IF k # worker[w].task /\ UsedUp(Used(k) + num)
                                       THEN {IdOf("p", k)} ELSE {})
  BY DEF AddSegment, Without, Stored
<1>2. IdOf("p", k) = k
  BY RedFrame DEF RedRunning
<1>3. worker[w].task \in 0 .. T - 1
  BY DEF RedRunning, WorkerPlaced, Placed
<1>4. /\ RedInput' /\ Reducing' /\ UNCHANGED <<P, R, M, T>>
  BY <1>1, ThreadFrame DEF RedRunning
<1>5. /\ WorkerTyped' /\ (\A v \in Workers : WorkerPlaced(v)')
      /\ worker'[w] = to /\ \A v \in Workers \ {w} : worker'[v] = worker[v]
  BY <1>1, <1>3, OneMoves DEF RedRunning
<1>6. TasksOnce'
  BY <1>1, <1>4, <1>5 DEF RedRunning, TasksOnce
<1>7. Reached(w)' = h
  BY <1>4, <1>5 DEF Reached, ReachedAt
<1>8. /\ Counted' = Counted \cup (lo .. lo + num - 1)
      /\ Counted \cap (lo .. lo + num - 1) = {}
  <2> DEFINE S == Coming(worker[w].task, lo, h)
  <2>1. Counted' = Counted \cup S /\ Counted \cap S = {}
    BY <1>1, <1>5, <1>7, CountedGrows DEF RedRunning
  <2> QED
    BY <2>1
<1>9. CountExact' /\ LiveUntilUsed'
  <2>1. DOMAIN data' = DOMAIN data \ (IF k # worker[w].task /\ UsedUp(Used(k) + num) THEN {k} ELSE {})
    BY <1>1, <1>2
  <2> QED
    BY <1>1, <1>3, <1>8, <2>1, CountsGrow DEF RedRunning
<1> QED
  BY <1>4, <1>5, <1>6, <1>9 DEF RedRunning

\* Of the segment at s num coefficients follow from lo on, and then either h,
\* or its end, or that of the last page.
Ahead(p, rm, size, s, lo, num, h) ==
    /\ rm \in Nat /\ lo \in Nat /\ num \in Nat \ {0} /\ h \in Nat
    /\ s <= lo /\ lo + num <= s + size /\ lo + num <= rm /\ lo + num <= h /\ h <= s + p
    /\ h = lo + num \/ lo + num = s + size \/ lo + num = rm

LEMMA NextOnes ==
    ASSUME NEW p, NEW m, NEW t, NEW size, NEW j, NEW s, SegmentAt(p, m, t, size, j, s),
           NEW rm, NEW lo, NEW num, NEW h, Ahead(p, rm, size, s, lo, num, h)
    PROVE  Ones(p, rm, m, t, lo, h) = lo .. lo + num - 1
<1> USE DEF SegmentAt, Ahead
<1>0. ASSUME NEW x \in Nat
      PROVE  /\ s <= x /\ x < s + size => (x % p) \div m = t
             /\ s <= x /\ x < s + p /\ (x % p) \div m = t => x < s + size
  BY OfTask
<1> USE DEF Shape
<1>1. p <= s
  <2>1. p * 1 <= p * j /\ p * j = j * p /\ t * m \in Nat /\ p * j \in Nat
    BY ProductMonotone
  <2> QED
    BY <2>1
<1>2. ASSUME NEW x \in lo .. lo + num - 1
      PROVE  x \in p .. rm - 1 /\ (x % p) \div m = t /\ lo <= x /\ x < h
  <2>1. x \in Nat /\ s <= x /\ x < s + size
    OBVIOUS
  <2>2. (x % p) \div m = t
    BY <1>0, <2>1, Zenon
  <2> QED
    BY <1>1, <2>1, <2>2
<1>3. ASSUME NEW x \in p .. rm - 1, (x % p) \div m = t, lo <= x, x < h
      PROVE  x \in lo .. lo + num - 1
  <2>1. x \in Nat /\ s <= x /\ x < s + p
    BY <1>3
  <2>2. x < s + size
    BY <1>0, <1>3, <2>1, Zenon
  <2> QED
    BY <1>3, <2>1, <2>2
<1> QED
  BY <1>2, <1>3 DEF Ones

\* Where a thread is: at the j-th multiple of the period from its task t, at
\* pos of page k, which ends at e.
ThreadLinks(w, t, j, s, k, pos, size, m, p, r, rm, e) ==
    /\ m = M /\ p = P /\ r = R /\ rm = R * M
    /\ t = worker[w].task /\ t \in 0 .. T - 1 /\ size = Size(t) /\ Shape(p, m, t, size)
    /\ s = worker[w].seg /\ s = t * m + j * p /\ s = t * M + j * P
    /\ k = worker[w].seg \div M /\ pos = worker[w].seg % M
    /\ k = SegPage(w) /\ pos = SegPos(w)
    /\ e = k * M + M /\ e = (k + 1) * M
ThreadNumbers(w, j, s, k, pos, size, m, p, r, rm, e) ==
    /\ m >= 2 /\ 0 < size /\ size <= m /\ size <= p
    /\ p <= s /\ j >= 1 /\ pos < m /\ s + m = e + pos /\ k < r /\ e <= rm
    /\ k + 1 < r => e + m <= rm
    /\ k + 1 = r => e = rm
    /\ SegNum(w) = IF size <= m - pos THEN size ELSE m - pos
ThreadAt(w, t, j, s, k, pos, size, m, p, r, rm, e) ==
    /\ ThreadLinks(w, t, j, s, k, pos, size, m, p, r, rm, e)
    /\ ThreadNumbers(w, j, s, k, pos, size, m, p, r, rm, e)

LEMMA ThreadPlace ==
    ASSUME RedInput, RedRunning, NEW w \in Workers, worker[w] # Idle,
           worker[w].seg < R * M
    PROVE  \E t, j, s, k, pos, size, m, p, r, rm, e \in Nat :
              ThreadAt(w, t, j, s, k, pos, size, m, p, r, rm, e)
<1>1. PICK m, p, r, rm \in Nat : /\ m = M /\ p = P /\ r = R /\ rm = r * m /\ p <= rm /\ m >= 2
  BY RedNumbers
<1>2. PICK t, s \in Nat : t = worker[w].task /\ t \in 0 .. T - 1 /\ s = worker[w].seg
  <2>1. worker[w] \in Threads
    BY DEF RedRunning, WorkerTyped, Idle, Threads
  <2> QED
    BY <2>1 DEF RedRunning, WorkerPlaced, Placed, Threads, Placed
<1>3. PICK j \in Nat : j >= 1 /\ s = t * m + j * p
  <2>1. \E j \in Nat \ {0} : worker[w].seg = worker[w].task * M + j * P
    BY DEF RedRunning, WorkerPlaced, Placed
  <2> QED
    BY <1>1, <1>2, <2>1
<1>4. PICK size \in Nat : /\ size = Size(t) /\ 0 < size /\ size <= m /\ t * m + size <= p
                          /\ (size = m \/ t * m + size = p)
  BY <1>1, <1>2, RedNumbers
<1>5. PICK k, pos \in Nat : k = s \div m /\ pos = s % m /\ pos < m /\ s = m * k + pos
  BY <1>1, Divided
<1>6. k = SegPage(w) /\ pos = SegPos(w)
  BY <1>1, <1>2, <1>5 DEF SegPage, SegPos, M
<1>7. s < rm
  BY <1>1, <1>2
<1>8. m * k = k * m /\ (k + 1) * m = k * m + m /\ r * m = m * r /\ (k + 1) * m = m * (k + 1)
      /\ k * m \in Nat
  OBVIOUS
<1>9. k < r
  <2>1. CASE r <= k
    <3>1. m * r <= m * k
      BY <2>1, ProductMonotone
    <3> QED
      BY <1>1, <1>5, <1>7, <1>8, <3>1
  <2> QED
    BY <2>1
<1>10. k * m + m <= rm
  <2>1. m * (k + 1) <= m * r
    BY <1>9, ProductMonotone
  <2> QED
    BY <1>1, <1>8, <2>1
<1>11. k + 1 < r => k * m + m + m <= rm
  <2>1. ASSUME k + 1 < r
        PROVE  m * (k + 2) <= m * r
    BY <2>1, ProductMonotone
  <2>2. m * (k + 2) = k * m + m + m
    OBVIOUS
  <2> QED
    BY <1>1, <1>8, <2>1, <2>2
<1>12. k + 1 = r => k * m + m = rm
  BY <1>1, <1>8
<1>13. p <= s /\ size <= p
  <2>1. p * 1 <= p * j /\ p * j = j * p /\ t * m \in Nat /\ p * j \in Nat
    BY <1>3, ProductMonotone
  <2> QED
    BY <1>3, <1>4, <2>1
<1>14. SegNum(w) = IF size <= m - pos THEN size ELSE m - pos
  <2>1. SegNum(w) = Min({size, m - pos})
    <3>1. TaskSize(worker[w].task) = size
      BY <1>2, <1>4, RedFrame DEF RedRunning
    <3> QED
      BY <1>1, <1>6, <3>1 DEF SegNum, M
  <2> QED
    BY <1>5, <2>1, MinOfTwo
<1>15. s = k * m + pos
  BY <1>5, <1>8
<1>16. Shape(p, m, t, size)
  BY <1>4 DEF Shape
<1>17. PICK e \in Nat : e = k * m + m /\ e = (k + 1) * m
  BY <1>8
<1>18. ThreadLinks(w, t, j, s, k, pos, size, m, p, r, rm, e)
  BY <1>1, <1>2, <1>3, <1>4, <1>5, <1>6, <1>16, <1>17 DEF ThreadLinks
<1>19. ThreadNumbers(w, j, s, k, pos, size, m, p, r, rm, e)
  BY <1>1, <1>3, <1>4, <1>5, <1>9, <1>10, <1>11, <1>12, <1>13, <1>14, <1>15, <1>17 DEF ThreadNumbers
<1>20. ThreadAt(w, t, j, s, k, pos, size, m, p, r, rm, e)
  BY <1>18, <1>19 DEF ThreadAt
<1> QED
  BY <1>20, Zenon

\* The places a thread goes to from a segment at s: the same segment's rest,
\* or the next segment.
LEMMA RestPlace ==
    ASSUME NEW w \in Workers, worker[w] \in Threads,
           worker[w].task \in 0 .. T - 1,
           \E j \in Nat \ {0} : worker[w].seg = worker[w].task * M + j * P,
           worker[w].seg < R * M, worker[w].seg \div M + 1 < R,
           M - (worker[w].seg % M) < Size(worker[w].task)
    PROVE  LET to == [worker[w] EXCEPT !.at = "rest"]
           IN /\ to \in Threads /\ to # Idle /\ to.task = worker[w].task /\ Placed(to)
              /\ ReachedAt(to) = (worker[w].seg \div M + 1) * M
<1> DEFINE to == [worker[w] EXCEPT !.at = "rest"]
<1>1. /\ to \in Threads /\ to # Idle
      /\ to.task = worker[w].task /\ to.seg = worker[w].seg /\ to.at = "rest"
  BY DEF Threads, Idle
<1> HIDE DEF to
<1>2. Placed(to)
  BY <1>1 DEF Placed
<1>3. ReachedAt(to) = (worker[w].seg \div M + 1) * M
  BY <1>1 DEF ReachedAt
<1> QED
  BY <1>1, <1>2, <1>3 DEF to

LEMMA NextPlace ==
    ASSUME RedInput, Reducing, NEW w \in Workers, worker[w] \in Threads,
           worker[w].task \in 0 .. T - 1,
           NEW j \in Nat \ {0}, worker[w].seg = worker[w].task * M + j * P
    PROVE  /\ NextSegment(w) \in Threads /\ NextSegment(w) # Idle
           /\ NextSegment(w).task = worker[w].task /\ Placed(NextSegment(w))
           /\ ReachedAt(NextSegment(w)) = worker[w].seg + P
<1> DEFINE to == NextSegment(w)
           u == worker[w]
<1>1. P \in Nat /\ M \in Nat
  BY RedNumbers
<1>2. u.seg \in Nat /\ u.ratio \in Int /\ u.task \in Nat
  BY DEF Threads
<1>3. PICK ratio \in Int : ratio = (u.ratio * TheCall.x.ratio) % field.q
  <2>1. TheCall.x.ratio \in Int /\ field.q \in Nat \ {0}
    BY RedFrame DEF RedInput
  <2>2. PICK y \in Int : y = u.ratio * TheCall.x.ratio
    BY <1>2, <2>1
  <2> QED
    BY <2>1, <2>2, DivMod
<1>4. /\ to \in Threads /\ to # Idle
      /\ to.task = u.task /\ to.seg = u.seg + P /\ to.at = "seg"
  <2>1. to = [u EXCEPT !.at = "seg", !.seg = u.seg + P, !.ratio = ratio]
    BY <1>3, RedFrame DEF NextSegment
  <2>2. u.seg + P \in Nat
    BY <1>1, <1>2
  <2> HIDE DEF to
  <2> QED
    BY <1>2, <2>1, <2>2 DEF Threads, Idle
<1>5. to.seg = to.task * M + (j + 1) * P
  BY <1>1, <1>2, <1>4
<1> HIDE DEF to
<1>6. Placed(to)
  <2>1. j + 1 \in Nat \ {0}
    OBVIOUS
  <2> QED
    BY <1>4, <1>5, <2>1 DEF Placed
<1>7. ReachedAt(to) = u.seg + P
  BY <1>4 DEF ReachedAt
<1> QED
  BY <1>4, <1>6, <1>7 DEF to

LEMMA SegmentAdded ==
    ASSUME RedInput, RedRunning, NEW w \in Workers, Segment(w)
    PROVE  RedInput' /\ RedRunning'
<1>1. /\ worker[w] # Idle /\ worker[w].at = "seg" /\ worker[w].seg < R * M
      /\ AddSegment(w, SegPage(w), SegPos(w), 0, SegNum(w),
           IF SegNum(w) < Size(worker[w].task) /\ SegPage(w) # R - 1
           THEN [worker[w] EXCEPT !.at = "rest"] ELSE NextSegment(w))
  BY RedFrame DEF Segment, RedRunning, Idle, M
<1>2. PICK t, j, s, k, pos, size, m, p, r, rm, e \in Nat :
              ThreadAt(w, t, j, s, k, pos, size, m, p, r, rm, e)
  BY <1>1, ThreadPlace, Zenon
<1>3. ThreadLinks(w, t, j, s, k, pos, size, m, p, r, rm, e)
  BY <1>2 DEF ThreadAt
<1>4. ThreadNumbers(w, j, s, k, pos, size, m, p, r, rm, e)
  BY <1>2 DEF ThreadAt
<1>5. worker[w] \in Threads
  BY <1>1 DEF RedRunning, WorkerTyped
<1>6. /\ worker[w].task \in 0 .. T - 1
      /\ worker[w].seg = worker[w].task * M + j * P
      /\ worker[w].seg \div M = k /\ worker[w].seg % M = pos
  BY <1>3, Zenon DEF ThreadLinks
<1>7. j \in Nat \ {0}
  BY <1>4 DEF ThreadNumbers
<1>8. PICK num \in Nat \ {0} : /\ num = SegNum(w) /\ num <= size /\ num <= m - pos
                               /\ num = size \/ num = m - pos
  BY <1>4 DEF ThreadNumbers
<1>9. /\ s + num <= e /\ s + num <= rm /\ s + num <= s + size /\ s + num <= s + p
      /\ p <= s /\ e <= s + m
      /\ num < size /\ k # r - 1 => e = s + num /\ k + 1 < r /\ m - pos < size
      /\ ~(num < size /\ k # r - 1) => s + num = s + size \/ s + num = rm
  BY <1>4, <1>8 DEF ThreadNumbers
<1>10. k \in 0 .. R - 1 /\ k * M <= s /\ s + num <= k * M + M
  <2>1. r = R /\ e = k * M + M /\ m = M
    BY <1>3, Zenon DEF ThreadLinks
  <2>2. PICK km \in Int : km = k * M
    BY <2>1
  <2>3. k \in 0 .. r - 1 /\ s + m = e + pos
    BY <1>4 DEF ThreadNumbers
  <2> QED
    BY <1>9, <2>1, <2>2, <2>3
<1>11. Reached(w) = s
  BY <1>1, <1>3 DEF ThreadLinks, Reached, ReachedAt
<1>12. ASSUME NEW h \in Nat, s + num <= h, h <= s + p,
             h = s + num \/ s + num = s + size \/ s + num = rm
      PROVE  Coming(worker[w].task, s, h) = s .. s + num - 1
  <2>1. SegmentAt(p, m, t, size, j, s)
    BY <1>3, <1>7 DEF ThreadLinks, SegmentAt
  <2>2. Ones(p, rm, m, t, s, h) = s .. s + num - 1
    <3>1. Ahead(p, rm, size, s, s, num, h)
      BY <1>9, <1>12 DEF Ahead
    <3> QED
      BY <2>1, <3>1, NextOnes
  <2>3. p = P /\ rm = R * M /\ m = M /\ t = worker[w].task
    BY <1>3 DEF ThreadLinks
  <2> QED
    BY <2>2, <2>3 DEF Coming
<1>13. CASE num < size /\ k # r - 1
  <2> DEFINE to == [worker[w] EXCEPT !.at = "rest"]
  <2>1. SegNum(w) = num /\ SegPage(w) = k /\ SegPos(w) = pos
        /\ Size(worker[w].task) = size /\ R = r /\ M = m
    BY <1>3, <1>8, Zenon DEF ThreadLinks
  <2>2. AddSegment(w, k, pos, 0, num, to)
    BY <1>1, <1>13, <2>1
  <2>3. /\ worker[w].seg \div M + 1 < R
        /\ M - (worker[w].seg % M) < Size(worker[w].task)
    BY <1>6, <1>9, <1>13, <2>1
  <2>4. /\ to \in Threads /\ to # Idle /\ to.task = worker[w].task /\ Placed(to)
        /\ ReachedAt(to) = (worker[w].seg \div M + 1) * M
    BY <1>1, <1>5, <1>6, <1>7, <2>3, RestPlace
  <2> HIDE DEF to
  <2>5. e = ReachedAt(to)
    BY <1>3, <1>6, <2>4 DEF ThreadLinks
  <2>6. Coming(worker[w].task, s, e) = s .. s + num - 1
    BY <1>9, <1>12, <1>13
  <2>7. s <= e
    BY <1>9, <1>13
  <2> QED
    BY <1>1, <1>10, <1>11, <2>2, <2>4, <2>5, <2>6, <2>7, SegmentKeeps
<1>14. CASE ~(num < size /\ k # r - 1)
  <2> DEFINE to == NextSegment(w)
  <2>1. SegNum(w) = num /\ SegPage(w) = k /\ SegPos(w) = pos
        /\ Size(worker[w].task) = size /\ R = r /\ M = m
    BY <1>3, <1>8, Zenon DEF ThreadLinks
  <2>2. AddSegment(w, k, pos, 0, num, to)
    BY <1>1, <1>14, <2>1
  <2>3. /\ to \in Threads /\ to # Idle /\ to.task = worker[w].task /\ Placed(to)
        /\ ReachedAt(to) = worker[w].seg + P
    BY <1>5, <1>6, <1>7, NextPlace DEF RedRunning
  <2> HIDE DEF to
  <2>4. PICK h \in Nat : h = s + p
    OBVIOUS
  <2>5. h = ReachedAt(to)
    BY <1>3, <2>3, <2>4 DEF ThreadLinks
  <2>6. Coming(worker[w].task, s, h) = s .. s + num - 1
    BY <1>9, <1>12, <1>14, <2>4
  <2>7. s <= h
    BY <2>4
  <2> QED
    BY <1>1, <1>10, <1>11, <2>2, <2>3, <2>5, <2>6, <2>7, SegmentKeeps
<1> QED
  BY <1>13, <1>14

LEMMA RestAdded ==
    ASSUME RedInput, RedRunning, NEW w \in Workers, SegmentRest(w)
    PROVE  RedInput' /\ RedRunning'
<1>1. /\ worker[w] # Idle /\ worker[w].at = "rest"
      /\ AddSegment(w, SegPage(w) + 1, 0, SegNum(w), Size(worker[w].task) - SegNum(w), NextSegment(w))
  BY RedFrame DEF SegmentRest, RedRunning, Idle
<1>2. /\ worker[w].seg < R * M /\ worker[w].seg \div M + 1 < R
      /\ M - (worker[w].seg % M) < Size(worker[w].task)
  BY <1>1 DEF RedRunning, WorkerPlaced, Placed
<1>3. PICK t, j, s, k, pos, size, m, p, r, rm, e \in Nat :
              ThreadAt(w, t, j, s, k, pos, size, m, p, r, rm, e)
  BY <1>1, <1>2, ThreadPlace, Zenon
<1>4. ThreadLinks(w, t, j, s, k, pos, size, m, p, r, rm, e)
  BY <1>3 DEF ThreadAt
<1>5. ThreadNumbers(w, j, s, k, pos, size, m, p, r, rm, e)
  BY <1>3 DEF ThreadAt
<1>6. worker[w] \in Threads
  BY <1>1 DEF RedRunning, WorkerTyped
<1>7. /\ worker[w].task \in 0 .. T - 1
      /\ worker[w].seg = worker[w].task * M + j * P
      /\ worker[w].seg \div M = k /\ worker[w].seg % M = pos
      /\ SegPage(w) = k /\ Size(worker[w].task) = size /\ R = r /\ M = m /\ P = p
      /\ worker[w].seg = s
  BY <1>4, Zenon DEF ThreadLinks
<1>8. j \in Nat \ {0}
  BY <1>5 DEF ThreadNumbers
<1>9. k + 1 < r /\ m - pos < size
  BY <1>2, <1>7
<1>10. PICK num \in Nat \ {0} : num = size - SegNum(w) /\ num = size - (m - pos)
  BY <1>5, <1>9 DEF ThreadNumbers
<1>11. /\ e + num = s + size /\ e + num <= e + m /\ e + num <= rm /\ s <= e
       /\ e + num <= s + size /\ e + num <= s + p /\ e <= s + p
  BY <1>5, <1>9, <1>10 DEF ThreadNumbers
<1>12. PICK i \in Nat : i = k + 1
  BY <1>3
<1>13. i \in 0 .. R - 1 /\ i * M <= e /\ e + num <= i * M + M
  <2>1. e = i * M
    BY <1>4, <1>12 DEF ThreadLinks
  <2> QED
    BY <1>7, <1>9, <1>11, <1>12, <2>1
<1>14. Reached(w) = e
  BY <1>1, <1>4, <1>7 DEF ThreadLinks, Reached, ReachedAt
<1> DEFINE to == NextSegment(w)
<1>15. AddSegment(w, i, 0, SegNum(w), num, to)
  BY <1>1, <1>7, <1>10, <1>12
<1>16. /\ to \in Threads /\ to # Idle /\ to.task = worker[w].task /\ Placed(to)
       /\ ReachedAt(to) = worker[w].seg + P
  BY <1>6, <1>7, <1>8, NextPlace DEF RedRunning
<1> HIDE DEF to
<1>17. PICK h \in Nat : h = s + p
  OBVIOUS
<1>18. h = ReachedAt(to)
  BY <1>7, <1>16, <1>17
<1>19. Coming(worker[w].task, e, h) = e .. e + num - 1
  <2>1. SegmentAt(p, m, t, size, j, s)
    BY <1>4, <1>8 DEF ThreadLinks, SegmentAt
  <2>2. Ahead(p, rm, size, s, e, num, h)
    BY <1>11, <1>17 DEF Ahead
  <2>3. Ones(p, rm, m, t, e, h) = e .. e + num - 1
    BY <2>1, <2>2, NextOnes
  <2>4. p = P /\ rm = R * M /\ m = M /\ t = worker[w].task
    BY <1>4 DEF ThreadLinks
  <2> QED
    BY <2>3, <2>4 DEF Coming
<1>20. e <= h
  BY <1>11, <1>17
<1> QED
  BY <1>1, <1>13, <1>14, <1>15, <1>16, <1>18, <1>19, <1>20, SegmentKeeps

LEMMA TaskEnded ==
    ASSUME RedInput, RedRunning, NEW w \in Workers, TaskDone(w)
    PROVE  RedInput' /\ RedRunning'
<1>1. /\ worker' = [worker EXCEPT ![w] = Idle]
      /\ UNCHANGED <<field, input, calls, poly, made, left, chunk_used, data>>
      /\ worker[w] # Idle /\ worker[w].at = "seg" /\ worker[w].seg >= R * M
  BY RedFrame DEF TaskDone, RedRunning, Idle, M
<1>2. /\ RedInput' /\ Reducing' /\ UNCHANGED <<P, R, M, T>>
  BY <1>1, ThreadFrame DEF RedRunning
<1>3. /\ WorkerTyped' /\ (\A v \in Workers : WorkerPlaced(v)')
      /\ worker'[w] = Idle /\ \A v \in Workers \ {w} : worker'[v] = worker[v]
  <2>1. Placed(Idle)
    BY DEF Placed
  <2> QED
    BY <1>1, <2>1, OneMoves DEF RedRunning
<1>4. TasksOnce'
  BY <1>1, <1>2, <1>3 DEF RedRunning, TasksOnce
<1>5. Counted' = Counted
  <2>1. Reached(w) = worker[w].seg /\ worker[w].seg \in Nat
    BY <1>1 DEF Reached, ReachedAt, RedRunning, WorkerTyped, Threads
  <2>2. \A x \in P .. R * M - 1 : x < Reached(w)
    BY <1>1, <2>1, RedNumbers
  <2>3. \A v \in Workers \ {w} : Reached(v)' = Reached(v)
    BY <1>2, <1>3 DEF Reached, ReachedAt
  <2>4. ASSUME NEW x \in P .. R * M - 1
        PROVE  x \in Counted' <=> x \in Counted
    <3>1. x \in Counted' <=> /\ (x % P) \div M \notin left
                             /\ \A v \in Workers \ {w} : worker[v] # Idle /\ worker[v].task = (x % P) \div M
                                                           => x < Reached(v)
      BY <1>1, <1>2, <1>3, <2>3 DEF Counted
    <3>2. x \in Counted <=> /\ (x % P) \div M \notin left
                            /\ \A v \in Workers \ {w} : worker[v] # Idle /\ worker[v].task = (x % P) \div M
                                                          => x < Reached(v)
      BY <2>2 DEF Counted
    <3> QED
      BY <3>1, <3>2
  <2>5. \A x : x \in Counted' \/ x \in Counted => x \in P .. R * M - 1
    BY <1>2 DEF Counted
  <2> QED
    BY <2>4, <2>5
<1>6. CountExact' /\ LiveUntilUsed'
  <2>1. \A k : CountedIn(k)' = CountedIn(k) /\ Used(k)' = Used(k)
    BY <1>1, <1>2, <1>5 DEF CountedIn, Used
  <2> QED
    BY <1>1, <1>2, <2>1 DEF RedRunning, CountExact, LiveUntilUsed
<1> QED
  BY <1>2, <1>3, <1>4, <1>6 DEF RedRunning

-----------------------------------------------------------------------------
(* The beginning and the end. *)

\* Nothing is counted of a page whose coefficients are all of tasks in the list.
LEMMA RedStarts == RedInit => RedInv
<1> SUFFICES ASSUME NEW F, NEW n, NEW a, NEW period, NEW ratio,
                    RedCall(F, n, a, period, ratio)
             PROVE  RedInv
  BY DEF RedInit
<1> DEFINE x == [period |-> period, ratio |-> ratio]
<1>1. Begin("red", F, n, a, x)
  BY DEF RedCall
<1>2. /\ field = F /\ input = [op |-> "red", n |-> n, a |-> a, x |-> x]
      /\ input.op = "red" /\ input.n = n /\ input.x.period = period /\ input.x.ratio = ratio
  BY <1>1 DEF Begin
<1>3. P = period /\ R = fft_pages(n)
  BY <1>2 DEF P, R
<1>4. RedInput
  BY <1>2, <1>3 DEF RedCall, RedInput, M
<1>5. CodeOf("red", n, x) = <<Red(n, period, ratio)>>
  BY DEF CodeOf
<1>6. calls = <<Red(n, period, ratio)>>
  BY <1>1, <1>5 DEF Begin
<1>7. Head(calls).op = "red" /\ Head(calls).x.period = period
  BY <1>6 DEF Red, Call
<1>8. left = 0 .. T - 1
  BY <1>1, <1>3, <1>7 DEF Begin, T
<1>9. /\ poly = [f \in Polys |-> IF f = "p" THEN [max |-> R, pages |-> R, page |-> [k \in 0 .. R - 1 |-> k]]
                                            ELSE noPoly]
      /\ made = R /\ DOMAIN data = 0 .. R - 1
      /\ worker = [w \in Workers |-> Idle] /\ chunk_used = [k \in {} |-> 0]
  BY <1>1, <1>3 DEF Begin
<1>10. Reducing
  BY <1>2, <1>6, <1>9 DEF Reducing
<1>11. WorkerTyped /\ (\A w \in Workers : WorkerPlaced(w)) /\ TasksOnce
  BY <1>8, <1>9 DEF WorkerTyped, WorkerPlaced, Placed, TasksOnce
<1>12. Counted = {}
  <2>1. ASSUME NEW i \in P .. R * M - 1
        PROVE  (i % P) \div M \in left
    <3>1. i \in Nat /\ P \in Nat /\ P > 0 /\ M \in Nat /\ M > 0 /\ T \in Nat /\ P <= T * M
      BY <1>4, RedNumbers
    <3>2. PICK q \in Nat, r \in Nat : r = i % P /\ r < P
      BY <3>1, Divided
    <3>3. PICK t \in Nat, l \in Nat : t = r \div M /\ l < M /\ r = M * t + l
      BY <3>1, Divided
    <3>4. t < T
      <4>1. CASE T <= t
        <5>1. M * T <= M * t /\ M * T = T * M
          BY <3>1, <4>1, ProductMonotone
        <5>2. PICK mt \in Nat : mt = M * t
          BY <3>1
        <5> QED
          BY <3>1, <3>2, <3>3, <5>1, <5>2
      <4> QED
        BY <3>1, <4>1
    <3> QED
      BY <1>8, <3>1, <3>2, <3>3, <3>4
  <2> QED
    BY <2>1 DEF Counted
<1>13. CountExact
  <2>1. \A k : CountedIn(k) = {} /\ Used(k) = 0
    BY <1>9, <1>12 DEF CountedIn, Used
  <2> QED
    BY <2>1, FS_EmptySet DEF CountExact
<1>14. LiveUntilUsed
  <2>1. \A k : Used(k) = 0
    BY <1>9 DEF Used
  <2>2. M \in Nat /\ M > 0
    BY <1>4, RedNumbers
  <2> QED
    BY <1>9, <2>1, <2>2 DEF LiveUntilUsed
<1> QED
  BY <1>4, <1>10, <1>11, <1>13, <1>14 DEF RedInv, RedRunning

\* Once no task is left the pages that live are those of the period.
LEMMA PagesLeft ==
    ASSUME RedInput, RedRunning, left = {}, \A w \in Workers : worker[w] = Idle
    PROVE  DOMAIN data = 0 .. T - 1
<1>1. Counted = P .. R * M - 1
  BY DEF Counted
<1>2. PICK m, p, r, t \in Nat : /\ m = M /\ m >= 2 /\ p = P /\ p >= 2 /\ r = R
                                /\ t = T /\ t <= r /\ t # 0 /\ p <= t * m /\ r * m \in Nat
  BY RedNumbers
<1>3. ASSUME NEW k \in 0 .. T - 1
      PROVE  k \in 0 .. R - 1 /\ Used(k) < M
  <2>1. k * M \in Nat /\ k * M < P /\ (k * M) \div M = k /\ k \in 0 .. R - 1
    BY TaskPageFirst
  <2>2. k * M \notin Counted
    BY <1>1, <1>2, <2>1
  <2>3. Cardinality(CountedIn(k)) < M
    BY <2>1, <2>2, CountedFinite
  <2> QED
    BY <2>1, <2>3 DEF RedRunning, CountExact
<1>4. ASSUME NEW k \in 0 .. R - 1, k \notin 0 .. T - 1
      PROVE  Used(k) = M
  <2>1. k \in Nat /\ t <= k /\ k + 1 <= r
    BY <1>2, <1>4
  <2>2. PICK km \in Nat : km = k * m
    BY <2>1
  <2>3. p <= km /\ km + m <= r * m
    <3>1. m * t <= m * k /\ m * (k + 1) <= m * r
      BY <2>1, ProductMonotone
    <3>2. m * t = t * m /\ m * k = k * m /\ m * (k + 1) = k * m + m /\ m * r = r * m
      BY <2>1
    <3> QED
      BY <1>2, <2>2, <3>1, <3>2
  <2>4. CountedIn(k) = km .. km + m - 1
    <3>1. \A x \in Nat : x \div m = k <=> km <= x /\ x < km + m
      BY <1>2, <2>1, <2>2, PageOf
    <3>2. CountedIn(k) = {x \in p .. r * m - 1 : x \div m = k}
      BY <1>1, <1>2 DEF CountedIn
    <3>3. PICK rm \in Nat : rm = r * m
      BY <1>2
    <3>4. \A x : x \in p .. rm - 1 /\ x \div m = k <=> x \in km .. km + m - 1
      BY <1>2, <2>3, <3>1, <3>3
    <3> QED
      BY <3>2, <3>3, <3>4
  <2>5. Cardinality(km .. km + m - 1) = m
    <3>1. km \in Int /\ km + m - 1 \in Int /\ ~(km > km + m - 1) /\ (km + m - 1) - km + 1 = m
      BY <1>2
    <3> QED
      BY <3>1, FS_Interval
  <2> QED
    BY <1>2, <2>4, <2>5 DEF RedRunning, CountExact
<1>5. \A k : k \in DOMAIN data <=> k \in 0 .. R - 1 /\ Used(k) < M
  BY DEF RedRunning, LiveUntilUsed
<1>6. ASSUME NEW k
      PROVE  k \in DOMAIN data <=> k \in 0 .. T - 1
  BY <1>2, <1>3, <1>4, <1>5
<1> QED
  BY <1>6

\* p gets pages of its own for those it lacks of the new size.
LEMMA TasksOver ==
    ASSUME RedInput, RedRunning, RedDone
    PROVE  RedInput' /\ calls' = <<>> /\ Listed'
<1> DEFINE n == fft_pages(P)
           cut == [poly EXCEPT !["p"].pages = T]
           more == Added(cut, "p", n)
<1>1. /\ left = {} /\ (\A w \in Workers : worker[w] = Idle)
      /\ poly' = Grown(cut, "p", n)
      /\ DOMAIN data' = DOMAIN data \cup made .. made + more - 1
      /\ calls' = <<>> /\ UNCHANGED <<field, input>>
  <2>1. Tasks(Period) - 1 + 1 = T /\ Period = P
    <3>1. T \in Nat /\ T = Tasks(P)
      BY RedNumbers DEF T
    <3> QED
      BY <3>1, RedFrame DEF RedRunning
  <2>2. left = {} /\ (\A w \in Workers : worker[w] = Idle)
    BY DEF RedDone
  <2>3. poly' = Grown(cut, "p", n)
    BY <2>1 DEF RedDone
  <2>4. DOMAIN data' = DOMAIN data \cup made .. made + more - 1
    BY <2>1 DEF RedDone, With
  <2>5. calls' = <<>> /\ UNCHANGED <<field, input>>
    BY RedFrame DEF RedDone, EndCall, Start, RedRunning
  <2> QED
    BY <2>2, <2>3, <2>4, <2>5
<1>2. RedInput'
  <2>1. UNCHANGED <<P, R, M>>
    BY <1>1 DEF P, R, M
  <2> QED
    BY <1>1, <2>1 DEF RedInput
<1>3. DOMAIN data = 0 .. T - 1
  BY <1>1, PagesLeft
<1>4. PICK t, r, size \in Nat : t = T /\ r = R /\ size = n /\ t <= r /\ t # 0
  <2>1. n \in Nat
    BY PagesHold DEF RedInput, P
  <2> QED
    BY <2>1, RedNumbers
<1>5. /\ cut["p"] = [max |-> r, pages |-> t, page |-> [k \in 0 .. r - 1 |-> k]]
      /\ \A f \in Polys \ {"p"} : cut[f] = noPoly
      /\ cut \in [Polys -> {cut[f] : f \in Polys}]
      /\ made = r
  BY <1>4 DEF RedRunning, Reducing, Polys
<1>6. PICK added \in Nat : /\ added = more /\ added = IF size > r \/ size <= t THEN 0 ELSE size - t
                           /\ t + added <= r
  BY <1>4, <1>5 DEF Added
<1>7. /\ poly'["p"].pages = t + added
      /\ poly'["p"].page = [k \in 0 .. r - 1 |-> IF k \in t .. t + added - 1 THEN r + k - t ELSE k]
      /\ \A f \in Polys \ {"p"} : poly'[f].pages = 0
  <2> DEFINE pages == IF n > cut["p"].max \/ n < cut["p"].pages THEN cut["p"].pages ELSE n
             new == cut["p"].pages .. cut["p"].pages + more - 1
             page == [k \in DOMAIN cut["p"].page \cup new |->
                        IF k \in new THEN made + k - cut["p"].pages ELSE cut["p"].page[k]]
  <2>1. poly' = [cut EXCEPT !["p"].pages = pages, !["p"].page = page]
    BY <1>1 DEF Grown
  <2>2. pages = t + added
    BY <1>4, <1>5, <1>6
  <2>3. page = [k \in 0 .. r - 1 |-> IF k \in t .. t + added - 1 THEN r + k - t ELSE k]
    <3>1. new = t .. t + added - 1 /\ \A k \in new : k \in 0 .. r - 1
      BY <1>4, <1>5, <1>6
    <3> HIDE DEF new, cut, more
    <3>2. DOMAIN cut["p"].page = 0 .. r - 1 /\ DOMAIN cut["p"].page \cup new = 0 .. r - 1
      BY <1>5, <3>1
    <3>3. \A k \in 0 .. r - 1 : (IF k \in new THEN made + k - cut["p"].pages ELSE cut["p"].page[k])
                                   = IF k \in new THEN r + k - t ELSE k
      BY <1>4, <1>5
    <3> QED
      BY <3>1, <3>2, <3>3
  <2> HIDE DEF pages, page, cut, more
  <2>4. DOMAIN cut = Polys /\ "p" \in Polys
    BY <1>5 DEF Polys
  <2>5. poly'["p"].pages = pages /\ poly'["p"].page = page
    BY <1>5, <2>1, <2>4
  <2>6. ASSUME NEW f \in Polys \ {"p"}
        PROVE  poly'[f].pages = 0
    <3>1. poly'[f] = cut[f]
      BY <2>1, <2>4
    <3> QED
      BY <1>5, <3>1 DEF noPoly
  <2> QED
    BY <2>2, <2>3, <2>5, <2>6
<1>8. \A k \in 0 .. t + added - 1 : IdOf("p", k)' = IF k < t THEN k ELSE r + k - t
  BY <1>6, <1>7 DEF IdOf
<1>9. DOMAIN data' = 0 .. t - 1 \cup r .. r + added - 1
  BY <1>1, <1>3, <1>4, <1>5, <1>6
<1>10. DOMAIN data' = IdsOf("p", 0 .. t + added - 1)'
  <2> DEFINE id(k) == IF k < t THEN k ELSE r + k - t
  <2>1. \A k \in 0 .. t + added - 1 : IdOf("p", k)' = id(k)
    BY <1>8
  <2>2. IdsOf("p", 0 .. t + added - 1)' = {IdOf("p", k)' : k \in 0 .. t + added - 1}
    BY DEF IdsOf
  <2>3. IdsOf("p", 0 .. t + added - 1)' = {id(k) : k \in 0 .. t + added - 1}
    <3> HIDE DEF id
    <3> QED
      BY <2>1, <2>2
  <2>4. ASSUME NEW i \in 0 .. t - 1 \cup r .. r + added - 1
        PROVE  \E k \in 0 .. t + added - 1 : i = id(k)
    <3>1. CASE i < t
      BY <1>4, <1>6, <3>1
    <3>2. CASE ~(i < t)
      <4>1. i - r + t \in 0 .. t + added - 1 /\ i = id(i - r + t)
        BY <1>4, <1>6, <3>2
      <4> QED
        BY <4>1
    <3> QED
      BY <3>1, <3>2
  <2>5. ASSUME NEW k \in 0 .. t + added - 1
        PROVE  id(k) \in 0 .. t - 1 \cup r .. r + added - 1
    BY <1>4, <1>6
  <2> HIDE DEF id
  <2> QED
    BY <1>9, <2>3, <2>4, <2>5
<1>11. Listed'
  <2>1. ASSUME NEW i \in 0 .. t + added - 1, NEW j \in 0 .. t + added - 1,
               IdOf("p", i)' = IdOf("p", j)'
        PROVE  i = j
    <3>1. /\ IdOf("p", i)' = IF i < t THEN i ELSE r + i - t
          /\ IdOf("p", j)' = IF j < t THEN j ELSE r + j - t
      BY <1>8
    <3>2. /\ i < t /\ j < t => i = j
          /\ ~(i < t) /\ ~(j < t) => r + i - t = r + j - t
          /\ i < t /\ ~(j < t) => i = r + j - t
          /\ ~(i < t) /\ j < t => r + i - t = j
      BY <2>1, <3>1
    <3> QED
      BY <1>4, <3>2
  <2>2. poly'["p"].pages = t + added /\ t + added \in Nat
    BY <1>7
  <2> QED
    BY <1>7, <1>10, <2>1, <2>2 DEF Listed
<1> QED
  BY <1>1, <1>2, <1>11

-----------------------------------------------------------------------------
(* The theorems. *)

\* However the tasks of period_red are taken and their additions fall between
\* each other, chunk_used counts of each page what has been added of it, and
\* the pages that live are those that have not been added in full.
THEOREM RedInvariant == RedSpec => []RedInv
<1>1. RedInit => RedInv
  BY RedStarts
<1>2. RedInv /\ [Next]_vars => RedInv'
  <2> SUFFICES ASSUME RedInv, [Next]_vars
               PROVE  RedInv'
    OBVIOUS
  <2>1. ASSUME UNCHANGED vars
        PROVE  RedInv'
    <3>1. UNCHANGED <<field, input, calls, poly, made, left, worker, chunk_used, data>>
      BY <2>1 DEF vars
    <3>2. UNCHANGED <<P, R, M, T>> /\ \A t : Size(t)' = Size(t)
      BY <3>1 DEF P, R, M, T, Size
    <3>3. RedInput'
      BY <3>1, <3>2 DEF RedInv, RedInput
    <3>4. RedRunning => RedRunning'
      <4>1. \A k : CountedIn(k)' = CountedIn(k) /\ Used(k)' = Used(k)
        BY <3>1, <3>2 DEF CountedIn, Counted, Reached, ReachedAt, Used
      <4> QED
        BY <3>1, <3>2, <4>1
           DEF RedRunning, Reducing, WorkerTyped, WorkerPlaced, Placed, TasksOnce, CountExact, LiveUntilUsed
    <3>5. Listed => Listed'
      BY <3>1 DEF Listed, IdsOf, IdOf
    <3> QED
      BY <3>1, <3>3, <3>4, <3>5 DEF RedInv
  <2>2. ASSUME Next
        PROVE  RedInv'
    <3>1. CASE calls = <<>>
      BY <2>1, <2>2, <3>1, CallSteps
    <3>2. CASE calls # <<>>
      <4>1. RedInput /\ RedRunning
        BY <3>2 DEF RedInv
      <4>2. RedDone \/ \E w \in Workers : TakeTask(w) \/ Segment(w) \/ SegmentRest(w) \/ TaskDone(w)
        BY <2>2, <4>1, RedSteps DEF RedRunning
      <4>3. CASE RedDone
        BY <4>1, <4>3, TasksOver DEF RedInv
      <4>4. ASSUME NEW w \in Workers, TakeTask(w) \/ Segment(w) \/ SegmentRest(w) \/ TaskDone(w)
            PROVE  RedInput' /\ RedRunning'
        BY <4>1, <4>4, TaskTaken, SegmentAdded, RestAdded, TaskEnded
      <4> QED
        BY <4>2, <4>3, <4>4 DEF RedInv
    <3> QED
      BY <3>1, <3>2
  <2> QED
    BY <2>1, <2>2
<1> QED
  BY <1>1, <1>2, PTL DEF RedSpec

\* No thread of period_red comes to a page after the thread that used it up:
\* the coefficient it comes to has not been counted.
THEOREM FetchedLiveCorrect == RedSpec => []FetchedLive
<1>1. RedInv => FetchedLive
  <2> SUFFICES ASSUME RedInv
               PROVE  FetchedLive
    OBVIOUS
  <2>1. CASE calls = <<>>
    BY <2>1 DEF FetchedLive, Fetched
  <2>2. CASE calls # <<>>
    <3>1. RedInput /\ RedRunning
      BY <2>2 DEF RedInv
    <3> DEFINE page(w) == SegPage(w) + (IF worker[w].at = "rest" THEN 1 ELSE 0)
    <3>2. Fetched = {IdOf("p", worker[w].task) : w \in {w \in Workers : worker[w] # Idle}}
                    \cup {IdOf("p", page(w)) : w \in {w \in Workers :
                              worker[w] # Idle /\ worker[w].seg < R * M}}
      <4>1. TheCall.op = "red" /\ RedPages * page_u64 = R * M
        BY <3>1, RedFrame DEF RedRunning, M
      <4> QED
        BY <2>2, <4>1 DEF Fetched
    <3>3. ASSUME NEW k \in 0 .. R - 1, NEW x \in Nat, x \div M = k, x \notin Counted
          PROVE  IdOf("p", k) \in DOMAIN data
      <4>1. Cardinality(CountedIn(k)) < M
        BY <3>1, <3>3, CountedFinite
      <4>2. IdOf("p", k) = k
        BY <3>1, RedFrame DEF RedRunning
      <4> QED
        BY <3>1, <4>1, <4>2 DEF RedRunning, CountExact, LiveUntilUsed
    <3>4. ASSUME NEW w \in Workers, worker[w] # Idle
          PROVE  IdOf("p", worker[w].task) \in DOMAIN data
      <4>1. PICK k \in 0 .. T - 1 : k = worker[w].task
        BY <3>1, <3>4 DEF RedRunning, WorkerPlaced, Placed
      <4>2. k * M \in Nat /\ k * M < P /\ (k * M) \div M = k /\ k \in 0 .. R - 1
        BY <3>1, TaskPageFirst
      <4>3. k * M \notin Counted
        <5>1. P \in Nat /\ R * M \in Nat
          BY <3>1, RedNumbers
        <5> QED
          BY <4>2, <5>1 DEF Counted
      <4> QED
        BY <3>3, <4>1, <4>2, <4>3
    <3>5. ASSUME NEW w \in Workers, worker[w] # Idle, worker[w].seg < R * M
          PROVE  IdOf("p", page(w)) \in DOMAIN data
      <4>1. PICK t, j, s, k, pos, size, m, p, r, rm, e \in Nat :
                    ThreadAt(w, t, j, s, k, pos, size, m, p, r, rm, e)
        BY <3>1, <3>5, ThreadPlace, Zenon
      <4>2. ThreadLinks(w, t, j, s, k, pos, size, m, p, r, rm, e)
        BY <4>1 DEF ThreadAt
      <4>3. ThreadNumbers(w, j, s, k, pos, size, m, p, r, rm, e)
        BY <4>1 DEF ThreadAt
      <4>4. worker[w] \in Threads
        BY <3>1, <3>5 DEF RedRunning, WorkerTyped
      <4>5. /\ page(w) \in 0 .. r - 1 /\ Reached(w) \in Nat
            /\ page(w) * m <= Reached(w) /\ Reached(w) < page(w) * m + m
            /\ p <= Reached(w) /\ Reached(w) < rm
            /\ s <= Reached(w) /\ Reached(w) < s + size
        <5>1. e = k * m + m /\ e = (k + 1) * m /\ SegPage(w) = k /\ m = M /\ s = worker[w].seg
              /\ k = worker[w].seg \div M
          BY <4>2, Zenon DEF ThreadLinks
        <5>2. /\ s + m = e + pos /\ pos < m /\ m >= 2 /\ p <= s /\ e <= rm
              /\ 0 < size /\ k < r
              /\ k + 1 < r => e + m <= rm
          BY <4>3 DEF ThreadNumbers
        <5>3. CASE worker[w].at = "seg"
          <6>1. page(w) = k /\ Reached(w) = s
            BY <5>1, <5>3 DEF Reached, ReachedAt
          <6>2. PICK km \in Nat : km = k * m /\ e = km + m
            BY <5>1
          <6>3. km <= s /\ s < km + m /\ s < rm /\ s < s + size /\ k \in 0 .. r - 1
            BY <5>2, <6>2
          <6> HIDE DEF page
          <6>4. page(w) * m = km
            BY <6>1, <6>2
          <6> QED
            BY <5>2, <6>1, <6>3, <6>4
        <5>4. CASE worker[w].at = "rest"
          <6>1. k + 1 < r /\ m - pos < size
            BY <3>1, <3>5, <4>2, <5>4 DEF RedRunning, WorkerPlaced, Placed, ThreadLinks
          <6>2. PICK i \in Nat : i = k + 1
            OBVIOUS
          <6>3. page(w) = i /\ Reached(w) = e /\ e = i * m
            BY <5>1, <5>4, <6>2 DEF Reached, ReachedAt
          <6>4. e + m <= rm
            BY <4>3, <6>1 DEF ThreadNumbers
          <6>5. e < e + m /\ p <= e /\ e < rm /\ s <= e /\ e < s + size /\ i \in 0 .. r - 1
            BY <5>2, <6>1, <6>2, <6>4
          <6> HIDE DEF page
          <6> QED
            BY <6>3, <6>5
        <5> QED
          BY <4>4, <5>3, <5>4 DEF Threads
      <4> HIDE DEF page
      <4>6. PICK i \in Nat, x \in Nat : i = page(w) /\ x = Reached(w)
        BY <4>5
      <4>7. x \div M = i /\ i \in 0 .. R - 1
        <5>1. m = M /\ r = R
          BY <4>2 DEF ThreadLinks
        <5>2. m > 0
          BY <4>3 DEF ThreadNumbers
        <5>3. x \div m = i
          BY <4>5, <4>6, <5>2, PageOf
        <5> QED
          BY <4>5, <4>6, <5>1, <5>3
      <4>8. x \notin Counted
        <5>1. (x % p) \div m = t
          <6>1. SegmentAt(p, m, t, size, j, s)
            BY <4>2, <4>3 DEF ThreadLinks, ThreadNumbers, SegmentAt
          <6>2. s <= x /\ x < s + size
            BY <4>5, <4>6
          <6>3. /\ s <= x /\ x < s + size => (x % p) \div m = t
                /\ s <= x /\ x < s + p /\ (x % p) \div m = t => x < s + size
            BY <6>1, OfTask, Zenon
          <6> QED
            BY <6>2, <6>3, Zenon
        <5>2. (x % P) \div M = worker[w].task
          BY <4>2, <5>1 DEF ThreadLinks
        <5> QED
          BY <3>5, <4>5, <4>6, <5>2 DEF Counted
      <4> QED
        BY <3>3, <4>6, <4>7, <4>8
    <3> HIDE DEF page
    <3> QED
      BY <3>2, <3>4, <3>5 DEF FetchedLive
  <2> QED
    BY <2>1, <2>2
<1> QED
  BY <1>1, RedInvariant, PTL

LEMMA ListedOwned ==
    ASSUME input.op \in {"red", "save"}, Listed
    PROVE  ChunksOwned
<1>1. PICK n \in Nat : n = poly["p"].pages
  BY DEF Listed
<1>2. Max({poly[f].pages : f \in Polys}) = n
  <2> DEFINE S == {poly[f].pages : f \in Polys}
  <2>1. n \in S /\ \A y \in S : y \in Nat /\ n >= y
    BY <1>1 DEF Listed, Polys
  <2> HIDE DEF S
  <2>2. Max(S) \in S /\ Max(S) >= n
    BY <2>1 DEF Max
  <2> QED
    BY <2>1, <2>2 DEF S
<1>3. Places = {"p"} \X (0 .. n - 1)
  <2>1. PICK longest : longest = Max({poly[f].pages : f \in Polys}) /\ longest = n
    BY <1>2
  <2>2. Places = {o \in Polys \X (0 .. longest - 1) : o[2] < poly[o[1]].pages}
    BY <2>1, Zenon DEF Places
  <2>3. "p" \in Polys /\ \A f \in Polys \ {"p"} : poly[f].pages = 0
    BY DEF Listed, Polys
  <2> QED
    BY <1>1, <2>1, <2>2, <2>3
<1>4. IdsAt(Places) = {IdOf("p", k) : k \in 0 .. n - 1}
  <2>1. ASSUME NEW o \in Places
        PROVE  \E k \in 0 .. n - 1 : IdOf(o[1], o[2]) = IdOf("p", k)
    BY <1>3
  <2>2. ASSUME NEW k \in 0 .. n - 1
        PROVE  \E o \in Places : IdOf(o[1], o[2]) = IdOf("p", k)
    <3>1. <<"p", k>> \in Places /\ <<"p", k>>[1] = "p" /\ <<"p", k>>[2] = k
      BY <1>3
    <3>2. IdOf(<<"p", k>>[1], <<"p", k>>[2]) = IdOf("p", k)
      BY <3>1
    <3> QED
      BY <3>1, <3>2
  <2> QED
    BY <2>1, <2>2 DEF IdsAt
<1>5. IdsAt(Places) = DOMAIN data
  <2>1. DOMAIN data = IdsOf("p", 0 .. n - 1)
    BY <1>1 DEF Listed
  <2> QED
    BY <1>4, <2>1 DEF IdsOf
<1>6. Cardinality(IdsAt(Places)) = Cardinality(Places) /\ Cardinality(Places) \in Nat
  <2> DEFINE ofPage == [k \in 0 .. n - 1 |-> <<"p", k>>]
             idOf == [k \in 0 .. n - 1 |-> IdOf("p", k)]
  <2>1. IsFiniteSet(0 .. n - 1) /\ Cardinality(0 .. n - 1) \in Nat
    BY FS_Interval, FS_CardinalityType
  <2>2. ofPage \in Bijection(0 .. n - 1, Places)
    BY <1>3 DEF Bijection, Injection, Surjection, IsInjective
  <2>3. idOf \in Bijection(0 .. n - 1, IdsAt(Places))
    <3>1. \A i, j \in 0 .. n - 1 : IdOf("p", i) = IdOf("p", j) => i = j
      BY <1>1 DEF Listed
    <3> QED
      BY <1>4, <3>1 DEF Bijection, Injection, Surjection, IsInjective
  <2>4. Cardinality(Places) = Cardinality(0 .. n - 1)
    BY <2>1, <2>2, FS_Bijection DEF ExistsBijection
  <2>5. Cardinality(IdsAt(Places)) = Cardinality(0 .. n - 1)
    BY <2>1, <2>3, FS_Bijection DEF ExistsBijection
  <2> QED
    BY <2>1, <2>4, <2>5
<1>7. ~Collected /\ ~(input.op \in {"roots", "root"})
  BY DEF Collected
<1> QED
  BY <1>5, <1>6, <1>7 DEF ChunksOwned

\* When period_red is done every chunk that lives is a page of p, listed once,
\* and every page that p lists lives.
THEOREM ChunksOwnedCorrect == RedSpec => []ChunksOwned
<1>1. RedInv => ChunksOwned
  <2>1. RedInput /\ RedRunning => ChunksOwned
    <3>1. RedInput /\ RedRunning => At("red")
      BY RedFrame DEF RedRunning, At
    <3> QED
      BY <3>1 DEF ChunksOwned
  <2>2. RedInput /\ calls = <<>> /\ Listed => ChunksOwned
    BY ListedOwned DEF RedInput
  <2> QED
    BY <2>1, <2>2 DEF RedInv
<1> QED
  BY <1>1, RedInvariant, PTL

-----------------------------------------------------------------------------
(***************************************************************************)
(* sync and load, one after the other: for every size and polynomial, with *)
(* the source removed or not, whatever files were there before, and        *)
(* whatever fails: directories, their clearing, files, the count, reads    *)
(* and writes.                                                             *)
(***************************************************************************)
SaveCall(F, n, a, rm_src, old) ==
    /\ n \in Sizes /\ rm_src \in BOOLEAN
    /\ old \in SUBSET Nat /\ IsFiniteSet(old)
    /\ Begin("save", F, n, a, [rm_src |-> rm_src, old |-> old])

SaveInit == \E F, n, a, rm_src, old : SaveCall(F, n, a, rm_src, old)
SaveSpec == SaveInit /\ [][Next]_vars

Old  == input.x.old
Room == R + Cardinality(Old)
InputPage(k) == [l \in Page |-> Input(k * page_u64 + l)]
PolyP(pages) ==
    [f \in Polys |-> IF f = "p" THEN [max |-> Room, pages |-> pages, page |-> [k \in 0 .. R - 1 |-> k]]
                                ELSE noPoly]

SaveInput ==
    /\ input.op = "save" /\ input.n \in Sizes
    /\ input.x.rm_src \in BOOLEAN
    /\ Old \in SUBSET Nat /\ IsFiniteSet(Old)

ToSync ==
    /\ calls = <<Sync(input.x.rm_src), Load(input.x.rm_src)>>
    /\ poly = PolyP(R) /\ made = R
    /\ data = [id \in 0 .. R - 1 |-> InputPage(id)]
    /\ files = [k \in Old |-> Before]

\* Unless sync has failed every page is in its file, and the other files are
\* some of before.  p has all its pages, or none.
Files ==
    /\ 0 .. R - 1 \subseteq DOMAIN files
    /\ DOMAIN files \subseteq (0 .. R - 1) \cup Old
    /\ \A k \in DOMAIN files : files[k] = IF k < R THEN InputPage(k) ELSE Before
HasPages(was) ==
    /\ poly = PolyP(was)
    /\ was = R => DOMAIN data = 0 .. R - 1
    /\ ~failed => data = [id \in 0 .. was - 1 |-> InputPage(id)]
ToLoad ==
    /\ calls = <<Load(input.x.rm_src)>> /\ made = R
    /\ \E was \in {0, R} : HasPages(was)
    /\ ~failed => Files

Back ==
    /\ poly["p"].pages >= R
    /\ \A k \in 0 .. R - 1 : Values(IdOf("p", k)) = InputPage(k)
    /\ \A k \in R .. poly["p"].pages - 1 : k \in Old /\ Values(IdOf("p", k)) = Before
Loaded ==
    /\ calls = <<>>
    /\ ~failed => Listed /\ (~uncounted => Back)

SaveInv == SaveInput /\ (ToSync \/ ToLoad \/ Loaded)

LEMMA SaveNumbers ==
    ASSUME SaveInput
    PROVE  /\ R \in Nat /\ R > 0 /\ page_u64 \in Nat /\ page_u64 > 0
           /\ Cardinality(Old) \in Nat /\ Room \in Nat /\ R <= Room
<1>1. R \in Nat /\ R > 0 /\ page_u64 \in Nat /\ page_u64 > 0
  BY PagesHold, PageSize DEF SaveInput, R
<1>2. Cardinality(Old) \in Nat
  BY FS_CardinalityType DEF SaveInput
<1> QED
  BY <1>1, <1>2 DEF Room

LEMMA SaveStarts == SaveInit => SaveInv
<1> SUFFICES ASSUME NEW F, NEW n, NEW a, NEW rm_src, NEW old, SaveCall(F, n, a, rm_src, old)
             PROVE  SaveInv
  BY DEF SaveInit
<1>1. Begin("save", F, n, a, [rm_src |-> rm_src, old |-> old])
  BY DEF SaveCall
<1>2. input = [op |-> "save", n |-> n, a |-> a, x |-> [rm_src |-> rm_src, old |-> old]]
  BY <1>1 DEF Begin
<1>3. SaveInput /\ R = fft_pages(n) /\ input.a = a /\ input.x.rm_src = rm_src /\ Old = old
  BY <1>2 DEF SaveCall, SaveInput, R, Old
<1>4. calls = <<Sync(rm_src), Load(rm_src)>>
  BY <1>1 DEF Begin, CodeOf
<1>5. poly = PolyP(R) /\ made = R
  BY <1>1, <1>3 DEF Begin, PolyP, Room
<1>6. data = [id \in 0 .. R - 1 |-> InputPage(id)]
  BY <1>1, <1>3 DEF Begin, InputPage, Input
<1>7. files = [k \in Old |-> Before]
  BY <1>1, <1>3 DEF Begin
<1> QED
  BY <1>3, <1>4, <1>5, <1>6, <1>7 DEF SaveInv, ToSync

\* The operands of the invariant are those of the input.
LEMMA SaveFrame ==
    ASSUME UNCHANGED input
    PROVE  /\ R' = R /\ Old' = Old /\ Room' = Room /\ (SaveInput => SaveInput')
           /\ \A k : InputPage(k)' = InputPage(k)
           /\ \A pages : PolyP(pages)' = PolyP(pages)
<1>1. R' = R /\ Old' = Old /\ \A k : InputPage(k)' = InputPage(k)
  BY DEF R, Old, InputPage, Input
<1>2. Room' = Room
  BY <1>1 DEF Room
<1>3. \A pages : PolyP(pages)' = PolyP(pages)
  BY <1>1, <1>2 DEF PolyP
<1> QED
  BY <1>1, <1>2, <1>3 DEF SaveInput

\* What is known of p, whether its pages are there or gone.
LEMMA PagesOfP ==
    ASSUME SaveInput, NEW was, poly = PolyP(was)
    PROVE  /\ poly["p"] = [max |-> Room, pages |-> was, page |-> [k \in 0 .. R - 1 |-> k]]
           /\ poly["p"].max = Room /\ poly["p"].pages = was
           /\ \A f \in Polys \ {"p"} : poly[f] = noPoly /\ poly[f].pages = 0
           /\ poly = [f \in Polys |-> poly[f]] /\ "p" \in Polys
           /\ \A k \in 0 .. R - 1 : IdOf("p", k) = k
<1>1. /\ poly["p"] = [max |-> Room, pages |-> was, page |-> [k \in 0 .. R - 1 |-> k]]
      /\ \A f \in Polys \ {"p"} : poly[f] = noPoly
      /\ poly = [f \in Polys |-> poly[f]] /\ "p" \in Polys
  BY DEF PolyP, Polys
<1>2. PICK room, list : room = Room /\ list = [k \in 0 .. R - 1 |-> k]
  OBVIOUS
<1>3. poly["p"] = [max |-> room, pages |-> was, page |-> list]
  BY <1>1, <1>2
<1>4. poly["p"].max = room /\ poly["p"].pages = was /\ poly["p"].page = list
  BY <1>3
<1>5. \A k \in 0 .. R - 1 : IdOf("p", k) = k
  BY <1>2, <1>4 DEF IdOf
<1>6. \A f \in Polys \ {"p"} : poly[f].pages = 0
  BY <1>1 DEF noPoly
<1> QED
  BY <1>1, <1>2, <1>4, <1>5, <1>6

\* A sync that could not make a directory leaves p as it is, and returns -1.
LEMMA NotSynced ==
    ASSUME SaveInput, ToSync, NoDirectory, UNCHANGED <<input, made>>,
           calls' = <<Load(input.x.rm_src)>>
    PROVE  ToLoad'
<1>1. failed' /\ UNCHANGED <<poly, data>>
  BY DEF NoDirectory
<1>2. HasPages(R)'
  BY <1>1, SaveFrame DEF HasPages, ToSync
<1> QED
  BY <1>1, <1>2, SaveFrame DEF ToLoad, ToSync

LEMMA Written ==
    ASSUME SaveInput, ToSync, WritePages, UNCHANGED <<input, made>>,
           TheCall.f = "p", TheCall.x = input.x.rm_src,
           calls' = <<Load(input.x.rm_src)>>
    PROVE  ToLoad'
<1>1. PICK r \in Nat : r = R /\ r > 0
  BY SaveNumbers
<1>2. /\ poly["p"].pages = r /\ poly["p"] = [max |-> Room, pages |-> r, page |-> [k \in 0 .. r - 1 |-> k]]
      /\ \A f \in Polys \ {"p"} : poly[f] = noPoly
      /\ poly = [f \in Polys |-> poly[f]] /\ "p" \in Polys
      /\ \A k \in 0 .. r - 1 : IdOf("p", k) = k
  BY <1>1, PagesOfP DEF ToSync
<1>3. \A k \in 0 .. r - 1 : Values(IdOf("p", k)) = InputPage(k)
  BY <1>1, <1>2 DEF ToSync, Values
<1>4. PICK kept \in SUBSET Old, closed \in SUBSET (0 .. r - 1), short \in SUBSET (0 .. r - 1) :
        /\ files' = [k \in kept \cup ((0 .. r - 1) \ closed) |->
                       IF k \in (0 .. r - 1) \ (closed \cup short) THEN Values(IdOf("p", k))
                       ELSE IF k \in kept THEN files[k] ELSE Short]
        /\ failed' = (failed \/ Reported(closed, short \ closed))
        /\ data' = IF input.x.rm_src THEN Without(data, IdsOf("p", (0 .. r - 1) \ closed)) ELSE data
        /\ IF input.x.rm_src THEN SetPages("p", 0) ELSE UNCHANGED poly
  <2>1. DOMAIN files = Old
    BY DEF ToSync
  <2>2. \A S : \A s \in Faults(S) : s \in SUBSET S
    BY DEF Faults
  <2>3. poly[TheCall.f].pages = r
    BY <1>2
  <2> DEFINE Step(f, all, kept, closed, short) ==
               /\ files' = [k \in kept \cup (all \ closed) |->
                              IF k \in all \ (closed \cup short) THEN Values(IdOf(f, k))
                              ELSE IF k \in kept THEN files[k] ELSE Short]
               /\ failed' = (failed \/ Reported(closed, short \ closed))
               /\ data' = IF TheCall.x THEN Without(data, IdsOf(f, all \ closed)) ELSE data
               /\ IF TheCall.x THEN SetPages(f, 0) ELSE UNCHANGED poly
             Steps(f, old, all) ==
               \E kept \in Faults(old), closed \in Faults(all), short \in Faults(all) :
                 Step(f, all, kept, closed, short)
  <2>4. PICK kept \in Faults(Old), closed \in Faults(0 .. r - 1), short \in Faults(0 .. r - 1) :
          Step("p", 0 .. r - 1, kept, closed, short)
    <3>1. Steps(TheCall.f, DOMAIN files, 0 .. poly[TheCall.f].pages - 1)
      BY Zenon DEF WritePages
    <3> HIDE DEF Steps
    <3>2. Steps("p", Old, 0 .. r - 1)
      BY <2>1, <2>3, <3>1
    <3> HIDE DEF Step
    <3> QED
      BY <3>2, Zenon DEF Steps
  <2>5. /\ data' = IF input.x.rm_src THEN Without(data, IdsOf("p", (0 .. r - 1) \ closed)) ELSE data
        /\ IF input.x.rm_src THEN SetPages("p", 0) ELSE UNCHANGED poly
    BY <2>4
  <2>6. kept \in SUBSET Old /\ closed \in SUBSET (0 .. r - 1) /\ short \in SUBSET (0 .. r - 1)
    BY <2>2, Zenon
  <2> HIDE DEF Reported
  <2> QED
    BY <2>4, <2>5, <2>6, Zenon
<1>5. ASSUME input.x.rm_src
      PROVE  poly' = PolyP(0)
  <2>1. poly' = [poly EXCEPT !["p"].pages = 0]
    BY <1>4, <1>5 DEF SetPages
  <2>2. poly'["p"] = [max |-> Room, pages |-> 0, page |-> [k \in 0 .. r - 1 |-> k]]
    <3>1. PICK room, list : room = Room /\ list = [k \in 0 .. r - 1 |-> k]
      OBVIOUS
    <3>2. poly["p"] = [max |-> room, pages |-> r, page |-> list]
      BY <1>2, <3>1
    <3>3. poly'["p"] = [max |-> room, pages |-> 0, page |-> list]
      BY <1>2, <2>1, <3>2
    <3> QED
      BY <3>1, <3>3
  <2>3. poly' = [f \in Polys |-> poly'[f]] /\ \A f \in Polys : f # "p" => poly'[f] = noPoly
    BY <1>2, <2>1
  <2> QED
    BY <1>1, <2>2, <2>3 DEF PolyP
<1>6. ASSUME ~failed'
      PROVE  closed = {} /\ short = {}
  <2>1. ~Reported(closed, short \ closed)
    BY <1>4, <1>6
  <2> QED
    BY <2>1 DEF Reported
<1>7. \E was \in {0, R} : HasPages(was)'
  <2>1. CASE input.x.rm_src
    <3>1. ASSUME ~failed'
          PROVE  data' = [id \in 0 .. -1 |-> InputPage(id)]
      <4>1. IdsOf("p", (0 .. r - 1) \ closed) = 0 .. r - 1
        BY <1>2, <1>6, <3>1 DEF IdsOf
      <4>2. DOMAIN data' = {} /\ data' = [id \in {} |-> data[id]]
        BY <1>1, <1>4, <2>1, <4>1 DEF Without, ToSync
      <4> QED
        BY <4>2
    <3>2. HasPages(0)'
      BY <1>1, <1>5, <2>1, <3>1, SaveFrame DEF HasPages
    <3> QED
      BY <3>2
  <2>2. CASE ~input.x.rm_src
    <3>1. UNCHANGED <<poly, data>>
      BY <1>4, <2>2
    <3>2. HasPages(r)'
      BY <1>1, <3>1, SaveFrame DEF HasPages, ToSync
    <3> QED
      BY <1>1, <3>2
  <2> QED
    BY <2>1, <2>2
<1>8. ASSUME ~failed'
      PROVE  Files'
  <2>1. files' = [k \in kept \cup (0 .. r - 1) |->
                    IF k \in 0 .. r - 1 THEN Values(IdOf("p", k))
                    ELSE IF k \in kept THEN files[k] ELSE Short]
    BY <1>4, <1>6, <1>8
  <2>2. \A k \in kept : files[k] = Before /\ k \in Nat
    BY DEF ToSync, SaveInput
  <2>3. \A k \in DOMAIN files' : files'[k] = IF k < r THEN InputPage(k) ELSE Before
    BY <1>3, <2>1, <2>2
  <2> QED
    BY <1>1, <2>1, <2>3, SaveFrame DEF Files
<1> QED
  BY <1>7, <1>8, SaveFrame DEF ToLoad, ToSync

LEMMA Synced ==
    ASSUME SaveInput, ToSync, SyncPoly
    PROVE  SaveInput' /\ ToLoad'
<1>1. TheCall.f = "p" /\ TheCall.x = input.x.rm_src /\ Tail(calls) = <<Load(input.x.rm_src)>>
  BY DEF ToSync, TheCall, Sync, Call
<1>2. UNCHANGED <<input, made>> /\ calls' = <<Load(input.x.rm_src)>>
  BY <1>1 DEF SyncPoly, EndCall, Start
<1>3. NoDirectory \/ WritePages
  BY DEF SyncPoly
<1> QED
  BY <1>1, <1>2, <1>3, NotSynced, Written, SaveFrame

\* The list that load makes for c pages, of p with was pages: those it has and
\* new ones behind them.
LEMMA LoadSizes ==
    ASSUME SaveInput, NEW r \in Nat, r = R, NEW was \in {0, r}, poly = PolyP(was), made = r,
           NEW c \in Nat, r <= c, c <= Room
    PROVE  /\ Added(poly, "p", c) = c - was
           /\ Grown(poly, "p", c)["p"].pages = c
           /\ Grown(poly, "p", c)["p"].page = [k \in 0 .. c - 1 |-> r - was + k]
           /\ DOMAIN Grown(poly, "p", c)["p"] = {"max", "pages", "page"}
           /\ Grown(poly, "p", c) \in [Polys -> {Grown(poly, "p", c)[f] : f \in Polys}]
           /\ \A f \in Polys \ {"p"} : Grown(poly, "p", c)[f] = noPoly
<1>1. PICK room \in Nat : room = Room /\ c <= room
  BY SaveNumbers
<1>2. /\ poly["p"] = [max |-> room, pages |-> was, page |-> [k \in 0 .. r - 1 |-> k]]
      /\ \A f \in Polys \ {"p"} : poly[f] = noPoly
      /\ poly = [f \in Polys |-> poly[f]] /\ "p" \in Polys
  BY <1>1, PagesOfP
<1>3. Added(poly, "p", c) = c - was
  BY <1>1, <1>2 DEF Added
<1> DEFINE pages == IF c > poly["p"].max \/ c < poly["p"].pages THEN poly["p"].pages ELSE c
           new == poly["p"].pages .. poly["p"].pages + Added(poly, "p", c) - 1
           page == [k \in DOMAIN poly["p"].page \cup new |->
                      IF k \in new THEN made + k - poly["p"].pages ELSE poly["p"].page[k]]
<1>4. Grown(poly, "p", c) = [poly EXCEPT !["p"].pages = pages, !["p"].page = page]
  BY DEF Grown
<1>5. pages = c
  BY <1>1, <1>2
<1>6. page = [k \in 0 .. c - 1 |-> r - was + k]
  <2>1. new = was .. c - 1 /\ DOMAIN poly["p"].page = 0 .. r - 1
    BY <1>2, <1>3
  <2> HIDE DEF new
  <2>2. DOMAIN poly["p"].page \cup new = 0 .. c - 1
    BY <2>1
  <2>3. ASSUME NEW k \in 0 .. c - 1
        PROVE  (IF k \in new THEN made + k - poly["p"].pages ELSE poly["p"].page[k]) = r - was + k
    <3>1. CASE k < was
      BY <1>2, <2>1, <3>1
    <3>2. CASE ~(k < was)
      BY <1>2, <2>1, <3>2
    <3> QED
      BY <3>1, <3>2
  <2> QED
    BY <2>2, <2>3
<1> HIDE DEF pages, page, new
<1> DEFINE new_poly == Grown(poly, "p", c)
<1>7. /\ new_poly["p"].pages = pages /\ new_poly["p"].page = page
      /\ DOMAIN new_poly["p"] = {"max", "pages", "page"}
      /\ new_poly = [f \in Polys |-> new_poly[f]]
      /\ \A f \in Polys \ {"p"} : new_poly[f] = poly[f]
  <2> HIDE DEF new_poly
  <2> QED
    BY <1>2, <1>4 DEF new_poly
<1>8. new_poly \in [Polys -> {new_poly[f] : f \in Polys}] /\ \A f \in Polys \ {"p"} : new_poly[f] = noPoly
  <2> HIDE DEF new_poly
  <2> QED
    BY <1>2, <1>7
<1> QED
  BY <1>3, <1>5, <1>6, <1>7, <1>8

\* A load that could not count leaves no page, and no chunk.
LEMMA NotCounted ==
    ASSUME SaveInput, ToLoad, LoadUncounted, TheCall.f = "p", ~failed
    PROVE  Listed'
<1>1. PICK r \in Nat : r = R /\ r > 0
  BY SaveNumbers
<1>2. PICK was \in {0, r} : HasPages(was)
  BY <1>1 DEF ToLoad
<1>3. PICK room \in Nat : room = Room /\ r <= room
  BY <1>1, SaveNumbers
<1>4. /\ poly["p"].pages = was /\ poly["p"].max = room
      /\ \A k \in 0 .. r - 1 : IdOf("p", k) = k
  BY <1>1, <1>2, <1>3, PagesOfP DEF HasPages
<1>5. made = r
  BY <1>1 DEF ToLoad
<1> DEFINE sized == Grown(poly, "p", room)
<1>6. /\ sized["p"].pages = room
      /\ DOMAIN sized["p"] = {"max", "pages", "page"}
      /\ sized \in [Polys -> {sized[h] : h \in Polys}]
      /\ \A f \in Polys \ {"p"} : sized[f] = noPoly
  <2>1. poly = PolyP(was)
    BY <1>2 DEF HasPages
  <2>2. r <= room /\ room <= Room
    BY <1>3
  <2>3. /\ Added(poly, "p", room) = room - was
        /\ sized["p"].pages = room
        /\ sized["p"].page = [k \in 0 .. room - 1 |-> r - was + k]
        /\ DOMAIN sized["p"] = {"max", "pages", "page"}
        /\ sized \in [Polys -> {sized[h] : h \in Polys}]
        /\ \A f \in Polys \ {"p"} : sized[f] = noPoly
    BY <1>1, <1>5, <2>1, <2>2, LoadSizes
  <2> QED
    BY <2>3, Zenon
<1>7. poly' = [sized EXCEPT !["p"].pages = 0]
  BY <1>4 DEF LoadUncounted
<1>8. poly'["p"].pages = 0 /\ \A f \in Polys \ {"p"} : poly'[f].pages = 0
  <2> HIDE DEF sized
  <2> QED
    BY <1>6, <1>7 DEF Polys, noPoly
<1>9. DOMAIN data' = {}
  <2>1. data' = Without(data, IdsOf("p", 0 .. was - 1)) /\ DOMAIN data = 0 .. was - 1
    BY <1>2, <1>4 DEF LoadUncounted, HasPages
  <2>2. IdsOf("p", 0 .. was - 1) = 0 .. was - 1
    BY <1>1, <1>2, <1>4 DEF IdsOf
  <2> QED
    BY <2>1, <2>2 DEF Without
<1> QED
  BY <1>8, <1>9 DEF Listed, IdsOf

\* The number of files: every page has one, and the list has room for all.
LEMMA FilesCounted ==
    ASSUME SaveInput, Files, DOMAIN files = 0 .. CountFiles - 1
    PROVE  CountFiles \in Nat /\ R <= CountFiles /\ CountFiles <= Room
<1>1. PICK r \in Nat : r = R /\ r > 0
  BY SaveNumbers
<1>2. IsFiniteSet(0 .. r - 1) /\ Cardinality(0 .. r - 1) = r
  BY <1>1, FS_Interval
<1>3. IsFiniteSet(Old) /\ Cardinality(Old) \in Nat
  BY SaveNumbers DEF SaveInput
<1> DEFINE all == (0 .. r - 1) \cup Old
<1>4. IsFiniteSet(all) /\ Cardinality(all) = r + Cardinality(Old) - Cardinality((0 .. r - 1) \cap Old)
  BY <1>2, <1>3, FS_Union
<1>5. Cardinality((0 .. r - 1) \cap Old) \in Nat
  <2>1. (0 .. r - 1) \cap Old \in SUBSET Old
    OBVIOUS
  <2>2. IsFiniteSet((0 .. r - 1) \cap Old)
    BY <1>3, <2>1, FS_Subset
  <2> QED
    BY <2>2, FS_CardinalityType
<1>6. DOMAIN files \in SUBSET all
  BY <1>1 DEF Files
<1> HIDE DEF all
<1>7. IsFiniteSet(DOMAIN files) /\ CountFiles <= Cardinality(all)
  BY <1>4, <1>6, FS_Subset DEF CountFiles
<1>8. CountFiles \in Nat
  BY <1>7, FS_CardinalityType DEF CountFiles
<1>9. r - 1 \in 0 .. CountFiles - 1
  BY <1>1 DEF Files
<1> QED
  BY <1>1, <1>3, <1>4, <1>5, <1>7, <1>8, <1>9 DEF Room

\* The place of a coefficient in its page.
LEMMA PlaceOf ==
    ASSUME NEW m \in Nat, m > 0, NEW c \in Nat, NEW k \in 0 .. c - 1, NEW l \in 0 .. m - 1
    PROVE  k * m + l \in 0 .. c * m - 1 /\ (k * m + l) \div m = k /\ (k * m + l) % m = l
<1>1. PICK n \in Nat : n = k * m + l /\ n = m * k + l
  OBVIOUS
<1>2. n \div m = k /\ n % m = l
  <2>1. n \in Int /\ k \in Int /\ l \in Int /\ 0 <= l /\ l < m
    BY <1>1
  <2> QED
    BY <1>1, <2>1, DivUnique
<1>3. n \in 0 .. c * m - 1
  <2>1. k \in Nat /\ k <= c - 1 /\ c - 1 \in Nat
    OBVIOUS
  <2>2. m * k <= m * (c - 1) /\ m * (c - 1) = c * m - m
    BY <2>1, ProductMonotone
  <2>3. PICK mk \in Nat, cm \in Nat : mk = m * k /\ cm = c * m
    BY <2>1
  <2> QED
    BY <1>1, <2>2, <2>3
<1> QED
  BY <1>1, <1>2, <1>3

\* A page is read into its chunk of the list.
LEMMA PageStored ==
    ASSUME NEW c \in Nat, NEW first \in Nat, NEW there, DOMAIN there = first .. first + c - 1,
           NEW list, DOMAIN list = 0 .. c - 1, \A i \in 0 .. c - 1 : list[i] = first + i,
           NEW k \in 0 .. c - 1, NEW content, NEW value, value = [l \in Page |-> value[l]],
           \A l \in Page : /\ k * page_u64 + l \in DOMAIN content
                          /\ content[k * page_u64 + l] = value[l]
    PROVE  Stored(there, list, content)[first + k] = value
<1>1. DOMAIN list = 0 .. c - 1 /\ list[k] = first + k
  OBVIOUS
<1>2. \A i, j \in 0 .. c - 1 : list[i] = list[j] => i = j
  OBVIOUS
<1>3. list[k] \in DOMAIN there
  <2>1. first + k \in first .. first + c - 1
    OBVIOUS
  <2> QED
    BY <1>1, <2>1, Zenon
<1> DEFINE in == {list[i] : i \in DOMAIN list} \cap DOMAIN there
           at == [id \in in |-> CHOOSE i \in DOMAIN list : list[i] = id]
           new == [id \in DOMAIN there |->
                     IF id \notin in THEN there[id]
                     ELSE [l \in Page |-> LET i == at[id] * page_u64 + l
                                          IN IF i \in DOMAIN content THEN content[i] ELSE there[id][l]]]
<1>4. Stored(there, list, content) = new
  BY Zenon DEF Stored
<1>5. list[k] \in in
  BY <1>1, <1>3, Zenon
<1>6. at[list[k]] = k
  <2>1. at[list[k]] = CHOOSE i \in DOMAIN list : list[i] = list[k]
    BY <1>5, Zenon
  <2> QED
    BY <1>1, <1>2, <2>1
<1> HIDE DEF at, in
<1>7. new[list[k]] = [l \in Page |-> LET i == at[list[k]] * page_u64 + l
                                     IN IF i \in DOMAIN content THEN content[i] ELSE there[list[k]][l]]
  BY <1>3, <1>5, Zenon
<1> HIDE DEF new
<1>8. \A l \in Page : (LET i == at[list[k]] * page_u64 + l
                       IN IF i \in DOMAIN content THEN content[i] ELSE there[list[k]][l]) = value[l]
  BY <1>6, Zenon
<1> QED
  BY <1>1, <1>4, <1>7, <1>8

\* A load that returns no error, and could count, has every page of every file.
LEMMA PagesLoaded ==
    ASSUME SaveInput, ToLoad, LoadPages, TheCall.f = "p", ~failed, ~failed', UNCHANGED input
    PROVE  Listed' /\ Back'
<1>1. PICK r \in Nat, m \in Nat : r = R /\ r > 0 /\ m = page_u64 /\ m > 0
  BY SaveNumbers
<1>2. Files /\ made = r
  BY <1>1 DEF ToLoad
<1>3. PICK was \in {0, r} : poly = PolyP(was) /\ DOMAIN data = 0 .. was - 1
  BY <1>1 DEF ToLoad, HasPages
<1>4. poly["p"].pages = was
  BY <1>3, PagesOfP
<1>5. PICK c \in Nat : c = CountFiles /\ r <= c /\ c <= Room /\ DOMAIN files = 0 .. c - 1
  BY <1>1, <1>2, FilesCounted DEF LoadPages
<1> DEFINE first == r - was
           sized == Grown(poly, "p", c)
           there == Without(With(data, c - was), IdsOf("p", c .. was - 1))
           list == [k \in 0 .. c - 1 |-> first + k]
           content == [i \in 0 .. c * page_u64 - 1 |-> files[i \div page_u64][i % page_u64]]
<1>6. first \in Nat
  BY <1>1, <1>3
<1>7. /\ Added(poly, "p", c) = c - was
      /\ sized["p"].pages = c
      /\ sized["p"].page = list
      /\ DOMAIN sized["p"] = {"max", "pages", "page"}
      /\ sized \in [Polys -> {sized[h] : h \in Polys}]
      /\ \A h \in Polys \ {"p"} : sized[h] = noPoly
  BY <1>1, <1>2, <1>3, <1>5, LoadSizes
<1>8. poly' = [sized EXCEPT !["p"].pages = Min({c, @})] /\ data' = Stored(there, list, content)
  <2> DEFINE filled(closed) == [k \in (0 .. c - 1) \ closed |-> sized["p"].page[k]]
             read(closed, short) ==
               [i \in {i \in 0 .. c * page_u64 - 1 : i \div page_u64 \notin closed} |->
                  IF i \div page_u64 \in short THEN -1 ELSE files[i \div page_u64][i % page_u64]]
             wrong(closed, short) == {k \in (0 .. c - 1) \ closed : k \in short \/ files[k] = Short}
             Step(closed, short) ==
               /\ poly' = [sized EXCEPT !["p"].pages = Min({c, @})]
               /\ data' = Stored(there, filled(closed), read(closed, short))
               /\ failed' = (failed \/ Reported(closed, wrong(closed, short)))
             Steps(f, count, was1, n) ==
               \E closed \in Faults(0 .. count - 1), short \in Faults(0 .. count - 1) :
                 /\ poly' = [Grown(poly, f, count) EXCEPT ![f].pages = Min({count, @})]
                 /\ data' = Stored(Without(With(data, n), IdsOf(f, count .. was1 - 1)),
                                   [k \in (0 .. count - 1) \ closed |-> Grown(poly, f, count)[f].page[k]],
                                   [i \in {i \in 0 .. count * page_u64 - 1 : i \div page_u64 \notin closed} |->
                                      IF i \div page_u64 \in short THEN -1
                                      ELSE files[i \div page_u64][i % page_u64]])
                 /\ failed' = (failed \/ Reported(closed,
                                 {k \in (0 .. count - 1) \ closed : k \in short \/ files[k] = Short}))
  <2>1. PICK closed \in Faults(0 .. c - 1), short \in Faults(0 .. c - 1) : Step(closed, short)
    <3>1. Steps(TheCall.f, CountFiles, poly[TheCall.f].pages, Added(poly, TheCall.f, CountFiles))
      BY Zenon DEF LoadPages
    <3>2. Added(poly, TheCall.f, CountFiles) = c - was
      BY <1>5, <1>7
    <3> HIDE DEF Steps
    <3>3. Steps("p", c, was, c - was)
      BY <1>4, <1>5, <3>1, <3>2
    <3> QED
      BY <3>3, Zenon DEF Steps
  <2> HIDE DEF sized, Steps
  <2>2. ~Reported(closed, wrong(closed, short))
    BY <2>1
  <2>3. closed = {} /\ wrong(closed, short) = {}
    <3> HIDE DEF wrong
    <3> QED
      BY <2>2 DEF Reported
  <2>4. short = {}
    <3>1. short \in SUBSET (0 .. c - 1)
      BY DEF Faults
    <3> QED
      BY <2>3, <3>1
  <2>5. filled(closed) = list
    <3>1. filled(closed) = [k \in 0 .. c - 1 |-> sized["p"].page[k]]
      BY <2>3
    <3> QED
      BY <1>7, <3>1
  <2>6. read(closed, short) = content
    BY <2>3, <2>4
  <2> HIDE DEF filled, read, wrong, there, list, content
  <2> QED
    BY <2>1, <2>5, <2>6
<1>9. /\ poly'["p"].pages = c
      /\ poly'["p"].page = list
      /\ \A h \in Polys \ {"p"} : poly'[h].pages = 0
  <2>1. Min({c, sized["p"].pages}) = c
    <3>1. Min({c, c}) \in {c, c}
      BY DEF Min
    <3> QED
      BY <1>7, <3>1
  <2> HIDE DEF sized, list
  <2> QED
    BY <1>7, <1>8, <2>1 DEF Polys, noPoly
<1>10. \A k \in 0 .. c - 1 : IdOf("p", k)' = first + k
  BY <1>9 DEF IdOf
<1>11. DOMAIN there = first .. first + c - 1
  <2>1. DOMAIN there = (DOMAIN data \cup made .. made + (c - was) - 1) \ IdsOf("p", c .. was - 1)
    BY DEF Without, With
  <2>2. IdsOf("p", c .. was - 1) = {}
    BY <1>1, <1>3, <1>5 DEF IdsOf
  <2> HIDE DEF there
  <2>3. CASE was = 0
    BY <1>1, <1>2, <1>3, <1>5, <2>1, <2>2, <2>3
  <2>4. CASE was = r
    BY <1>1, <1>2, <1>3, <1>5, <2>1, <2>2, <2>4
  <2> QED
    BY <1>3, <2>3, <2>4
<1>12. DOMAIN data' = first .. first + c - 1
  <2>1. DOMAIN data' = DOMAIN there
    BY <1>8 DEF Stored
  <2> QED
    BY <1>11, <2>1
<1>13. ASSUME NEW k \in 0 .. c - 1
       PROVE  /\ Values(IdOf("p", k))' = IF k < r THEN InputPage(k) ELSE Before
              /\ k >= r => k \in Old
  <2>1. files[k] = IF k < r THEN InputPage(k) ELSE Before
    BY <1>1, <1>2, <1>5 DEF Files
  <2>2. files[k] = [l \in Page |-> files[k][l]]
    <3>1. InputPage(k) = [l \in Page |-> InputPage(k)[l]]
      BY DEF InputPage
    <3>2. Before = [l \in Page |-> Before[l]]
      BY DEF Before
    <3>3. CASE k < r
      <4>1. files[k] = InputPage(k)
        BY <2>1, <3>3
      <4> QED
        BY <3>1, <4>1, Zenon
    <3>4. CASE ~(k < r)
      <4>1. files[k] = Before
        BY <2>1, <3>4
      <4> QED
        BY <3>2, <4>1, Zenon
    <3> QED
      BY <3>3, <3>4
  <2>3. data'[first + k] = files[k]
    <3>0. ASSUME NEW l \in Page
          PROVE  /\ k * page_u64 + l \in DOMAIN content
                 /\ content[k * page_u64 + l] = files[k][l]
      <4>1. l \in 0 .. m - 1
        BY <1>1 DEF Page
      <4>2. PICK n : n = k * page_u64 + l /\ n \in 0 .. c * page_u64 - 1
                     /\ n \div page_u64 = k /\ n % page_u64 = l
        BY <1>1, <4>1, PlaceOf
      <4> QED
        BY <4>2
    <3> HIDE DEF there, first, content
    <3>1. Stored(there, list, content)[first + k] = files[k]
      <4>1. DOMAIN list = 0 .. c - 1 /\ \A i \in 0 .. c - 1 : list[i] = first + i
        OBVIOUS
      <4> HIDE DEF list
      <4>2. PICK value : value = files[k]
        OBVIOUS
      <4>3. value = [l \in Page |-> value[l]]
        BY <2>2, <4>2, Zenon
      <4>4. \A l \in Page : /\ k * page_u64 + l \in DOMAIN content
                           /\ content[k * page_u64 + l] = value[l]
        BY <3>0, <4>2, Zenon
      <4>5. Stored(there, list, content)[first + k] = value
        BY <1>6, <1>11, <4>1, <4>3, <4>4, PageStored
      <4> QED
        BY <4>2, <4>5
    <3> HIDE DEF list
    <3> QED
      BY <1>8, <3>1
  <2>4. Values(IdOf("p", k))' = files[k]
    <3>1. first + k \in first .. first + c - 1
      BY <1>6
    <3> HIDE DEF first
    <3> QED
      BY <1>10, <1>12, <2>3, <3>1 DEF Values
  <2>5. k >= r => k \in Old
    BY <1>1, <1>2, <1>5 DEF Files
  <2> QED
    BY <2>1, <2>4, <2>5
<1>14. Back'
  <2>1. R' = r /\ Old' = Old /\ \A k : InputPage(k)' = InputPage(k)
    BY <1>1, SaveFrame
  <2> QED
    BY <1>1, <1>5, <1>9, <1>13, <2>1 DEF Back
<1>15. Listed'
  <2> HIDE DEF first
  <2>1. \A i, j \in 0 .. c - 1 : IdOf("p", i)' = IdOf("p", j)' => i = j
    BY <1>6, <1>10
  <2>2. DOMAIN data' = IdsOf("p", 0 .. c - 1)'
    <3>1. IdsOf("p", 0 .. c - 1)' = {IdOf("p", k)' : k \in 0 .. c - 1}
      BY DEF IdsOf
    <3>2. \A i \in first .. first + c - 1 : i - first \in 0 .. c - 1 /\ i = first + (i - first)
      BY <1>6
    <3>3. {IdOf("p", k)' : k \in 0 .. c - 1} = {first + k : k \in 0 .. c - 1}
      BY <1>10
    <3>4. {first + k : k \in 0 .. c - 1} = first .. first + c - 1
      BY <1>6, <3>2
    <3> QED
      BY <1>12, <3>1, <3>3, <3>4
  <2> QED
    BY <1>9, <2>1, <2>2 DEF Listed
<1> QED
  BY <1>14, <1>15

LEMMA LoadedBack ==
    ASSUME SaveInput, ToLoad, LoadPoly
    PROVE  SaveInput' /\ Loaded'
<1>1. TheCall.f = "p" /\ Tail(calls) = <<>>
  BY DEF ToLoad, TheCall, Load, Call
<1>2. UNCHANGED input /\ calls' = <<>>
  BY <1>1 DEF LoadPoly, EndCall, Start
<1>3. CASE LoadRefused
  BY <1>2, <1>3, SaveFrame DEF LoadRefused, Loaded
<1>4. CASE LoadUncounted
  <2>1. failed' = failed /\ uncounted'
    BY <1>4 DEF LoadUncounted
  <2>2. ~failed => Listed'
    BY <1>1, <1>4, NotCounted
  <2> QED
    BY <1>2, <2>1, <2>2, SaveFrame DEF Loaded
<1>5. CASE LoadPages
  <2>1. ~failed' => ~failed
    BY <1>5 DEF LoadPages
  <2>2. ~failed' => Listed' /\ Back'
    BY <1>1, <1>2, <1>5, <2>1, PagesLoaded
  <2> QED
    BY <1>2, <2>2, SaveFrame DEF Loaded
<1> QED
  BY <1>3, <1>4, <1>5 DEF LoadPoly

\* sync and load pass on every page, or report an error, or could not count.
THEOREM SaveInvariant == SaveSpec => []SaveInv
<1>1. SaveInit => SaveInv
  BY SaveStarts
<1>2. SaveInv /\ [Next]_vars => SaveInv'
  <2> SUFFICES ASSUME SaveInv, [Next]_vars
               PROVE  SaveInv'
    OBVIOUS
  <2>1. ASSUME UNCHANGED vars
        PROVE  SaveInv'
    <3>1. UNCHANGED <<input, calls, poly, made, data, files, failed, uncounted>>
      BY <2>1 DEF vars
    <3>2. /\ R' = R /\ Old' = Old /\ (\A k : InputPage(k)' = InputPage(k)) /\ SaveInput'
          /\ \A pages : PolyP(pages)' = PolyP(pages)
      BY <3>1, SaveFrame DEF SaveInv
    <3>3. Listed => Listed'
      BY <3>1 DEF Listed, IdsOf, IdOf
    <3>4. \A k : Values(IdOf("p", k))' = Values(IdOf("p", k))
      BY <3>1 DEF Values, IdOf
    <3>5. ToSync => ToSync'
      BY <3>1, <3>2 DEF ToSync
    <3>6. ToLoad => ToLoad'
      <4>1. \A was : HasPages(was)' = HasPages(was)
        BY <3>1, <3>2 DEF HasPages
      <4>2. Files' = Files
        BY <3>1, <3>2 DEF Files
      <4> QED
        BY <3>1, <3>2, <4>1, <4>2 DEF ToLoad
    <3>7. Loaded => Loaded'
      <4>1. Back => Back'
        BY <3>1, <3>2, <3>4 DEF Back
      <4> QED
        BY <3>1, <3>3, <4>1 DEF Loaded
    <3> QED
      BY <3>2, <3>5, <3>6, <3>7 DEF SaveInv
  <2>2. ASSUME Next
        PROVE  SaveInv'
    <3>1. CASE ToSync
      <4>1. At("sync")
        BY <3>1 DEF ToSync, At, Sync, Call
      <4> QED
        BY <2>2, <3>1, <4>1, CallSteps, Synced DEF SaveInv
    <3>2. CASE ToLoad
      <4>1. At("load")
        BY <3>2 DEF ToLoad, At, Load, Call
      <4> QED
        BY <2>2, <3>2, <4>1, CallSteps, LoadedBack DEF SaveInv
    <3>3. CASE Loaded
      <4>1. calls = <<>>
        BY <3>3 DEF Loaded
      <4> QED
        BY <2>1, <2>2, <4>1, CallSteps
    <3> QED
      BY <3>1, <3>2, <3>3 DEF SaveInv
  <2> QED
    BY <2>1, <2>2
<1> QED
  BY <1>1, <1>2, PTL DEF SaveSpec

\* What was stored with sync is what load reads, unless one of them returned
\* an error or load could not read the number of files.
THEOREM SavedOrReportedCorrect == SaveSpec => []SavedOrReported
<1>1. SaveInv => SavedOrReported
  <2> SUFFICES ASSUME SaveInv, Done("save"), ~failed, ~uncounted
               PROVE  CameBack
    BY Zenon DEF SavedOrReported
  <2>1. Loaded /\ SaveInput
    BY DEF SaveInv, ToSync, ToLoad, Done
  <2>2. R \in Nat /\ page_u64 \in Nat /\ page_u64 > 0
    BY <2>1, SaveNumbers
  <2>3. ASSUME NEW i \in 0 .. R * page_u64 - 1
        PROVE  Values(IdOf("p", i \div page_u64))[i % page_u64] = Input(i)
    <3>1. PICK m \in Nat, r \in Nat : m = page_u64 /\ m > 0 /\ r = R
      BY <2>2
    <3>2. i \in Nat /\ i < r * m
      BY <3>1
    <3>3. PICK q \in Nat, l \in Nat : q = i \div m /\ l = i % m /\ l < m /\ i = m * q + l
      BY <3>1, <3>2, Divided
    <3>4. q < r
      <4>1. CASE r <= q
        <5>1. m * r <= m * q /\ m * r = r * m
          BY <3>1, <4>1, ProductMonotone
        <5>2. PICK mq \in Nat : mq = m * q
          BY <3>1
        <5> QED
          BY <3>2, <3>3, <5>1, <5>2
      <4> QED
        BY <4>1
    <3>5. Values(IdOf("p", q)) = InputPage(q)
      BY <2>1, <3>1, <3>4 DEF Loaded, Back
    <3>6. l \in Page /\ q * m + l = i
      BY <3>1, <3>3 DEF Page
    <3>7. InputPage(q)[l] = Input(i)
      BY <3>1, <3>6 DEF InputPage
    <3> QED
      BY <3>1, <3>3, <3>5, <3>7
  <2>4. Coefficients("p", R) = [i \in 0 .. R * page_u64 - 1 |-> Input(i)]
    BY <2>3 DEF Coefficients
  <2> QED
    BY <2>1, <2>4, Zenon DEF Loaded, Back, CameBack, R, Old
<1> QED
  BY <1>1, SaveInvariant, PTL

\* sync and load come only to pages that live, and unless an error is returned
\* every chunk that lives is a page of p, listed once, after each of the two.
THEOREM SavePagesCorrect == SaveSpec => [](FetchedLive /\ ChunksOwned)
<1>1. SaveInv => FetchedLive
  <2> SUFFICES ASSUME SaveInv
               PROVE  FetchedLive
    OBVIOUS
  <2>1. ASSUME NEW was \in {0, R}, poly = PolyP(was), was = R => DOMAIN data = 0 .. R - 1,
               calls # <<>>, TheCall.op \in {"sync", "load"}, TheCall.f = "p", SaveInput
        PROVE  FetchedLive
    <3>1. PICK r \in Nat : r = R
      BY <2>1, SaveNumbers
    <3>2. poly["p"].pages = was /\ \A k \in 0 .. r - 1 : IdOf("p", k) = k
      BY <2>1, <3>1, PagesOfP
    <3>3. Fetched = {IdOf("p", k) : k \in 0 .. was - 1}
      BY <2>1, <3>2 DEF Fetched
    <3> QED
      BY <2>1, <3>1, <3>2, <3>3 DEF FetchedLive
  <2>2. CASE ToSync
    <3>1. calls # <<>> /\ TheCall.op = "sync" /\ TheCall.f = "p"
      BY <2>2 DEF ToSync, TheCall, Sync, Call
    <3>2. DOMAIN data = 0 .. R - 1
      BY <2>2 DEF ToSync
    <3> QED
      BY <2>1, <2>2, <3>1, <3>2 DEF ToSync, SaveInv
  <2>3. CASE ToLoad
    <3>1. calls # <<>> /\ TheCall.op = "load" /\ TheCall.f = "p"
      BY <2>3 DEF ToLoad, TheCall, Load, Call
    <3> QED
      BY <2>1, <2>3, <3>1 DEF ToLoad, HasPages, SaveInv
  <2>4. CASE Loaded
    BY <2>4 DEF Loaded, FetchedLive, Fetched
  <2> QED
    BY <2>2, <2>3, <2>4 DEF SaveInv
<1>2. SaveInv => ChunksOwned
  <2> SUFFICES ASSUME SaveInv, ~failed
               PROVE  ChunksOwned
    BY DEF ChunksOwned
  <2>1. PICK r \in Nat : r = R /\ input.op \in {"red", "save"} /\ SaveInput
    BY SaveNumbers DEF SaveInv, SaveInput
  <2>2. ASSUME NEW pages \in {0, r}, poly = PolyP(pages), DOMAIN data = 0 .. pages - 1
        PROVE  Listed
    <3>1. pages \in Nat /\ pages <= r
      BY <2>1
    <3>2. /\ poly["p"].pages = pages
          /\ \A f \in Polys \ {"p"} : poly[f].pages = 0
          /\ \A k \in 0 .. R - 1 : IdOf("p", k) = k
      BY <2>1, <2>2, PagesOfP, Zenon
    <3>3. \A k \in 0 .. pages - 1 : IdOf("p", k) = k
      BY <2>1, <3>1, <3>2
    <3> QED
      BY <2>2, <3>1, <3>2, <3>3 DEF Listed, IdsOf
  <2>3. CASE ToSync
    BY <2>1, <2>2, <2>3, ListedOwned DEF ToSync
  <2>4. CASE ToLoad
    <3>1. PICK was \in {0, r} : HasPages(was)
      BY <2>1, <2>4 DEF ToLoad
    <3>2. poly = PolyP(was) /\ DOMAIN data = 0 .. was - 1
      BY <3>1 DEF HasPages
    <3> QED
      BY <2>1, <2>2, <3>2, ListedOwned
  <2>5. CASE Loaded
    BY <2>1, <2>5, ListedOwned DEF Loaded
  <2> QED
    BY <2>3, <2>4, <2>5 DEF SaveInv
<1> QED
  BY <1>1, <1>2, SaveInvariant, PTL

=============================================================================
