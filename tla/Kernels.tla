------------------------------- MODULE Kernels -------------------------------
(***************************************************************************)
(* The transforms of src/gpu_impl.cu on the values of one call: the device *)
(* kernels, and the host functions that call them for one T.  Of a         *)
(* transform with p0 * p1 * 2^e2 points the odd part acts across the pages *)
(* and the even part on each T of p0 * p1 blocks of 2^e2 values.           *)
(*                                                                         *)
(* A kernel's threads write disjoint values between two barriers, so a     *)
(* layer of butterflies is one function of the values before it.  A block  *)
(* of pages is one function on 0 .. n-1.                                   *)
(***************************************************************************)
EXTENDS FftSizes, SequencesExt

CONSTANTS RowBits,                  \* 11 in the code: a row of a page
          GroupBits                 \* 7 in the code: pages a device holds at once

ASSUME KernelAssumption ==
    RowBits \in 1 .. PageBits - 1 /\ PageBits <= 2 * RowBits /\ GroupBits \in Nat

gpuBits == PageBits + GroupBits     \* 25: the transforms done on the device

GroupPages == 2^GroupBits

\* One layer of butterflies at distance s; tw[k] is the factor of block k.
Butterfly(c, s, tw) ==
    [j \in DOMAIN c |->
       IF (j \div s) % 2 = 0 THEN add(c[j], mul(c[j + s], tw[j \div (2 * s)]))
                             ELSE sub(c[j - s], mul(c[j], tw[j \div (2 * s)]))]

InvButterfly(c, s, tw) ==
    [j \in DOMAIN c |->
       IF (j \div s) % 2 = 0 THEN add(c[j], c[j + s])
                             ELSE mul(sub(c[j - s], c[j]), tw[j \div (2 * s)])]

\* The layers hi-1 down to lo, and lo up to hi-1: layer E has distance
\* 2^E * unit and the factors w[E, block].
Layers(c, lo, hi, unit, w) ==
    LET f[E \in lo .. hi] ==
          IF E = hi THEN c ELSE Butterfly(f[E + 1], 2^E * unit, [k \in Nat |-> w[E, k]])
    IN f[lo]

InvLayers(c, lo, hi, unit, w) ==
    LET f[E \in lo .. hi] ==
          IF E = lo THEN c ELSE InvButterfly(f[E - 1], 2^(E - 1) * unit, [k \in Nat |-> w[E - 1, k]])
    IN f[hi]

\* gen_gp_rev: powers in bit-reversed order, at most a page of them.
gen_gp_rev(gp, nbits) ==
    [i \in 0 .. (IF 2^nbits > page_u64 THEN page_u64 ELSE 2^nbits) - 1 |->
       pow[gp, bit_rev(i, nbits)]]

\* The roots of unity of a group, from g or from its inverse.
gpOf(x, G) == pow[x, (modulus - 1) \div 2^G.e2]
ggOf(x, G) == pow[x, (modulus - 1) \div PointsOf(G)]

twist_biasLongRev(x, G, T, task, E) ==
    mul(pow[gpOf(x, G), bit_rev(task * 2^(PageBits - E - 1), G.e2)],
        pow[ggOf(x, G), T * 2^E])

\* twist_bias: the factor of page `task' in layer E of block T.
twist_bias(x, G, T, task, E) ==
    mul(pow[gpOf(x, G), bit_rev(task * 2^(PageBits - E - 1), G.e2 - 1)],
        pow[ggOf(x, G), T * 2^E])

(***************************************************************************)
(* Odd part.  launch_kernel_odd over p blocks of n pages: value i of the   *)
(* p values at one place is replaced by the sum of w x_j over j, where w   *)
(* starts at col0[i] and is multiplied by m[i].                            *)
(***************************************************************************)
kernel_odd(buf, p, n, col0, m) ==
    [k \in DOMAIN buf |->
       IF k >= p * n THEN buf[k]
       ELSE [l \in 0 .. page_u64 - 1 |->
              LET i == k \div n
                  Acc[j \in 0 .. p, w \in Field] ==
                    IF j = p THEN 0
                    ELSE add(mul(w, buf[(k % n) + j * n][l]), Acc[j + 1, mul(m[i], w)])
              IN Acc[0, col0[i]]]]

\* The same on pages j * p1 .. j * p1 + p1 - 1 for every j < p0.
OddRows(buf, G, first, ratio) ==
    [k \in DOMAIN buf |->
       LET j == k \div G.p1
           rows == kernel_odd([i \in 0 .. G.p1 - 1 |-> buf[j * G.p1 + i]], G.p1, 1,
                              [i \in Nat |-> first[j, i]], [i \in Nat |-> ratio[j, i]])
       IN rows[k % G.p1]]

OddTransform(buf, G) ==
    LET wp1 == pow[g, (modulus - 1) \div G.p1]
        wp0 == pow[g, (modulus - 1) \div G.p0]
        wpp == pow[g, (modulus - 1) \div (G.p0 * G.p1)]
        once == kernel_odd(buf, G.p0, G.p1, [i \in Nat |-> 1], [i \in Nat |-> pow[wp0, i]])
    IN IF G.p1 = 1 THEN once
       ELSE OddRows(once, G, [j \in Nat, i \in Nat |-> 1],
                    [j \in Nat, i \in Nat |-> mul(pow[wpp, j], pow[wp1, i])])

InvOddTransform(buf, G) ==
    LET wp1 == pow[inv(g), (modulus - 1) \div G.p1]
        wp0 == pow[inv(g), (modulus - 1) \div G.p0]
        wpp == pow[inv(g), (modulus - 1) \div (G.p0 * G.p1)]
        once == IF G.p1 = 1 THEN buf
                 ELSE OddRows(buf, G, [j \in Nat, i \in Nat |-> pow[wpp, i * j]],
                              [j \in Nat, i \in Nat |-> pow[wp1, i]])
    IN kernel_odd(once, G.p0, G.p1, [i \in Nat |-> 1], [i \in Nat |-> pow[wp0, i]])

TransposedNot(i, G) == i

\* A page index of the odd part and the index where fft_impl leaves the page.
Transposed(i, G) == (i % G.p1) * G.p0 + (i \div G.p1)

(***************************************************************************)
(* Even part on the host: cpu_fft_even and cpu_invfft_even.                *)
(***************************************************************************)
cpuTwist(x, G, T, E, blk) ==
    LET gp_rev == gen_gp_rev(gpOf(x, G), G.e2 - 1)
    IN IF E >= PageBits
       THEN mul(gp_rev[blk], pow[ggOf(x, G), T * 2^E])
       ELSE LET inPage == 2^(PageBits - E - 1)
            IN mul(twist_bias(x, G, T, blk \div inPage, E), gp_rev[blk % inPage])

cpu_fft_even(c, G, T) ==
    Layers(c, 0, G.e2, 1, [E \in Nat, k \in Nat |-> cpuTwist(g, G, T, E, k)])

cpu_invfft_even(c, G, T) ==
    InvLayers([j \in DOMAIN c |-> mul(c[j], inv(PointsOf(G) % modulus))], 0, G.e2, 1,
              [E \in Nat, k \in Nat |-> cpuTwist(inv(g), G, T, E, k)])

(***************************************************************************)
(* Even part on the device.  Layers E >= gpuBits are done on columns of    *)
(* pages 2^GroupBits apart, the layers between PageBits and gpuBits on     *)
(* groups of neighbouring pages, and those inside a page by kernel_fft_e18.*)
(***************************************************************************)
\* The factors of layers lo .. hi-1 one after the other, as the host packs
\* them for kernel_fft_e32.
PackTwist(lo, hi, w) ==
    FlattenSeq([n \in 1 .. hi - lo |->
                  [l \in 1 .. 2^(hi - lo - n) |-> w[lo + n - 1, l - 1]]])

PackedFromTop(twist, h, lbs, blk) == twist[2^(h - 1 - lbs) + blk]

\* The factor of block blk in layer lbs of a kernel over 2^h pages (or over a
\* row of 2^h values): the packed layers below lbs take 2^h - 2 * blocks.
Packed(twist, h, lbs, blk) == twist[(2^h - 2 * 2^(h - 1 - lbs)) + blk + 1]

kernel_fft_e32(c, h, twist) ==
    Layers(c, 0, h, page_u64, [lbs \in Nat, k \in Nat |-> Packed(twist, h, lbs, k)])

kernel_invfft_e32(c, h, twist) ==
    InvLayers(c, 0, h, page_u64, [lbs \in Nat, k \in Nat |-> Packed(twist, h, lbs, k)])

\* A page of 2^n values in rows of 2^r, 18 and 11 in the code.
\* compute_chunk_twist: for each row of a page its factors, packed.
compute_chunk_twist(n, r, gp_rev) ==
    FlattenSeq([row \in 1 .. 2^(n - r) |->
       Append(PackTwist(1, r + 1, [E \in Nat, i \in Nat |->
                                    gp_rev[i + ((row - 1) * 2^r) \div 2^E]]), 0)])

\* In a page the layers r .. n-1 run on columns with the factors of row 0, the
\* layers below on each row with the factors of that row.
rowTwist(ck_twist, r, factor, E, blk) ==
    IF E >= r
    THEN mul(factor[E], ck_twist[blk + 1])
    ELSE LET inRow == 2^(r - 1 - E)
         IN mul(factor[E], ck_twist[(blk \div inRow) * 2^r + 2^r - 2 * inRow + (blk % inRow) + 1])

kernel_fft_e18(c, n, r, ck_twist, bias) ==
    Layers(c, 0, n, 1, [E \in Nat, k \in Nat |-> rowTwist(ck_twist, r, bias, E, k)])

kernel_invfft_e18(c, n, r, ck_twist, bias, GSizeinv) ==
    InvLayers([j \in DOMAIN c |-> mul(GSizeinv, c[j])], 0, n, 1,
              [E \in Nat, k \in Nat |-> rowTwist(ck_twist, r, bias, E, k)])

\* Column t of a block is every 2^GroupBits-th page of it, from page t on.
Column(c, G, t) ==
    [y \in 0 .. 2^(G.e2 - GroupBits) - 1 |->
       c[((y \div page_u64) * GroupPages + t) * page_u64 + (y % page_u64)]]

\* The block with the columns cols.
FromColumns(c, cols) ==
    [j \in DOMAIN c |->
       LET pg == j \div page_u64
       IN cols[pg % GroupPages][(pg \div GroupPages) * page_u64 + (j % page_u64)]]

\* Part t of a block in parts of n values (a group of neighbouring pages, or a
\* page), and the block with the given parts.
Part(c, n, t) == [y \in 0 .. n - 1 |-> c[t * n + y]]
FromParts(c, n, parts) == [j \in DOMAIN c |-> parts[j \div n][j % n]]
PartsOf(c, n) == 0 .. Cardinality(DOMAIN c) \div n - 1

topTwist(x, G, T) ==
    PackTwist(gpuBits, G.e2,
      [E \in Nat, l \in Nat |->
         mul(gen_gp_rev(gpOf(x, G), G.e2 - 1)[l], pow[ggOf(x, G), T * 2^E])])

groupTwist(x, G, T, task) ==
    PackTwist(PageBits, gpuBits,
      [E \in Nat, l \in Nat |->
         mul(gen_gp_rev(gpOf(x, G), G.e2 - 1)[task * 2^(gpuBits - E - 1) + l],
             pow[ggOf(x, G), T * 2^E])])

TopFwd(c, G, T) ==
    LET twist == topTwist(g, G, T)
    IN FromColumns(c, [t \in 0 .. GroupPages - 1 |->
                         kernel_fft_e32(Column(c, G, t), G.e2 - gpuBits, twist)])

TopInv(c, G, T) ==
    LET twist == topTwist(inv(g), G, T)
    IN FromColumns(c, [t \in 0 .. GroupPages - 1 |->
                         kernel_invfft_e32(Column(c, G, t), G.e2 - gpuBits, twist)])

GroupFwd(c, G, T) ==
    LET ck_twist == compute_chunk_twist(PageBits, RowBits,
                                        gen_gp_rev(gpOf(g, G), G.e2 - 1))
        n == GroupPages * page_u64
        grouped == FromParts(c, n, [task \in PartsOf(c, n) |->
                     kernel_fft_e32(Part(c, n, task), GroupBits, groupTwist(g, G, T, task))])
    IN FromParts(c, page_u64, [pg \in PartsOf(c, page_u64) |->
         kernel_fft_e18(Part(grouped, page_u64, pg), PageBits, RowBits, ck_twist,
                        [E \in Nat |-> twist_bias(g, G, T, pg, E)])])

GroupInv(c, G, T) ==
    LET ck_twist == compute_chunk_twist(PageBits, RowBits,
                                        gen_gp_rev(gpOf(inv(g), G), G.e2 - 1))
        n == GroupPages * page_u64
        GSizeinv == inv(PointsOf(G) % modulus)
        inPages == FromParts(c, page_u64, [pg \in PartsOf(c, page_u64) |->
          kernel_invfft_e18(Part(c, page_u64, pg), PageBits, RowBits, ck_twist,
                            [E \in Nat |-> twist_bias(inv(g), G, T, pg, E)], GSizeinv)])
    IN FromParts(c, n, [task \in PartsOf(c, n) |->
         kernel_invfft_e32(Part(inPages, n, task), GroupBits, groupTwist(inv(g), G, T, task))])

gpu_fft_even(c, G, T)    == GroupFwd(TopFwd(c, G, T), G, T)
gpu_invfft_even(c, G, T) == TopInv(GroupInv(c, G, T), G, T)

\* The products in the transformed domain: e^2 - x o^2 at the point of value j.
tg2Point(G, T, j) ==
    mul(gen_gp_rev(gpOf(g, G), G.e2)[j % page_u64],
        pow[ggOf(g, G), T + G.p0 * G.p1 * bit_rev((j \div page_u64) * page_u64, G.e2)])

kernel_tg2(e, o, G, T) ==
    [j \in DOMAIN e |-> sub(mul(e[j], e[j]), mul(mul(o[j], o[j]), tg2Point(G, T, j)))]

=============================================================================
