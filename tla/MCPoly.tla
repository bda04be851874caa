------------------------------- MODULE MCPoly -------------------------------
(* A small instance of PolySafety for the model checker.                   *)
EXTENDS PolySafety

\* The field of Goldilocks, and two whose orders have the factors 17 and 257.
Field241  == [q |-> 241, g |-> 7]
Field103  == [q |-> 103, g |-> 5]
Field1543 == [q |-> 1543, g |-> 5]

Pow241[x \in 0 .. 240, e \in Nat] ==
    IF e = 0 THEN 1 ELSE (Pow241[(x * x) % 241, e \div 2] * IF e % 2 = 1 THEN x ELSE 1) % 241

Mixed(n) == [i \in 0 .. n - 1 |-> (i * i + 3 * i + 1) % 241]
\* The polynomial with the given roots.
Rooted(roots) ==
    LET f[i \in 0 .. Len(roots)] ==
          IF i = 0 THEN [k \in {0} |-> 1]
          ELSE [k \in 0 .. i |->
                  ((IF k = 0 THEN 0 ELSE f[i - 1][k - 1])
                   - roots[i] * (IF k = i THEN 0 ELSE f[i - 1][k])) % 241]
    IN f[Len(roots)]
Padded(n, c) == [i \in 0 .. n - 1 |-> IF i \in DOMAIN c THEN c[i] ELSE 0]

\* Roots of x^16 = ratio, and of x^15 = 1.
Sixteenths(ratio, num) ==
    LET any == CHOOSE x \in 1 .. 240 : Pow241[x, 16] = ratio
    IN [i \in 1 .. num |-> (any * Pow241[7, 15 * i * i]) % 241]
Fifteenths(num) == [i \in 1 .. num |-> Pow241[7, 16 * (3 * i + 1)]]

Fold(n, period, ratio) ==
    Begin("red", Field241, n, Mixed(n), [period |-> period, ratio |-> ratio])

Roots(n, roots, period, ratio) ==
    Begin("roots", Field241, n, Padded(n, Rooted(roots)), [period |-> period, ratio |-> ratio])

Root(n, roots) == Begin("root", Field241, n, Padded(n, Rooted(roots)), 0)

\* Files of before: none, or three that the pages 0 and 1 replace in part.
Save(n, rm_src, old) ==
    Begin("save", Field241, n, Mixed(n), [rm_src |-> rm_src, old |-> old])

SaveInit ==
    \E rm_src \in BOOLEAN :
        Save(20, rm_src, {}) \/ Save(14, rm_src, {0, 2, 3}) \/ Save(14, rm_src, {1, 3})

Init ==
    \/ Fold(16, 8, 3) \/ Fold(16, 2, 3) \/ Fold(15, 5, 1) \/ Fold(40, 15, 2) \/ Fold(40, 30, 2)
    \/ \E n \in {2, 7, 11, 15} : Begin("tg", Field241, n, Mixed(n), 3)
    \/ \E n \in {2, 6, 9} : Begin("tg", Field241, n, Mixed(n), 5)
    \/ Begin("tg", Field103, 3, [i \in 0 .. 2 |-> i + 2], 17)
    \/ Begin("tg", Field1543, 2, [i \in 0 .. 1 |-> i + 2], 257)
    \/ Roots(40, <<3, 5>>, 16, 1)
    \/ \E ratio \in {1, 15} : Roots(40, Sixteenths(ratio, 2), 16, ratio)
    \/ \E num \in {2, 5} : Roots(40, <<0, 3>> \o Fifteenths(num), 15, 1)
    \/ Roots(40, <<>>, 15, 1)
    \/ Root(30, <<3, 5>>) \/ Root(30, <<>>) \/ Root(17, <<0, 0>>)
    \/ Root(30, <<2, 3, 4, 6>>)
    \/ SaveInit

Spec == Init /\ [][Next]_vars

\* Only the polynomials that are stored and loaded.
SaveSpec == SaveInit /\ [][Next]_vars

=============================================================================
