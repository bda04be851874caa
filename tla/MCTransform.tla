---------------------------- MODULE MCTransform ----------------------------
(* A small instance of TransformSafety for the model checker: the field of *)
(* 241 elements, pages of four, groups of every shape whose number of      *)
(* points divides 240, below and above the sizes done on the device.       *)
EXTENDS TransformSafety

Group(p0, p1, e2) == [p0 |-> p0, p1 |-> p1, e2 |-> e2]
Groups == {Group(1, 1, 1), Group(1, 1, 3), Group(1, 1, 4), Group(5, 1, 2),
           Group(5, 1, 3), Group(5, 3, 2), Group(3, 1, 4), Group(5, 1, 4)}

\* The group of all the 240 points, with p1 > 1 on the device.
Largest == Group(5, 3, 4)

Shapes == {"dense", "monomial", "binomial"}
Polynomial(n, shape) ==
    [i \in 0 .. n - 1 |->
       CASE shape = "dense" -> (7 * i + 3) % modulus
         [] shape = "monomial" -> IF i = n - 1 THEN 2 ELSE 0
         [] shape = "binomial" -> IF i = 1 THEN 5 ELSE IF i = n \div 2 THEN 1 ELSE 0]

Init ==
    \/ \E G \in Groups, op \in {"mul", "tg2", "tg2_gpu", "eval"}, shape \in Shapes :
         Start(op, G, Polynomial(PointsOf(G), shape), Polynomial(PointsOf(G), "dense"))
    \/ \E x \in Field :
         Start("mul", Group(1, 1, 1), [i \in 0 .. 1 |-> IF i = 0 THEN x ELSE 1], Polynomial(2, "dense"))
    \/ LET p == Polynomial(PointsOf(Largest), "binomial") IN Start("tg2_gpu", Largest, p, p)

Spec == Init /\ [][Next]_vars

=============================================================================
