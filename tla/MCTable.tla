------------------------------ MODULE MCTable ------------------------------
EXTENDS Table, TLC

CONSTANTS p1, p2, p3, k1, k2, k3, k4, k5, v1, v2

(* Three keys share the first root row, two the second.  Only k1 is ever   *)
(* overwritten with another value; neighbours in a chain differ in theirs. *)
Hash2 == [k \in Keys |-> IF k \in {k1, k2, k3} THEN 1 ELSE 2]
Given2 == [k \in Keys |-> CASE k = k1 -> {v1, v2} [] k \in {k3, k4} -> {v1} [] OTHER -> {v2}]
Loads1 == {<<k1>>}
Loads3 == {<<>>, <<k1, k2, k3, k4>>, <<k1, k2, k4, k5>>}
=============================================================================
