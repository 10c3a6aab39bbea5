------------------------------ MODULE MCServer ------------------------------
(* Small instances of Server for TLC. *)
EXTENDS Server, TLC

CONSTANTS c1, c2, c3

ConnsThree == {c1, c2, c3}
Descriptors == {4, 5, 6, 7}

(* A 1 x 1 canvas: a cell of it, one past both edges, one on the edge. *)
InsideOrOut == {<<0, 0>>, <<2, 2>>}
OnTheEdge == {<<0, 0>>, <<1, 0>>}

ConnSymmetry == Permutations(Conns)
=============================================================================
