----------------------------- MODULE MCSession ------------------------------
(* Small instances of Session for TLC. *)
EXTENDS Session, TLC

CONSTANTS a, b, j, k1, k2

(* Only a draws. *)
OneAuthor == (a :> {k1}) @@ (j :> {})

(* Only a draws, and two join late and look on. *)
OneAuthorOfThree == (a :> {k1}) @@ (b :> {}) @@ (j :> {})

(* b and j are alike where neither draws. *)
Lookers == Permutations({b, j})

(* j, who joins late, draws as well. *)
LateAuthor == (a :> {k1}) @@ (j :> {k2})

(* a and b draw in the same cell. *)
SameCell == (a :> {k1}) @@ (b :> {k1})
=============================================================================
