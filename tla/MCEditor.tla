------------------------------ MODULE MCEditor ------------------------------
(* Small instances of Editor and Screen for TLC. *)
EXTENDS Screen

Dim(rows, cols) == [d \in Axes |-> IF d = "y" THEN rows ELSE cols]

(* Canvases wider, narrower, taller and lower than the windows, and that of *)
(* an empty file; terminals of 7 lines and 4 columns, of 5 and 3, and of 4  *)
(* lines, where view_max_y is -1                                            *)
SomeSizes == {Dim(1, 3), Dim(2, 1), Dim(0, 0)}
SomeWindows == {Dim(2, 2), Dim(0, 1), Dim(-1, 2)}

(* A canvas that leaves room in its window *)
SmallCanvas == {Dim(1, 2)}
LargeWindow == {Dim(3, 3)}
=============================================================================
