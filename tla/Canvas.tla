------------------------------- MODULE Canvas -------------------------------
(***************************************************************************)
(* The canvases of src/src/canvas.c and the operations that read, write,   *)
(* copy and resize them.  A canvas is its size and a function from its     *)
(* cells to characters; an operation whose assertions may fail has a       *)
(* predicate that says when they hold.                                     *)
(***************************************************************************)
EXTENDS Integers

CONSTANTS
  Chars,   \* what a cell may hold
  Blank    \* ' '

ASSUME CanvasAssumption == Blank \in Chars

Cells(rows, cols) == (0 .. rows - 1) \X (0 .. cols - 1)
CellsOf(c) == Cells(c.rows, c.cols)

IsCanvas(c) == /\ c.rows \in Nat /\ c.cols \in Nat
               /\ c.at \in [CellsOf(c) -> Chars]
               /\ c = [rows |-> c.rows, cols |-> c.cols, at |-> c.at]

Lesser(a, b) == IF a < b THEN a ELSE b
Distance(a, b) == IF a < b THEN b - a ELSE a - b

(* canvas_fill() writes blanks, whatever character it is given.             *)
New(rows, cols) == [rows |-> rows, cols |-> cols,
                    at |-> [p \in Cells(rows, cols) |-> Blank]]

IsInYX(c, y, x) == 0 <= y /\ y < c.rows /\ 0 <= x /\ x < c.cols

SCharYX(c, y, x, ch) == [c EXCEPT !.at[<<y, x>>] = ch]

GCharYX(c, y, x) == c.at[<<y, x>>]

(* Mutated: the index runs down the columns. *)
MutGCharI(c, i) == c.at[<<i % c.rows, i \div c.rows>>]

(* The i-th cell, row by row *)
GCharI(c, i) == c.at[<<i \div c.cols, i % c.cols>>]

IsInI(c, i) == 0 <= i /\ i < c.rows * c.cols
SCharI(c, i, ch) == [c EXCEPT !.at[<<i \div c.cols, i % c.cols>>] = ch]

(* canvas_cpy(): row by row, into a canvas of the same size                 *)
Cpy(orig) == [New(orig.rows, orig.cols) EXCEPT !.at =
                [p \in CellsOf(orig) |-> orig.at[p]]]

(* canvas_cpy_p1p2(): the rectangle with the corners (y1, x1) and (y2, x2)  *)
CanCopy(c, y1, x1, y2, x2) == IsInYX(c, y1, x1) /\ IsInYX(c, y2, x2)

(* Mutated: the size of the rectangle leaves out one of the two ends. *)
MutCpyP1P2(c, y1, x1, y2, x2) ==
  LET height == Distance(y1, y2) + 1
      width == IF x1 = x2 THEN 1 ELSE Distance(x1, x2)
  IN [rows |-> height, cols |-> width,
      at |-> [p \in Cells(height, width) |->
                c.at[<<p[1] + Lesser(y1, y2), p[2] + Lesser(x1, x2)>>]]]

CpyP1P2(c, y1, x1, y2, x2) ==
  LET height == Distance(y1, y2) + 1
      width == Distance(x1, x2) + 1
  IN [rows |-> height, cols |-> width,
      at |-> [p \in Cells(height, width) |->
                c.at[<<p[1] + Lesser(y1, y2), p[2] + Lesser(x1, x2)>>]]]

(* canvas_ldcanvasyx(): as much of source as fits into dest from (y, x) on  *)
CanLoad(dest, y, x) == IsInYX(dest, y, x)

LdCanvasYX(dest, source, y, x) ==
  LET height == Lesser(dest.rows - y, source.rows)
      width == Lesser(dest.cols - x, source.cols)
  IN [dest EXCEPT !.at = [p \in CellsOf(dest) |->
        IF p[1] \in y .. y + height - 1 /\ p[2] \in x .. x + width - 1
        THEN source.at[<<p[1] - y, p[2] - x>>] ELSE dest.at[p]]]

(* canvas_ldcanvasyxc(): the same, but for the cells of source that hold     *)
(* the character taken to be transparent                                    *)
LdCanvasYXC(dest, source, y, x, transparent) ==
  LET height == Lesser(dest.rows - y, source.rows)
      width == Lesser(dest.cols - x, source.cols)
  IN [dest EXCEPT !.at = [p \in CellsOf(dest) |->
        IF /\ p[1] \in y .. y + height - 1 /\ p[2] \in x .. x + width - 1
           /\ source.at[<<p[1] - y, p[2] - x>>] # transparent
        THEN source.at[<<p[1] - y, p[2] - x>>] ELSE dest.at[p]]]

(* Mutated: rows and columns are swapped. *)
MutResize(c, rows, cols) == LdCanvasYX(New(cols, rows), c, 0, 0)

(* canvas_resize() *)
CanResize(rows, cols) == CanLoad(New(rows, cols), 0, 0)
Resize(c, rows, cols) == LdCanvasYX(New(rows, cols), c, 0, 0)

(* canvas_serialize(), as a sequence *)
Serialize(c) == [i \in 1 .. c.rows * c.cols |-> GCharI(c, i - 1)]

(* canvas_eq(): the sizes, then the cells one after the other               *)
Eq(a, b) == /\ a.cols = b.cols /\ a.rows = b.rows
            /\ \A i \in 0 .. a.cols * a.rows - 1 : GCharI(a, i) = GCharI(b, i)

(* canvas_fprint(), as a sequence: all of each row, and a newline           *)
FPrint(c, newline) ==
  LET width == c.cols + 1 IN
  [i \in 1 .. c.rows * width |->
     IF (i - 1) % width = c.cols THEN newline
     ELSE c.at[<<(i - 1) \div width, (i - 1) % width>>]]
=============================================================================
