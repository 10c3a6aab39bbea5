---------------------------- MODULE CanvasProofs ----------------------------
(***************************************************************************)
(* What the operations of src/src/canvas.c keep, for canvases of every     *)
(* size and content: the tests of canvas_test.c try a few small ones.      *)
(***************************************************************************)
EXTENDS Canvas, TLAPS

(* A record with the fields of a canvas is one if its cells hold characters. *)
LEMMA MakeCanvas ==
  ASSUME NEW rows \in Nat, NEW cols \in Nat,
         NEW f \in [Cells(rows, cols) -> Chars]
  PROVE  IsCanvas([rows |-> rows, cols |-> cols, at |-> f])
BY DEF IsCanvas, CellsOf

(* canvas_new(): blank, and of the size asked for *)
LEMMA NewIsCanvas ==
  ASSUME NEW rows \in Nat, NEW cols \in Nat
  PROVE  IsCanvas(New(rows, cols))
BY CanvasAssumption, MakeCanvas DEF New

(* The corners that a copy is made between, in either order, bound it. *)
LEMMA CopyInside ==
  ASSUME NEW c, IsCanvas(c), NEW y1 \in Int, NEW x1 \in Int,
         NEW y2 \in Int, NEW x2 \in Int, CanCopy(c, y1, x1, y2, x2)
  PROVE  /\ Lesser(y1, y2) \in Nat /\ Lesser(x1, x2) \in Nat
         /\ Distance(y1, y2) \in Nat /\ Distance(x1, x2) \in Nat
         /\ Lesser(y1, y2) + Distance(y1, y2) + 1 <= c.rows
         /\ Lesser(x1, x2) + Distance(x1, x2) + 1 <= c.cols
<1>1. c.rows \in Nat /\ c.cols \in Nat
  BY DEF IsCanvas
<1> QED  BY <1>1 DEF CanCopy, IsInYX, Lesser, Distance

(* canvas_cpy_p1p2(): behind its assertions on the two corners, its other   *)
(* assertions and the rows it copies stay inside both canvases.             *)
THEOREM CopyIsCanvas ==
  ASSUME NEW c, IsCanvas(c), NEW y1 \in Int, NEW x1 \in Int,
         NEW y2 \in Int, NEW x2 \in Int, CanCopy(c, y1, x1, y2, x2)
  PROVE  IsCanvas(CpyP1P2(c, y1, x1, y2, x2))
<1> DEFINE y == Lesser(y1, y2)
           x == Lesser(x1, x2)
           height == Distance(y1, y2) + 1
           width == Distance(x1, x2) + 1
<1>1. /\ y \in Nat /\ x \in Nat /\ height \in Nat /\ width \in Nat
      /\ y + height <= c.rows /\ x + width <= c.cols
  BY CopyInside
<1>2. c.rows \in Nat /\ c.cols \in Nat /\ c.at \in [Cells(c.rows, c.cols) -> Chars]
  BY DEF IsCanvas, CellsOf
<1> HIDE DEF y, x, height, width
<1>3. ASSUME NEW p \in Cells(height, width)
      PROVE  c.at[<<p[1] + y, p[2] + x>>] \in Chars
  <2>1. <<p[1] + y, p[2] + x>> \in Cells(c.rows, c.cols)
    BY <1>1, <1>2, <1>3 DEF Cells
  <2> QED  BY <1>2, <2>1
<1>4. [p \in Cells(height, width) |-> c.at[<<p[1] + y, p[2] + x>>]]
        \in [Cells(height, width) -> Chars]
  BY <1>3
<1>5. IsCanvas([rows |-> height, cols |-> width,
                at |-> [p \in Cells(height, width) |-> c.at[<<p[1] + y, p[2] + x>>]]])
  BY <1>1, <1>4, MakeCanvas
<1> QED  BY <1>5 DEF CpyP1P2, y, x, height, width

(* canvas_ldcanvasyx(): cell by cell, whatever part of the source fits *)
LEMMA LoadedCell ==
  ASSUME NEW dest, IsCanvas(dest), NEW source, IsCanvas(source),
         NEW y \in Nat, NEW x \in Nat, CanLoad(dest, y, x)
  PROVE  LET loaded == LdCanvasYX(dest, source, y, x) IN
         /\ IsCanvas(loaded)
         /\ loaded.rows = dest.rows /\ loaded.cols = dest.cols
         /\ \A p \in CellsOf(dest) :
              loaded.at[p] = IF <<p[1] - y, p[2] - x>> \in CellsOf(source)
                             THEN source.at[<<p[1] - y, p[2] - x>>] ELSE dest.at[p]
<1> DEFINE height == Lesser(dest.rows - y, source.rows)
           width == Lesser(dest.cols - x, source.cols)
           fits(p) == p[1] \in y .. y + height - 1 /\ p[2] \in x .. x + width - 1
           cell(p) == IF fits(p) THEN source.at[<<p[1] - y, p[2] - x>>] ELSE dest.at[p]
           at == [p \in CellsOf(dest) |-> cell(p)]
<1>1. /\ dest.rows \in Nat /\ dest.cols \in Nat
      /\ dest.at \in [CellsOf(dest) -> Chars]
      /\ dest = [rows |-> dest.rows, cols |-> dest.cols, at |-> dest.at]
      /\ source.rows \in Nat /\ source.cols \in Nat
      /\ source.at \in [CellsOf(source) -> Chars]
  BY DEF IsCanvas
<1>2. ASSUME NEW p \in CellsOf(dest)
      PROVE  fits(p) <=> <<p[1] - y, p[2] - x>> \in CellsOf(source)
  BY <1>1, <1>2 DEF CellsOf, Cells, Lesser, CanLoad, IsInYX
<1>3. LdCanvasYX(dest, source, y, x) = [dest EXCEPT !.at = at]
  BY DEF LdCanvasYX
<1>4. at \in [CellsOf(dest) -> Chars]
  BY <1>1, <1>2
<1> HIDE DEF at
<1>5. LdCanvasYX(dest, source, y, x) = [rows |-> dest.rows, cols |-> dest.cols, at |-> at]
  BY <1>1, <1>3
<1>6. IsCanvas([rows |-> dest.rows, cols |-> dest.cols, at |-> at])
  BY <1>1, <1>4, MakeCanvas DEF CellsOf
<1>7. \A p \in CellsOf(dest) :
        at[p] = IF <<p[1] - y, p[2] - x>> \in CellsOf(source)
                THEN source.at[<<p[1] - y, p[2] - x>>] ELSE dest.at[p]
  BY <1>2 DEF at
<1> QED  BY <1>5, <1>6, <1>7

(* Two canvases of the same size with the same cells are the same. *)
LEMMA SameCanvas ==
  ASSUME NEW c, IsCanvas(c), NEW d, IsCanvas(d), c.rows = d.rows, c.cols = d.cols,
         \A p \in CellsOf(c) : c.at[p] = d.at[p]
  PROVE  c = d
<1>1. c.at \in [CellsOf(c) -> Chars] /\ d.at \in [CellsOf(c) -> Chars]
  BY DEF IsCanvas, CellsOf
<1>2. c.at = d.at
  BY <1>1
<1> QED  BY <1>2 DEF IsCanvas

(* What was copied with canvas_cpy_p1p2() and is loaded back where it came  *)
(* from leaves the canvas as it was, whichever corners were named.          *)
THEOREM CopyThenPaste ==
  ASSUME NEW c, IsCanvas(c), NEW y1 \in Int, NEW x1 \in Int,
         NEW y2 \in Int, NEW x2 \in Int, CanCopy(c, y1, x1, y2, x2)
  PROVE  LdCanvasYX(c, CpyP1P2(c, y1, x1, y2, x2), Lesser(y1, y2), Lesser(x1, x2)) = c
<1> DEFINE y == Lesser(y1, y2)
           x == Lesser(x1, x2)
           copy == CpyP1P2(c, y1, x1, y2, x2)
           pasted == LdCanvasYX(c, copy, y, x)
<1>1. /\ y \in Nat /\ x \in Nat
      /\ y + Distance(y1, y2) + 1 <= c.rows /\ x + Distance(x1, x2) + 1 <= c.cols
      /\ Distance(y1, y2) \in Nat /\ Distance(x1, x2) \in Nat
  BY CopyInside
<1>2. c.rows \in Nat /\ c.cols \in Nat
  BY DEF IsCanvas
<1>3. CanLoad(c, y, x)
  BY <1>1, <1>2 DEF CanLoad, IsInYX
<1>4. IsCanvas(copy)
  BY CopyIsCanvas
<1>5. \A q \in CellsOf(copy) : copy.at[q] = c.at[<<q[1] + y, q[2] + x>>]
  BY DEF CpyP1P2, CellsOf
<1> HIDE DEF copy, y, x
<1>6. /\ IsCanvas(pasted) /\ pasted.rows = c.rows /\ pasted.cols = c.cols
      /\ \A p \in CellsOf(c) :
           pasted.at[p] = IF <<p[1] - y, p[2] - x>> \in CellsOf(copy)
                          THEN copy.at[<<p[1] - y, p[2] - x>>] ELSE c.at[p]
  BY <1>1, <1>3, <1>4, LoadedCell
<1> HIDE DEF pasted
<1>7. ASSUME NEW p \in CellsOf(c)
      PROVE  pasted.at[p] = c.at[p]
  <2>1. <<p[1] - y + y, p[2] - x + x>> = p
    BY <1>1, <1>2, <1>7 DEF CellsOf, Cells
  <2>2. CASE <<p[1] - y, p[2] - x>> \in CellsOf(copy)
    <3>1. copy.at[<<p[1] - y, p[2] - x>>] = c.at[<<p[1] - y + y, p[2] - x + x>>]
      BY <1>5, <2>2
    <3> QED  BY <1>6, <1>7, <2>1, <2>2, <3>1
  <2>3. CASE <<p[1] - y, p[2] - x>> \notin CellsOf(copy)
    BY <1>6, <1>7, <2>3
  <2> QED  BY <2>2, <2>3
<1>8. \A p \in CellsOf(pasted) : pasted.at[p] = c.at[p]
  BY <1>6, <1>7 DEF CellsOf
<1>9. pasted = c
  BY <1>6, <1>8, SameCanvas
<1> QED  BY <1>9 DEF pasted, copy, y, x

(* canvas_resize() keeps what both sizes have and blanks the rest.          *)
THEOREM ResizeCropsOrExtends ==
  ASSUME NEW c, IsCanvas(c), NEW rows \in Nat, NEW cols \in Nat,
         CanResize(rows, cols)
  PROVE  LET resized == Resize(c, rows, cols) IN
         /\ IsCanvas(resized) /\ resized.rows = rows /\ resized.cols = cols
         /\ \A p \in CellsOf(resized) :
              resized.at[p] = IF p \in CellsOf(c) THEN c.at[p] ELSE Blank
<1> DEFINE new == New(rows, cols)
           resized == Resize(c, rows, cols)
<1>1. /\ IsCanvas(new) /\ CanLoad(new, 0, 0)
      /\ new.rows = rows /\ new.cols = cols
      /\ \A p \in CellsOf(new) : new.at[p] = Blank
  BY NewIsCanvas DEF CanResize, New, CellsOf
<1>2. resized = LdCanvasYX(new, c, 0, 0)
  BY DEF Resize
<1> HIDE DEF new
<1>3. /\ IsCanvas(resized) /\ resized.rows = rows /\ resized.cols = cols
      /\ \A p \in CellsOf(new) :
           resized.at[p] = IF <<p[1] - 0, p[2] - 0>> \in CellsOf(c)
                           THEN c.at[<<p[1] - 0, p[2] - 0>>] ELSE new.at[p]
  BY <1>1, <1>2, LoadedCell
<1> HIDE DEF resized
<1>4. \A p \in CellsOf(new) : <<p[1] - 0, p[2] - 0>> = p
  BY <1>1 DEF CellsOf, Cells
<1>5. CellsOf(resized) = CellsOf(new)
  BY <1>1, <1>3 DEF CellsOf
<1>6. \A p \in CellsOf(resized) :
        resized.at[p] = IF p \in CellsOf(c) THEN c.at[p] ELSE Blank
  BY <1>1, <1>3, <1>4, <1>5
<1> QED  BY <1>3, <1>6 DEF resized

(* A canvas that is made larger and then as small as it was is the same.    *)
THEOREM GrowThenShrink ==
  ASSUME NEW c, IsCanvas(c), NEW rows \in Nat, NEW cols \in Nat,
         0 < c.rows, c.rows <= rows, 0 < c.cols, c.cols <= cols
  PROVE  Resize(Resize(c, rows, cols), c.rows, c.cols) = c
<1> DEFINE large == Resize(c, rows, cols)
           back == Resize(large, c.rows, c.cols)
<1>1. c.rows \in Nat /\ c.cols \in Nat
  BY DEF IsCanvas
<1>2. CanResize(rows, cols) /\ CanResize(c.rows, c.cols)
  BY <1>1 DEF CanResize, CanLoad, IsInYX, New
<1>3. /\ IsCanvas(large) /\ large.rows = rows /\ large.cols = cols
      /\ \A p \in CellsOf(large) :
           large.at[p] = IF p \in CellsOf(c) THEN c.at[p] ELSE Blank
  BY <1>2, ResizeCropsOrExtends
<1> HIDE DEF large
<1>4. /\ IsCanvas(back) /\ back.rows = c.rows /\ back.cols = c.cols
      /\ \A p \in CellsOf(back) :
           back.at[p] = IF p \in CellsOf(large) THEN large.at[p] ELSE Blank
  BY <1>1, <1>2, <1>3, ResizeCropsOrExtends
<1> HIDE DEF back
<1>5. CellsOf(back) = CellsOf(c) /\ CellsOf(c) \subseteq CellsOf(large)
  BY <1>1, <1>3, <1>4 DEF CellsOf, Cells
<1>6. back = c
  BY <1>3, <1>4, <1>5, SameCanvas
<1> QED  BY <1>6 DEF back, large

-----------------------------------------------------------------------------
(* Cells by a single index: what canvas_gchari(), canvas_schari() and the    *)
(* loops over i in canvas_serialize() and canvas_eq() rest on.              *)

(* Rows of n cells each: the i-th cell, and the place of a cell. *)
LEMMA RowAndColumn ==
  ASSUME NEW n \in Nat, n > 0, NEW y \in Nat, NEW x \in 0 .. n - 1
  PROVE  (y * n + x) \div n = y /\ (y * n + x) % n = x
<1> DEFINE i == y * n + x
           q == i \div n
           r == i % n
<1>1. y * n \in Nat /\ i \in Nat
  OBVIOUS
<1>2. q \in Int /\ r \in 0 .. n - 1 /\ i = n * q + r
  BY <1>1
<1> HIDE DEF q, r
<1>3. ~(q > y)
  <2> SUFFICES ASSUME q >= y + 1 PROVE FALSE
    BY <1>2
  <2>1. n * q >= n * (y + 1)
    BY <1>2
  <2>2. n * (y + 1) = y * n + n
    OBVIOUS
  <2> QED
    BY <1>1, <1>2, <2>1, <2>2
<1>4. ~(q < y)
  <2> SUFFICES ASSUME q + 1 <= y PROVE FALSE
    BY <1>2
  <2>1. n * (q + 1) <= n * y
    BY <1>2
  <2>2. n * (q + 1) = n * q + n /\ n * y = y * n
    BY <1>2
  <2> QED
    BY <1>1, <1>2, <2>1, <2>2
<1>5. q = y
  BY <1>2, <1>3, <1>4
<1>6. r = x
  <2>1. n * y = y * n
    OBVIOUS
  <2> QED
    BY <1>1, <1>2, <1>5, <2>1
<1> QED
  BY <1>5, <1>6 DEF q, r

(* The last cell before the end is the last of the last row.                *)
LEMMA IndexInside ==
  ASSUME NEW rows \in Nat, NEW n \in Nat, NEW y \in 0 .. rows - 1, NEW x \in 0 .. n - 1
  PROVE  y * n + x \in 0 .. rows * n - 1
<1>1. (y + 1) * n <= rows * n
  OBVIOUS
<1>2. (y + 1) * n = y * n + n /\ y * n \in Nat /\ rows * n \in Nat
  OBVIOUS
<1> QED
  BY <1>1, <1>2

(* Both, for a cell of a canvas *)
LEMMA CellIndex ==
  ASSUME NEW rows \in Nat, NEW n \in Nat, NEW p \in Cells(rows, n)
  PROVE  /\ p = <<p[1], p[2]>>
         /\ p[1] * n + p[2] \in 0 .. rows * n - 1
         /\ (p[1] * n + p[2]) \div n = p[1]
         /\ (p[1] * n + p[2]) % n = p[2]
<1>1. PICK y \in 0 .. rows - 1, x \in 0 .. n - 1 : p = <<y, x>>
  BY DEF Cells
<1>2. n > 0 /\ y \in Nat
  OBVIOUS
<1>3. (y * n + x) \div n = y /\ (y * n + x) % n = x
  BY <1>2, RowAndColumn
<1>4. y * n + x \in 0 .. rows * n - 1
  BY IndexInside
<1>5. p[1] = y /\ p[2] = x
  BY <1>1
<1> QED
  BY <1>1, <1>3, <1>4, <1>5, Zenon

(* canvas_eq() and canvas_serialize() look at every cell: two canvases are   *)
(* equal for canvas_eq() only if they are the same.                         *)
THEOREM EqIsEquality ==
  ASSUME NEW a, IsCanvas(a), NEW b, IsCanvas(b)
  PROVE  Eq(a, b) <=> a = b
<1>1. a.rows \in Nat /\ a.cols \in Nat
  BY DEF IsCanvas
<1>2. ASSUME Eq(a, b), NEW p \in CellsOf(a) PROVE a.at[p] = b.at[p]
  <2> DEFINE i == p[1] * a.cols + p[2]
  <2>1. p = <<p[1], p[2]>>
    BY <1>1, CellIndex DEF CellsOf
  <2>2. i \in 0 .. a.rows * a.cols - 1 /\ a.rows * a.cols = a.cols * a.rows
    BY <1>1, CellIndex DEF CellsOf
  <2>3. i \div a.cols = p[1] /\ i % a.cols = p[2]
    BY <1>1, CellIndex DEF CellsOf
  <2> HIDE DEF i
  <2>4. GCharI(a, i) = GCharI(b, i)
    BY <1>2, <2>2 DEF Eq
  <2>5. GCharI(a, i) = a.at[<<p[1], p[2]>>] /\ GCharI(b, i) = b.at[<<p[1], p[2]>>]
    BY <1>2, <2>3 DEF GCharI, Eq
  <2> QED
    BY <2>1, <2>4, <2>5
<1>3. Eq(a, b) => a = b
  BY <1>2, SameCanvas DEF Eq
<1>4. a = b => Eq(a, b)
  BY DEF Eq
<1> QED
  BY <1>3, <1>4

(* canvas_cpy() is a copy, for canvas_eq() too.                             *)
THEOREM CpyIsEqual ==
  ASSUME NEW c, IsCanvas(c)
  PROVE  Cpy(c) = c /\ Eq(Cpy(c), c)
<1>1. c.at = [p \in CellsOf(c) |-> c.at[p]]
  BY DEF IsCanvas
<1>2. Cpy(c) = c
  BY <1>1 DEF Cpy, New, IsCanvas
<1> QED
  BY <1>2, EqIsEquality

(* canvas_serialize() puts the cell (y, x) where canvas_deserialize() and    *)
(* canvas_gchari() look for it, and canvas_schari() writes to it.           *)
THEOREM SerializedInRows ==
  ASSUME NEW c, IsCanvas(c), NEW p \in CellsOf(c)
  PROVE  LET i == p[1] * c.cols + p[2] IN
         /\ IsInI(c, i)
         /\ Serialize(c)[i + 1] = GCharYX(c, p[1], p[2])
         /\ \A ch \in Chars : SCharI(c, i, ch) = SCharYX(c, p[1], p[2], ch)
<1> DEFINE i == p[1] * c.cols + p[2]
<1>1. c.rows \in Nat /\ c.cols \in Nat
  BY DEF IsCanvas
<1>2. p = <<p[1], p[2]>>
  BY <1>1, CellIndex DEF CellsOf
<1>3. i \in 0 .. c.rows * c.cols - 1
  BY <1>1, CellIndex DEF CellsOf
<1>4. i \div c.cols = p[1] /\ i % c.cols = p[2]
  BY <1>1, CellIndex DEF CellsOf
<1> HIDE DEF i
<1>5. IsInI(c, i) /\ i \in Nat /\ i + 1 \in 1 .. c.rows * c.cols
  <2> DEFINE size == c.rows * c.cols
  <2>1. size \in Nat /\ i \in 0 .. size - 1
    BY <1>1, <1>3
  <2> HIDE DEF size
  <2>2. 0 <= i /\ i < size /\ i \in Nat /\ i + 1 \in 1 .. size
    BY <2>1
  <2> QED
    BY <2>2 DEF IsInI, size
<1>6. Serialize(c)[i + 1] = GCharYX(c, p[1], p[2])
  <2> DEFINE size == c.rows * c.cols
             k == i + 1
  <2>1. k \in 1 .. size /\ k - 1 = i
    BY <1>5
  <2>2. \A j \in 1 .. size : Serialize(c)[j] = GCharI(c, j - 1)
    BY DEF Serialize
  <2> HIDE DEF size, k
  <2>3. Serialize(c)[k] = GCharI(c, i)
    <3>1. Serialize(c)[k] = GCharI(c, k - 1)
      BY <2>1, <2>2
    <3> QED
      BY <2>1, <3>1
  <2>4. GCharI(c, i) = c.at[<<p[1], p[2]>>]
    BY <1>4 DEF GCharI
  <2> QED
    BY <1>2, <2>3, <2>4 DEF k, GCharYX
<1>7. \A ch \in Chars : SCharI(c, i, ch) = SCharYX(c, p[1], p[2], ch)
  BY <1>4 DEF SCharI, SCharYX
<1> QED
  BY <1>5, <1>6, <1>7 DEF i

(* canvas_fprint(): each row is followed by a newline, and holds its cells,  *)
(* trailing blanks and all.                                                 *)
THEOREM PrintedInRows ==
  ASSUME NEW c, IsCanvas(c), NEW newline, NEW y \in 0 .. c.rows - 1
  PROVE  LET printed == FPrint(c, newline)
             start == y * (c.cols + 1) + 1
         IN /\ printed[start + c.cols] = newline
            /\ \A x \in 0 .. c.cols - 1 : printed[start + x] = c.at[<<y, x>>]
<1> DEFINE width == c.cols + 1
           printed == FPrint(c, newline)
<1>1. c.rows \in Nat /\ c.cols \in Nat /\ width \in Nat /\ width > 0 /\ y \in Nat
  BY DEF IsCanvas
<1>2. ASSUME NEW x \in 0 .. c.cols
      PROVE  printed[y * width + 1 + x] = IF x = c.cols THEN newline ELSE c.at[<<y, x>>]
  <2> DEFINE i == y * width + x
  <2>1. i \in 0 .. c.rows * width - 1
    BY <1>1, IndexInside
  <2>2. i \div width = y /\ i % width = x
    <3> HIDE DEF width
    <3>1. x \in 0 .. width - 1
      BY <1>1 DEF width
    <3> QED
      BY <1>1, <3>1, RowAndColumn
  <2> DEFINE size == c.rows * width
             start == y * width
  <2>3. size \in Nat /\ start \in Nat /\ i = start + x
    BY <1>1
  <2> DEFINE k == i + 1
  <2> HIDE DEF i, width, printed, size, start
  <2>4. k \in 1 .. size /\ k - 1 = i /\ start + 1 + x = k
    BY <2>1, <2>3 DEF size
  <2>5. \A j \in 1 .. size :
          printed[j] = IF (j - 1) % width = c.cols THEN newline
                       ELSE c.at[<<(j - 1) \div width, (j - 1) % width>>]
    BY DEF FPrint, width, printed, size
  <2> HIDE DEF k
  <2>6. printed[k] = IF (k - 1) % width = c.cols THEN newline
                     ELSE c.at[<<(k - 1) \div width, (k - 1) % width>>]
    BY <2>4, <2>5
  <2>7. printed[k] = IF x = c.cols THEN newline ELSE c.at[<<y, x>>]
    BY <2>2, <2>4, <2>6
  <2> QED
    BY <2>4, <2>7 DEF start
<1> HIDE DEF width, printed
<1>3. printed[y * width + 1 + c.cols] = newline
  <2>1. c.cols \in 0 .. c.cols
    BY <1>1
  <2> QED
    BY <1>2, <2>1
<1>4. ASSUME NEW x \in 0 .. c.cols - 1
      PROVE  printed[y * width + 1 + x] = c.at[<<y, x>>]
  <2>1. x \in 0 .. c.cols /\ x # c.cols
    BY <1>1
  <2> QED
    BY <1>2, <2>1
<1> QED
  BY <1>3, <1>4 DEF width, printed

(* canvas_ldcanvasyxc(): the source lies over the canvas, which shows        *)
(* through where the source holds the transparent character; without any    *)
(* such cell it is canvas_ldcanvasyx().                                     *)
THEOREM OverlayShowsThrough ==
  ASSUME NEW dest, IsCanvas(dest), NEW source, IsCanvas(source),
         NEW y \in Nat, NEW x \in Nat, CanLoad(dest, y, x), NEW transparent
  PROVE  LET over == LdCanvasYXC(dest, source, y, x, transparent)
             loaded == LdCanvasYX(dest, source, y, x)
         IN /\ IsCanvas(over) /\ over.rows = dest.rows /\ over.cols = dest.cols
            /\ \A p \in CellsOf(dest) :
                 over.at[p] = IF loaded.at[p] = transparent THEN dest.at[p] ELSE loaded.at[p]
            /\ (\A q \in CellsOf(source) : source.at[q] # transparent) => over = loaded
<1> DEFINE height == Lesser(dest.rows - y, source.rows)
           width == Lesser(dest.cols - x, source.cols)
           fits(p) == p[1] \in y .. y + height - 1 /\ p[2] \in x .. x + width - 1
           from(p) == source.at[<<p[1] - y, p[2] - x>>]
           at == [p \in CellsOf(dest) |-> IF fits(p) /\ from(p) # transparent
                                          THEN from(p) ELSE dest.at[p]]
           loadedAt == [p \in CellsOf(dest) |-> IF fits(p) THEN from(p) ELSE dest.at[p]]
<1>1. /\ dest.rows \in Nat /\ dest.cols \in Nat
      /\ dest.at \in [CellsOf(dest) -> Chars]
      /\ dest = [rows |-> dest.rows, cols |-> dest.cols, at |-> dest.at]
      /\ source.rows \in Nat /\ source.cols \in Nat
      /\ source.at \in [CellsOf(source) -> Chars]
  BY DEF IsCanvas
<1>2. ASSUME NEW p \in CellsOf(dest), fits(p)
      PROVE  <<p[1] - y, p[2] - x>> \in CellsOf(source) /\ from(p) \in Chars
  <2>1. <<p[1] - y, p[2] - x>> \in CellsOf(source)
    BY <1>1, <1>2 DEF CellsOf, Cells, Lesser, CanLoad, IsInYX
  <2> QED
    BY <1>1, <2>1
<1>3. LdCanvasYXC(dest, source, y, x, transparent) = [dest EXCEPT !.at = at]
  BY DEF LdCanvasYXC
<1>4. LdCanvasYX(dest, source, y, x) = [dest EXCEPT !.at = loadedAt]
  BY DEF LdCanvasYX
<1>5. at \in [CellsOf(dest) -> Chars]
  BY <1>1, <1>2
<1>6. /\ \A p \in CellsOf(dest) :
           at[p] = IF loadedAt[p] = transparent THEN dest.at[p] ELSE loadedAt[p]
      /\ (\A q \in CellsOf(source) : source.at[q] # transparent) => at = loadedAt
  BY <1>2
<1> HIDE DEF at, loadedAt
<1>7. /\ LdCanvasYXC(dest, source, y, x, transparent)
           = [rows |-> dest.rows, cols |-> dest.cols, at |-> at]
      /\ LdCanvasYX(dest, source, y, x)
           = [rows |-> dest.rows, cols |-> dest.cols, at |-> loadedAt]
  BY <1>1, <1>3, <1>4
<1>8. IsCanvas([rows |-> dest.rows, cols |-> dest.cols, at |-> at])
  BY <1>1, <1>5, MakeCanvas DEF CellsOf
<1> QED
  BY <1>6, <1>7, <1>8
=============================================================================
