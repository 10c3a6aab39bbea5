---------------------------- MODULE DrawingProofs ---------------------------
(***************************************************************************)
(* What the loops of src/src/canvas.c over texts and rows come to, for     *)
(* texts and drawings of any size, and what that makes of the editor's     *)
(* commands that save, load, trim and start.                               *)
(***************************************************************************)
EXTENDS Drawing, CanvasProofs, CommandLineProofs

-----------------------------------------------------------------------------
(* The states of the loops *)

(* canvas_ldstryxc(), character by character *)
Loading(st, c, str, y, x, transparent) ==
  /\ st[0] = [canvas |-> c, row |-> y, col |-> x, read |-> 0, put |-> 0,
         stopped |-> FALSE, failed |-> FALSE]
  /\ \A i \in 1 .. Len(str) : st[i] = LdChar(st[i - 1], str[i], x, transparent)
  /\ LdStrYXC(c, str, y, x, transparent) = st[Len(str)]

LEMMA LdSteps ==
  ASSUME NEW c, NEW str, Len(str) \in Nat, NEW y, NEW x, NEW transparent
  PROVE  \E st : Loading(st, c, str, y, x, transparent)
<1> DEFINE n == Len(str)
           start == [canvas |-> c, row |-> y, col |-> x, read |-> 0, put |-> 0,
               stopped |-> FALSE, failed |-> FALSE]
           T == {m \in 0 .. n : \E f : f = [i \in 0 .. m |->
                   IF i = 0 THEN start ELSE LdChar(f[i - 1], str[i], x, transparent)]}
           loop[i \in 0 .. n] == IF i = 0 THEN start ELSE LdChar(loop[i - 1], str[i],
               x, transparent)
<1>1. LdStrYXC(c, str, y, x, transparent) = loop[n]
  BY DEF LdStrYXC
<1>2. 0 \in T
  <2> HIDE DEF start
  <2> DEFINE f == [i \in 0 .. 0 |-> start]
  <2>1. f = [i \in 0 .. 0 |->
               IF i = 0 THEN start ELSE LdChar(f[i - 1], str[i], x, transparent)]
    OBVIOUS
  <2> HIDE DEF f
  <2>2. \E g : g = [i \in 0 .. 0 |->
               IF i = 0 THEN start ELSE LdChar(g[i - 1], str[i], x, transparent)]
    BY <2>1
  <2> QED
    BY <2>2
<1>3. ASSUME NEW m \in 1 .. n, m - 1 \in T PROVE m \in T
  <2> HIDE DEF start
  <2>1. PICK f : f = [i \in 0 .. m - 1 |->
                        IF i = 0 THEN start ELSE LdChar(f[i - 1], str[i], x, transparent)]
    BY <1>3
  <2> DEFINE g == [i \in 0 .. m |-> IF i <= m - 1 THEN f[i]
                                    ELSE LdChar(f[m - 1], str[m], x, transparent)]
  <2>2. g = [i \in 0 .. m |->
               IF i = 0 THEN start ELSE LdChar(g[i - 1], str[i], x, transparent)]
    BY <2>1
  <2> HIDE DEF g
  <2>3. \E h : h = [i \in 0 .. m |->
               IF i = 0 THEN start ELSE LdChar(h[i - 1], str[i], x, transparent)]
    BY <2>2
  <2> QED
    BY <2>3
<1>4. n \in T
  <2> HIDE DEF T, n
  <2>1. n \in Nat
    BY DEF n
  <2>2. \A i \in 0 .. n : i \in T
    BY <1>2, <1>3, <2>1, Along
  <2> QED
    BY <2>1, <2>2
<1>5. loop = [i \in 0 .. n |-> IF i = 0 THEN start ELSE LdChar(loop[i - 1], str[i],
          x, transparent)]
  <2> HIDE DEF start
  <2> QED
    BY <1>4
<1> HIDE DEF loop
<1>6. loop[0] = start /\ \A i \in 1 .. n : loop[i] = LdChar(loop[i - 1], str[i], x,
          transparent)
  <2> HIDE DEF start
  <2> QED
    BY <1>5
<1>7. Loading(loop, c, str, y, x, transparent)
  BY <1>1, <1>6 DEF Loading
<1> QED
  BY <1>7

(* the scan of a file before it is read *)
LEMMA ScanSteps ==
  ASSUME NEW text, Len(text) \in Nat
  PROVE  \E st :
           /\ st[0] = [lines |-> 0, length |-> 0, longest |-> 0]
           /\ \A i \in 1 .. Len(text) : st[i] = ScanChar(st[i - 1], text[i])
           /\ LineScan(text) = st[Len(text)]
<1> DEFINE n == Len(text)
           start == [lines |-> 0, length |-> 0, longest |-> 0]
           T == {m \in 0 .. n : \E f : f = [i \in 0 .. m |->
                   IF i = 0 THEN start ELSE ScanChar(f[i - 1], text[i])]}
           loop[i \in 0 .. n] == IF i = 0 THEN start ELSE ScanChar(loop[i - 1], text[i])
<1>1. LineScan(text) = loop[n]
  BY DEF LineScan
<1>2. 0 \in T
  <2> HIDE DEF start
  <2> DEFINE f == [i \in 0 .. 0 |-> start]
  <2>1. f = [i \in 0 .. 0 |->
               IF i = 0 THEN start ELSE ScanChar(f[i - 1], text[i])]
    OBVIOUS
  <2> HIDE DEF f
  <2>2. \E g : g = [i \in 0 .. 0 |->
               IF i = 0 THEN start ELSE ScanChar(g[i - 1], text[i])]
    BY <2>1
  <2> QED
    BY <2>2
<1>3. ASSUME NEW m \in 1 .. n, m - 1 \in T PROVE m \in T
  <2> HIDE DEF start
  <2>1. PICK f : f = [i \in 0 .. m - 1 |->
                        IF i = 0 THEN start ELSE ScanChar(f[i - 1], text[i])]
    BY <1>3
  <2> DEFINE g == [i \in 0 .. m |-> IF i <= m - 1 THEN f[i]
                                    ELSE ScanChar(f[m - 1], text[m])]
  <2>2. g = [i \in 0 .. m |->
               IF i = 0 THEN start ELSE ScanChar(g[i - 1], text[i])]
    BY <2>1
  <2> HIDE DEF g
  <2>3. \E h : h = [i \in 0 .. m |->
               IF i = 0 THEN start ELSE ScanChar(h[i - 1], text[i])]
    BY <2>2
  <2> QED
    BY <2>3
<1>4. n \in T
  <2> HIDE DEF T, n
  <2>1. n \in Nat
    BY DEF n
  <2>2. \A i \in 0 .. n : i \in T
    BY <1>2, <1>3, <2>1, Along
  <2> QED
    BY <2>1, <2>2
<1>5. loop = [i \in 0 .. n |-> IF i = 0 THEN start ELSE ScanChar(loop[i - 1], text[i])]
  <2> HIDE DEF start
  <2> QED
    BY <1>4
<1> HIDE DEF loop
<1>6. loop[0] = start /\ \A i \in 1 .. n : loop[i] = ScanChar(loop[i - 1], text[i])
  <2> HIDE DEF start
  <2> QED
    BY <1>5
<1> QED
  BY <1>1, <1>6

(* the inner loop of canvas_fprint_trim() *)
LEMMA PrintCharsSteps ==
  ASSUME NEW s0, NEW row, Len(row) \in Nat
  PROVE  \E st :
           /\ st[0] = s0
           /\ \A i \in 1 .. Len(row) : st[i] = PrintChar(st[i - 1], row[i])
           /\ PrintChars(s0, row) = st[Len(row)]
<1> DEFINE n == Len(row)
           start == s0
           T == {m \in 0 .. n : \E f : f = [i \in 0 .. m |->
                   IF i = 0 THEN start ELSE PrintChar(f[i - 1], row[i])]}
           loop[i \in 0 .. n] == IF i = 0 THEN start ELSE PrintChar(loop[i - 1], row[i])
<1>1. PrintChars(s0, row) = loop[n]
  BY DEF PrintChars
<1>2. 0 \in T
  <2> HIDE DEF start
  <2> DEFINE f == [i \in 0 .. 0 |-> start]
  <2>1. f = [i \in 0 .. 0 |->
               IF i = 0 THEN start ELSE PrintChar(f[i - 1], row[i])]
    OBVIOUS
  <2> HIDE DEF f
  <2>2. \E g : g = [i \in 0 .. 0 |->
               IF i = 0 THEN start ELSE PrintChar(g[i - 1], row[i])]
    BY <2>1
  <2> QED
    BY <2>2
<1>3. ASSUME NEW m \in 1 .. n, m - 1 \in T PROVE m \in T
  <2> HIDE DEF start
  <2>1. PICK f : f = [i \in 0 .. m - 1 |->
                        IF i = 0 THEN start ELSE PrintChar(f[i - 1], row[i])]
    BY <1>3
  <2> DEFINE g == [i \in 0 .. m |-> IF i <= m - 1 THEN f[i]
                                    ELSE PrintChar(f[m - 1], row[m])]
  <2>2. g = [i \in 0 .. m |->
               IF i = 0 THEN start ELSE PrintChar(g[i - 1], row[i])]
    BY <2>1
  <2> HIDE DEF g
  <2>3. \E h : h = [i \in 0 .. m |->
               IF i = 0 THEN start ELSE PrintChar(h[i - 1], row[i])]
    BY <2>2
  <2> QED
    BY <2>3
<1>4. n \in T
  <2> HIDE DEF T, n
  <2>1. n \in Nat
    BY DEF n
  <2>2. \A i \in 0 .. n : i \in T
    BY <1>2, <1>3, <2>1, Along
  <2> QED
    BY <2>1, <2>2
<1>5. loop = [i \in 0 .. n |-> IF i = 0 THEN start ELSE PrintChar(loop[i - 1], row[i])]
  <2> HIDE DEF start
  <2> QED
    BY <1>4
<1> HIDE DEF loop
<1>6. loop[0] = start /\ \A i \in 1 .. n : loop[i] = PrintChar(loop[i - 1], row[i])
  <2> HIDE DEF start
  <2> QED
    BY <1>5
<1> QED
  BY <1>1, <1>6

(* its outer loop *)
LEMMA PrintRowsSteps ==
  ASSUME NEW c, c.rows \in Nat
  PROVE  \E st :
           /\ st[0] = [out |-> <<>>, spaces |-> 0]
           /\ \A i \in 1 .. c.rows : st[i] = PrintRow(st[i - 1], Row(c, i - 1))
           /\ FPrintTrim(c) = st[c.rows].out
<1> DEFINE n == c.rows
           start == [out |-> <<>>, spaces |-> 0]
           T == {m \in 0 .. n : \E f : f = [i \in 0 .. m |->
                   IF i = 0 THEN start ELSE PrintRow(f[i - 1], Row(c, i - 1))]}
           loop[i \in 0 .. n] == IF i = 0 THEN start ELSE PrintRow(loop[i - 1],
               Row(c, i - 1))
<1>1. FPrintTrim(c) = loop[n].out
  BY DEF FPrintTrim
<1>2. 0 \in T
  <2> HIDE DEF start
  <2> DEFINE f == [i \in 0 .. 0 |-> start]
  <2>1. f = [i \in 0 .. 0 |->
               IF i = 0 THEN start ELSE PrintRow(f[i - 1], Row(c, i - 1))]
    OBVIOUS
  <2> HIDE DEF f
  <2>2. \E g : g = [i \in 0 .. 0 |->
               IF i = 0 THEN start ELSE PrintRow(g[i - 1], Row(c, i - 1))]
    BY <2>1
  <2> QED
    BY <2>2
<1>3. ASSUME NEW m \in 1 .. n, m - 1 \in T PROVE m \in T
  <2> HIDE DEF start
  <2>1. PICK f : f = [i \in 0 .. m - 1 |->
                        IF i = 0 THEN start ELSE PrintRow(f[i - 1], Row(c, i - 1))]
    BY <1>3
  <2> DEFINE g == [i \in 0 .. m |-> IF i <= m - 1 THEN f[i]
                                    ELSE PrintRow(f[m - 1], Row(c, m - 1))]
  <2>2. g = [i \in 0 .. m |->
               IF i = 0 THEN start ELSE PrintRow(g[i - 1], Row(c, i - 1))]
    BY <2>1
  <2> HIDE DEF g
  <2>3. \E h : h = [i \in 0 .. m |->
               IF i = 0 THEN start ELSE PrintRow(h[i - 1], Row(c, i - 1))]
    BY <2>2
  <2> QED
    BY <2>3
<1>4. n \in T
  <2> HIDE DEF T, n
  <2>1. n \in Nat
    BY DEF n
  <2>2. \A i \in 0 .. n : i \in T
    BY <1>2, <1>3, <2>1, Along
  <2> QED
    BY <2>1, <2>2
<1>5. loop = [i \in 0 .. n |-> IF i = 0 THEN start ELSE PrintRow(loop[i - 1], Row(c,
          i - 1))]
  <2> HIDE DEF start
  <2> QED
    BY <1>4
<1> HIDE DEF loop
<1>6. loop[0] = start /\ \A i \in 1 .. n : loop[i] = PrintRow(loop[i - 1], Row(c, i - 1))
  <2> HIDE DEF start
  <2> QED
    BY <1>5
<1> QED
  BY <1>1, <1>6

(* canvas_trimc(), row by row *)
LEMMA TrimSteps ==
  ASSUME NEW c, c.rows \in Nat, NEW ignore
  PROVE  \E st :
           /\ st[0] = [found |-> FALSE, left |-> c.cols - 1, right |-> 0,
                  top |-> c.rows - 1, bottom |-> c.rows - 1]
           /\ \A i \in 1 .. c.rows : st[i] = TrimRow(st[i - 1], Row(c, i - 1), i - 1,
                  ignore)
           /\ TrimBox(c, ignore) = (IF st[c.rows].found THEN st[c.rows]
                  ELSE [st[c.rows] EXCEPT !.left = 0, !.right = 0, !.top = 0,
                  !.bottom = 0])
<1> DEFINE n == c.rows
           start == [found |-> FALSE, left |-> c.cols - 1, right |-> 0,
               top |-> c.rows - 1, bottom |-> c.rows - 1]
           T == {m \in 0 .. n : \E f : f = [i \in 0 .. m |->
                   IF i = 0 THEN start ELSE TrimRow(f[i - 1], Row(c, i - 1), i - 1,
                       ignore)]}
           loop[i \in 0 .. n] == IF i = 0 THEN start ELSE TrimRow(loop[i - 1], Row(c,
               i - 1), i - 1, ignore)
<1>1. TrimBox(c, ignore) = (IF loop[n].found THEN loop[n]
          ELSE [loop[n] EXCEPT !.left = 0, !.right = 0, !.top = 0, !.bottom = 0])
  BY DEF TrimBox
<1>2. 0 \in T
  <2> HIDE DEF start
  <2> DEFINE f == [i \in 0 .. 0 |-> start]
  <2>1. f = [i \in 0 .. 0 |->
               IF i = 0 THEN start ELSE TrimRow(f[i - 1], Row(c, i - 1), i - 1, ignore)]
    OBVIOUS
  <2> HIDE DEF f
  <2>2. \E g : g = [i \in 0 .. 0 |->
               IF i = 0 THEN start ELSE TrimRow(g[i - 1], Row(c, i - 1), i - 1, ignore)]
    BY <2>1
  <2> QED
    BY <2>2
<1>3. ASSUME NEW m \in 1 .. n, m - 1 \in T PROVE m \in T
  <2> HIDE DEF start
  <2>1. PICK f : f = [i \in 0 .. m - 1 |->
                        IF i = 0 THEN start ELSE TrimRow(f[i - 1], Row(c, i - 1),
                            i - 1, ignore)]
    BY <1>3
  <2> DEFINE g == [i \in 0 .. m |-> IF i <= m - 1 THEN f[i]
                                    ELSE TrimRow(f[m - 1], Row(c, m - 1), m - 1, ignore)]
  <2>2. g = [i \in 0 .. m |->
               IF i = 0 THEN start ELSE TrimRow(g[i - 1], Row(c, i - 1), i - 1, ignore)]
    BY <2>1
  <2> HIDE DEF g
  <2>3. \E h : h = [i \in 0 .. m |->
               IF i = 0 THEN start ELSE TrimRow(h[i - 1], Row(c, i - 1), i - 1, ignore)]
    BY <2>2
  <2> QED
    BY <2>3
<1>4. n \in T
  <2> HIDE DEF T, n
  <2>1. n \in Nat
    BY DEF n
  <2>2. \A i \in 0 .. n : i \in T
    BY <1>2, <1>3, <2>1, Along
  <2> QED
    BY <2>1, <2>2
<1>5. loop = [i \in 0 .. n |-> IF i = 0 THEN start ELSE TrimRow(loop[i - 1], Row(c,
          i - 1), i - 1, ignore)]
  <2> HIDE DEF start
  <2> QED
    BY <1>4
<1> HIDE DEF loop
<1>6. loop[0] = start /\ \A i \in 1 .. n : loop[i] = TrimRow(loop[i - 1], Row(c,
          i - 1), i - 1, ignore)
  <2> HIDE DEF start
  <2> QED
    BY <1>5
<1> QED
  BY <1>1, <1>6

-----------------------------------------------------------------------------
(* Text into a canvas *)

LEMMA SetCell ==
  ASSUME NEW c, IsCanvas(c), NEW y, NEW x, NEW ch \in Chars
  PROVE  LET d == SCharYX(c, y, x, ch) IN
         /\ IsCanvas(d) /\ d.rows = c.rows /\ d.cols = c.cols
         /\ \A p \in CellsOf(c) : d.at[p] = IF p = <<y, x>> THEN ch ELSE c.at[p]
<1> DEFINE at == [c.at EXCEPT ![<<y, x>>] = ch]
<1>1. c.rows \in Nat /\ c.cols \in Nat /\ c.at \in [CellsOf(c) -> Chars]
      /\ c = [rows |-> c.rows, cols |-> c.cols, at |-> c.at]
  BY DEF IsCanvas
<1>2. SCharYX(c, y, x, ch) = [rows |-> c.rows, cols |-> c.cols, at |-> at]
  BY <1>1 DEF SCharYX
<1>3. at \in [Cells(c.rows, c.cols) -> Chars]
      /\ \A p \in CellsOf(c) : at[p] = IF p = <<y, x>> THEN ch ELSE c.at[p]
  BY <1>1 DEF CellsOf
<1> HIDE DEF at
<1> QED
  BY <1>1, <1>2, <1>3, MakeCanvas

(* A state of the loop that writes a text into canvas c from column x on *)
Writing(st, c, x) ==
  /\ st = [canvas |-> st.canvas, row |-> st.row, col |-> st.col, read |-> st.read,
           put |-> st.put, stopped |-> st.stopped, failed |-> st.failed]
  /\ IsCanvas(st.canvas) /\ st.canvas.rows = c.rows /\ st.canvas.cols = c.cols
  /\ st.row \in Nat /\ st.col \in Nat /\ st.read \in Nat /\ st.put \in Nat
  /\ st.stopped \in BOOLEAN /\ st.failed \in BOOLEAN
  /\ st.failed => x >= c.cols

LEMMA LdCharWrites ==
  ASSUME NEW c, IsCanvas(c), NEW x \in Nat, NEW transparent,
         NEW st, Writing(st, c, x), NEW ch \in Chars \cup {NL}
  PROVE  Writing(LdChar(st, ch, x, transparent), c, x)
<1> DEFINE wraps == st.col >= st.canvas.cols \/ ch = NL
           row == IF wraps THEN st.row + 1 ELSE st.row
           col == IF wraps THEN x ELSE st.col
           after == LdChar(st, ch, x, transparent)
<1>1. /\ row \in Nat /\ col \in Nat /\ st.canvas.rows \in Nat /\ st.canvas.cols \in Nat
      /\ wraps \/ col < st.canvas.cols
  BY DEF Writing, IsCanvas
<1>2. CASE st.stopped
  BY <1>2 DEF LdChar
<1>3. CASE ~st.stopped /\ ch = NL
  <2>1. after = [st EXCEPT !.row = row, !.col = col, !.read = @ + 1]
    BY <1>3 DEF LdChar
  <2> HIDE DEF row, col, after
  <2>2. after = [canvas |-> st.canvas, row |-> row, col |-> col, read |-> st.read + 1,
                 put |-> st.put, stopped |-> st.stopped, failed |-> st.failed]
    BY <2>1 DEF Writing
  <2> QED
    BY <1>1, <2>2 DEF Writing, after
<1>4. CASE ~st.stopped /\ ch # NL /\ row >= st.canvas.rows
  <2>1. after = [st EXCEPT !.stopped = TRUE]
    BY <1>4 DEF LdChar
  <2> HIDE DEF row, col, after
  <2>2. after = [canvas |-> st.canvas, row |-> st.row, col |-> st.col, read |-> st.read,
                 put |-> st.put, stopped |-> TRUE, failed |-> st.failed]
    BY <2>1 DEF Writing
  <2> QED
    BY <2>2 DEF Writing, after
<1>5. CASE ~st.stopped /\ ch # NL /\ ~(row >= st.canvas.rows) /\ ch = transparent
  <2>1. after = [st EXCEPT !.row = row, !.col = col + 1, !.read = @ + 1]
    BY <1>5 DEF LdChar
  <2> HIDE DEF row, col, after
  <2>2. after = [canvas |-> st.canvas, row |-> row, col |-> col + 1, read |-> st.read + 1,
                 put |-> st.put, stopped |-> st.stopped, failed |-> st.failed]
    BY <2>1 DEF Writing
  <2> QED
    BY <1>1, <2>2 DEF Writing, after
<1>6. CASE /\ ~st.stopped /\ ch # NL /\ ~(row >= st.canvas.rows) /\ ch # transparent
           /\ IsInYX(st.canvas, row, col)
  <2>1. after = [st EXCEPT !.canvas = SCharYX(@, row, col, ch), !.put = @ + 1,
                           !.row = row, !.col = col + 1, !.read = @ + 1]
    BY <1>6 DEF LdChar
  <2> HIDE DEF row, col, after
  <2>2. after = [canvas |-> SCharYX(st.canvas, row, col, ch), row |-> row, col |-> col + 1,
                 read |-> st.read + 1, put |-> st.put + 1,
                 stopped |-> st.stopped, failed |-> st.failed]
    BY <2>1 DEF Writing
  <2>3. ch \in Chars
    BY <1>6
  <2> DEFINE d == SCharYX(st.canvas, row, col, ch)
  <2>4. IsCanvas(d) /\ d.rows = st.canvas.rows /\ d.cols = st.canvas.cols
    BY <2>3, SetCell DEF Writing
  <2> HIDE DEF d
  <2> QED
    BY <1>1, <2>2, <2>4 DEF Writing, after, d
<1>7. CASE /\ ~st.stopped /\ ch # NL /\ ~(row >= st.canvas.rows) /\ ch # transparent
           /\ ~IsInYX(st.canvas, row, col)
  <2>1. after = [st EXCEPT !.stopped = TRUE, !.failed = TRUE]
    BY <1>7 DEF LdChar
  <2>2. x >= c.cols
    BY <1>1, <1>7 DEF IsInYX, Writing
  <2> HIDE DEF row, col, after
  <2>3. after = [canvas |-> st.canvas, row |-> st.row, col |-> st.col, read |-> st.read,
                 put |-> st.put, stopped |-> TRUE, failed |-> TRUE]
    BY <2>1 DEF Writing
  <2> QED
    BY <2>2, <2>3 DEF Writing, after
<1> HIDE DEF row, col
<1> QED
  BY <1>2, <1>3, <1>4, <1>5, <1>6, <1>7

(* Whatever the text, the size stays, and only a canvas whose columns end   *)
(* before the text's first is written off the edge.                         *)
LEMMA LdWrites ==
  ASSUME NEW c, IsCanvas(c), NEW str \in Seq(Chars \cup {NL}),
         NEW y \in Nat, NEW x \in Nat, NEW transparent
  PROVE  Writing(LdStrYXC(c, str, y, x, transparent), c, x)
<1>1. Len(str) \in Nat /\ \A i \in 1 .. Len(str) : str[i] \in Chars \cup {NL}
  OBVIOUS
<1>2. PICK st : Loading(st, c, str, y, x, transparent)
  BY <1>1, LdSteps
<1> USE DEF Loading
<1> DEFINE T == {i \in 0 .. Len(str) : Writing(st[i], c, x)}
<1>3. 0 \in T
  <2>1. Writing(st[0], c, x)
    BY <1>2 DEF Writing
  <2> QED
    BY <1>1, <2>1
<1>4. ASSUME NEW i \in 1 .. Len(str), i - 1 \in T PROVE i \in T
  BY <1>1, <1>2, <1>4, LdCharWrites
<1>5. Len(str) \in T
  <2> HIDE DEF T
  <2>1. \A i \in 0 .. Len(str) : i \in T
    BY <1>1, <1>3, <1>4, Along
  <2> QED
    BY <1>1, <2>1
<1> QED
  BY <1>2, <1>5

(* The scans of a file count to natural numbers. *)
LEMMA ScanCounts ==
  ASSUME NEW text \in Seq(Chars \cup {NL})
  PROVE  LineScan(text) \in [lines : Nat, length : Nat, longest : Nat]
<1> DEFINE Counts == [lines : Nat, length : Nat, longest : Nat]
<1>1. Len(text) \in Nat
  OBVIOUS
<1>2. PICK st :
        /\ st[0] = [lines |-> 0, length |-> 0, longest |-> 0]
        /\ \A i \in 1 .. Len(text) : st[i] = ScanChar(st[i - 1], text[i])
        /\ LineScan(text) = st[Len(text)]
  BY <1>1, ScanSteps
<1> DEFINE T == {i \in 0 .. Len(text) : st[i] \in Counts}
<1>3. 0 \in T
  BY <1>1, <1>2
<1>4. ASSUME NEW i \in 1 .. Len(text), i - 1 \in T PROVE i \in T
  <2>1. ASSUME NEW seen \in Counts, NEW ch PROVE ScanChar(seen, ch) \in Counts
    BY DEF ScanChar
  <2> QED
    BY <1>1, <1>2, <1>4, <2>1
<1>5. Len(text) \in T
  <2> HIDE DEF T
  <2>1. \A i \in 0 .. Len(text) : i \in T
    BY <1>1, <1>3, <1>4, Along
  <2> QED
    BY <1>1, <2>1
<1> QED
  BY <1>2, <1>5

-----------------------------------------------------------------------------
(* canvas_readf(): the scan that finds the size, and the writing, side by   *)
(* side                                                                     *)

Counts == [lines : Nat, length : Nat, longest : Nat]

Reading(text, seen, st) ==
  /\ seen[0] = [lines |-> 0, length |-> 0, longest |-> 0]
  /\ \A i \in 1 .. Len(text) : seen[i] = ScanChar(seen[i - 1], text[i])
  /\ \A i \in 0 .. Len(text) : seen[i] \in Counts
  /\ LET blank == New(seen[Len(text)].lines, seen[Len(text)].longest) IN
       /\ st[0] = [canvas |-> blank, row |-> 0, col |-> 0, read |-> 0, put |-> 0,
                   stopped |-> FALSE, failed |-> FALSE]
       /\ \A i \in 0 .. Len(text) : Writing(st[i], blank, 0)
  /\ \A i \in 1 .. Len(text) : st[i] = LdChar(st[i - 1], text[i], 0, None)
  /\ Readf(text) = st[Len(text)]

LEMMA ReadingSteps ==
  ASSUME NEW text \in Seq(Chars \cup {NL})
  PROVE  \E seen, st : Reading(text, seen, st)
<1> DEFINE n == Len(text)
<1>1. n \in Nat /\ \A i \in 1 .. n : text[i] \in Chars \cup {NL}
  OBVIOUS
<1> HIDE DEF n
<1>2. PICK seen :
        /\ seen[0] = [lines |-> 0, length |-> 0, longest |-> 0]
        /\ \A i \in 1 .. n : seen[i] = ScanChar(seen[i - 1], text[i])
        /\ LineScan(text) = seen[n]
  BY <1>1, ScanSteps DEF n
<1> DEFINE T == {i \in 0 .. n : seen[i] \in Counts}
<1>3. \A i \in 0 .. n : seen[i] \in Counts
  <2>1. 0 \in T
    BY <1>1, <1>2 DEF Counts
  <2>2. ASSUME NEW i \in 1 .. n, i - 1 \in T PROVE i \in T
    <3>1. ASSUME NEW s \in Counts, NEW ch PROVE ScanChar(s, ch) \in Counts
      BY DEF ScanChar, Counts
    <3> QED
      BY <1>1, <1>2, <2>2, <3>1
  <2>3. \A i \in 0 .. n : i \in T
    <3> HIDE DEF T
    <3> QED
      BY <1>1, <2>1, <2>2, Along
  <2> QED
    BY <2>3
<1> DEFINE blank == New(seen[n].lines, seen[n].longest)
<1>4. IsCanvas(blank)
  <2>1. seen[n].lines \in Nat /\ seen[n].longest \in Nat
    BY <1>1, <1>3 DEF Counts
  <2> QED
    BY <2>1, NewIsCanvas
<1>5. Readf(text) = LdStrYXC(blank, text, 0, 0, None)
  BY <1>2 DEF Readf, LdStr
<1> HIDE DEF blank
<1>6. PICK st : Loading(st, blank, text, 0, 0, None)
  <2>1. Len(text) \in Nat
    BY <1>1 DEF n
  <2> QED
    BY <2>1, LdSteps
<1> USE DEF Loading, n
<1> DEFINE U == {i \in 0 .. n : Writing(st[i], blank, 0)}
<1>7. \A i \in 0 .. n : Writing(st[i], blank, 0)
  <2>1. 0 \in U
    <3>1. Writing(st[0], blank, 0)
      BY <1>4, <1>6 DEF Writing
    <3> QED
      BY <1>1, <3>1
  <2>2. ASSUME NEW i \in 1 .. n, i - 1 \in U PROVE i \in U
    <3>1. Writing(st[i - 1], blank, 0) /\ text[i] \in Chars \cup {NL}
      BY <1>1, <2>2
    <3>2. Writing(LdChar(st[i - 1], text[i], 0, None), blank, 0)
      BY <1>4, <3>1, LdCharWrites
    <3> QED
      BY <1>1, <1>6, <3>2
  <2>3. \A i \in 0 .. n : i \in U
    <3> HIDE DEF U
    <3> QED
      BY <1>1, <2>1, <2>2, Along
  <2> QED
    BY <2>3
<1>8. Reading(text, seen, st)
  BY <1>2, <1>3, <1>5, <1>6, <1>7 DEF Reading, n, blank
<1> QED
  BY <1>8

LEMMA ScansChar ==
  ASSUME NEW s \in Counts, NEW ch
  PROVE  LET t == ScanChar(s, ch) IN
         /\ t \in Counts
         /\ ch = NL => t.lines = s.lines + 1 /\ t.length = 0
         /\ ch # NL => t.lines = s.lines /\ t.length = s.length + 1
<1>1. CASE ch = NL
  BY <1>1 DEF ScanChar, Counts
<1>2. CASE ch # NL
  BY <1>2 DEF ScanChar, Counts
<1> QED
  BY <1>1, <1>2

(* A line that ends later is not longer than the longest.                   *)
LEMMA ScanGrows ==
  ASSUME NEW text \in Seq(Chars \cup {NL}), NEW seen, NEW st, Reading(text, seen, st),
         NEW i \in 0 .. Len(text), NEW j \in i .. Len(text)
  PROVE  /\ seen[i].lines <= seen[j].lines
         /\ seen[i].lines < seen[j].lines => seen[i].length <= seen[j].longest
         /\ seen[i].lines = seen[j].lines => seen[i].length <= seen[j].length
<1> DEFINE n == Len(text)
           Grown(k) ==
             /\ seen[i].lines <= seen[k].lines
             /\ seen[i].lines < seen[k].lines => seen[i].length <= seen[k].longest
             /\ seen[i].lines = seen[k].lines => seen[i].length <= seen[k].length
           T == {k \in 0 .. n : k >= i => Grown(k)}
<1>1. n \in Nat /\ i \in Nat /\ i <= n
  OBVIOUS
<1>2. /\ \A k \in 0 .. n : seen[k] \in Counts
      /\ \A k \in 1 .. n : seen[k] = ScanChar(seen[k - 1], text[k])
  BY DEF Reading
<1> HIDE DEF n
<1>3. Grown(i)
  BY <1>1, <1>2 DEF Counts
<1>4. 0 \in T
  <2>1. 0 >= i => i = 0
    BY <1>1
  <2> QED
    BY <1>1, <1>3, <2>1
<1>5. ASSUME NEW k \in 1 .. n, k - 1 \in T PROVE k \in T
  <2>1. CASE k - 1 >= i
    <3>1. Grown(k - 1) /\ seen[k - 1] \in Counts /\ seen[k] = ScanChar(seen[k - 1], text[k])
          /\ seen[i] \in Counts
      BY <1>1, <1>2, <1>5, <2>1
    <3>2. ASSUME NEW a \in Counts, NEW b \in Counts, NEW ch,
                 /\ a.lines <= b.lines
                 /\ a.lines < b.lines => a.length <= b.longest
                 /\ a.lines = b.lines => a.length <= b.length
          PROVE  LET c == ScanChar(b, ch) IN
                 /\ a.lines <= c.lines
                 /\ a.lines < c.lines => a.length <= c.longest
                 /\ a.lines = c.lines => a.length <= c.length
      <4>1. CASE ch = NL
        BY <3>2, <4>1 DEF ScanChar, Counts
      <4>2. CASE ch # NL
        BY <3>2, <4>2 DEF ScanChar, Counts
      <4> QED
        BY <4>1, <4>2
    <3>3. Grown(k)
      BY <3>1, <3>2
    <3> QED
      BY <3>3
  <2>2. CASE k - 1 < i
    <3>1. k >= i => k = i
      BY <1>1, <2>2
    <3> QED
      BY <1>3, <3>1
  <2> QED
    BY <1>1, <2>1, <2>2
<1>6. \A k \in 0 .. n : k \in T
  <2> HIDE DEF T
  <2> QED
    BY <1>1, <1>4, <1>5, Along
<1>7. j \in 0 .. n /\ j >= i
  BY <1>1 DEF n
<1> QED
  BY <1>6, <1>7

(* Where the scan is, the writing is, until the last line that ends is full. *)
InStep(text, seen, st, i) ==
  /\ ~st[i].failed
  /\ IF seen[i].lines < seen[Len(text)].lines
     THEN ~st[i].stopped /\ st[i].row = seen[i].lines /\ st[i].col = seen[i].length
     ELSE st[i].stopped \/ st[i].row >= seen[Len(text)].lines

Place(seen, k) == <<seen[k - 1].lines, seen[k - 1].length>>
Ends(text, seen, k) == text[k] # NL /\ seen[k - 1].lines < seen[Len(text)].lines

Drawn(text, seen, c, i) ==
  /\ \A k \in 1 .. i : Ends(text, seen, k) =>
       Place(seen, k) \in CellsOf(c) /\ c.at[Place(seen, k)] = text[k]
  /\ \A p \in CellsOf(c) : c.at[p] # Blank =>
       \E k \in 1 .. i : Ends(text, seen, k) /\ p = Place(seen, k)

LEMMA ReadsNext ==
  ASSUME NEW text \in Seq(Chars \cup {NL}), NEW seen, NEW st, Reading(text, seen, st),
         NEW i \in 1 .. Len(text), InStep(text, seen, st, i - 1),
         Drawn(text, seen, st[i - 1].canvas, i - 1)
  PROVE  InStep(text, seen, st, i) /\ Drawn(text, seen, st[i].canvas, i)
<1> DEFINE n == Len(text)
           rows == seen[n].lines
           cols == seen[n].longest
           ch == text[i]
           a == seen[i - 1]
           b == seen[i]
           old == st[i - 1]
           new == st[i]
<1>1. n \in Nat /\ i \in Nat /\ i >= 1 /\ i <= n /\ i - 1 \in 0 .. n /\ i \in 0 .. n
      /\ n \in i .. n
      /\ ch \in Chars \cup {NL}
  OBVIOUS
<1>2. a \in Counts /\ b \in Counts /\ seen[n] \in Counts /\ b = ScanChar(a, ch)
  BY <1>1 DEF Reading
<1>3. new = LdChar(old, ch, 0, None)
  BY DEF Reading
<1>4. /\ old = [canvas |-> old.canvas, row |-> old.row, col |-> old.col, read |-> old.read,
                put |-> old.put, stopped |-> old.stopped, failed |-> old.failed]
      /\ IsCanvas(old.canvas) /\ old.canvas.rows = rows /\ old.canvas.cols = cols
      /\ old.row \in Nat /\ old.col \in Nat
  <2>1. Writing(old, New(rows, cols), 0)
    BY <1>1 DEF Reading
  <2> HIDE DEF old, rows, cols
  <2> QED
    BY <2>1 DEF Writing, New
<1>5. /\ ~old.failed
      /\ IF a.lines < rows THEN ~old.stopped /\ old.row = a.lines /\ old.col = a.length
         ELSE old.stopped \/ old.row >= rows
  BY DEF InStep
<1>6. Drawn(text, seen, old.canvas, i - 1)
  OBVIOUS
<1>7. SUFFICES /\ ~new.failed
               /\ IF b.lines < rows
                      THEN ~new.stopped /\ new.row = b.lines /\ new.col = b.length
                  ELSE new.stopped \/ new.row >= rows
               /\ Drawn(text, seen, new.canvas, i)
  BY DEF InStep
<1>8. /\ b.lines <= rows /\ a.lines \in Nat /\ a.length \in Nat /\ rows \in Nat /\ cols \in Nat
      /\ (b.lines < rows => b.length <= cols) /\ b.lines \in Nat
      /\ ch = NL => b.lines = a.lines + 1 /\ b.length = 0
      /\ ch # NL => b.lines = a.lines /\ b.length = a.length + 1
  <2>1. /\ seen[i].lines <= seen[n].lines
        /\ seen[i].lines < seen[n].lines => seen[i].length <= seen[n].longest
    BY <1>1, ScanGrows
  <2>2. /\ ch = NL => b.lines = a.lines + 1 /\ b.length = 0
        /\ ch # NL => b.lines = a.lines /\ b.length = a.length + 1
    <3> HIDE DEF a, b, ch
    <3> QED
      BY <1>2, ScansChar
  <2> QED
    BY <1>2, <2>1, <2>2 DEF Counts
<1>9. ASSUME NEW c, c = old.canvas, ~Ends(text, seen, i) PROVE Drawn(text, seen, c, i)
  <2>1. \A k \in 1 .. i : k \in 1 .. i - 1 \/ k = i
    BY <1>1
  <2>2. \A k \in 1 .. i - 1 : k \in 1 .. i
    BY <1>1
  <2> QED
    BY <1>6, <1>9, <2>1, <2>2 DEF Drawn
<1> HIDE DEF n, a, b, old, new, ch, rows, cols
<1>10. CASE ~(a.lines < rows)
  <2>1. ~Ends(text, seen, i)
    BY <1>10 DEF Ends, a, rows, n
  <2>2. ~(b.lines < rows)
    BY <1>8, <1>10
  <2>3. new.canvas = old.canvas /\ ~new.failed /\ (new.stopped \/ new.row >= rows)
    <3>1. CASE old.stopped
      BY <1>3, <1>5, <3>1 DEF LdChar
    <3>2. CASE ~old.stopped /\ ch = NL
      <4>1. new = [old EXCEPT !.row = old.row + 1, !.col = 0, !.read = @ + 1]
        BY <1>3, <3>2 DEF LdChar
      <4>2. new = [canvas |-> old.canvas, row |-> old.row + 1, col |-> 0,
                read |-> old.read + 1,
                   put |-> old.put, stopped |-> old.stopped, failed |-> old.failed]
        BY <1>4, <4>1
      <4> QED
        BY <1>4, <1>5, <1>8, <1>10, <3>2, <4>2
    <3>3. CASE ~old.stopped /\ ch # NL
      <4>1. (IF old.col >= old.canvas.cols \/ ch = NL THEN old.row + 1
                ELSE old.row) >= old.canvas.rows
        BY <1>4, <1>5, <1>8, <1>10, <3>3
      <4>2. new = [old EXCEPT !.stopped = TRUE]
        BY <1>3, <3>3, <4>1 DEF LdChar
      <4>3. new = [canvas |-> old.canvas, row |-> old.row, col |-> old.col,
                read |-> old.read,
                   put |-> old.put, stopped |-> TRUE, failed |-> old.failed]
        BY <1>4, <4>2
      <4> QED
        BY <1>5, <4>3
    <3> QED
      BY <3>1, <3>2, <3>3
  <2>4. Drawn(text, seen, new.canvas, i)
    BY <1>9, <2>1, <2>3
  <2> QED
    BY <2>2, <2>3, <2>4
<1>11. CASE a.lines < rows /\ ch = NL
  <2>1. ~Ends(text, seen, i)
    BY <1>11 DEF Ends, ch
  <2>2. new = [old EXCEPT !.row = old.row + 1, !.col = 0, !.read = @ + 1]
    BY <1>3, <1>5, <1>11 DEF LdChar
  <2>3. new = [canvas |-> old.canvas, row |-> old.row + 1, col |-> 0, read |-> old.read + 1,
               put |-> old.put, stopped |-> old.stopped, failed |-> old.failed]
    BY <1>4, <2>2
  <2>4. b.lines = a.lines + 1 /\ b.length = 0
    BY <1>8, <1>11
  <2>5. Drawn(text, seen, new.canvas, i)
    BY <1>9, <2>1, <2>3
  <2> QED
    BY <1>5, <1>8, <1>11, <2>3, <2>4, <2>5
<1>12. CASE a.lines < rows /\ ch # NL
  <2> DEFINE y == a.lines
             x == a.length
  <2>1. b.lines = y /\ b.length = x + 1
    BY <1>8, <1>12
  <2>2. x < cols /\ y < rows
    BY <1>8, <1>12, <2>1
  <2>3. ch \in Chars /\ ch # None
    BY <1>1, <1>12, DrawingAssumption
  <2>4. old.row = y /\ old.col = x /\ ~old.stopped
    BY <1>5, <1>12
  <2> HIDE DEF y, x
  <2>5. IsInYX(old.canvas, y, x) /\ ~(y >= old.canvas.rows) /\ ~(x >= old.canvas.cols)
    BY <1>4, <1>8, <2>2 DEF IsInYX, y, x
  <2>6. new = [old EXCEPT !.canvas = SCharYX(@, y, x, ch), !.put = @ + 1,
                          !.row = y, !.col = x + 1, !.read = @ + 1]
    BY <1>3, <1>12, <2>3, <2>4, <2>5 DEF LdChar
  <2>7. new = [canvas |-> SCharYX(old.canvas, y, x, ch), row |-> y, col |-> x + 1,
               read |-> old.read + 1, put |-> old.put + 1,
               stopped |-> old.stopped, failed |-> old.failed]
    BY <1>4, <2>6
  <2> DEFINE d == new.canvas
  <2>8. /\ CellsOf(d) = CellsOf(old.canvas)
        /\ \A p \in CellsOf(old.canvas) : d.at[p] = IF p = <<y, x>> THEN ch
               ELSE old.canvas.at[p]
    <3>1. d = SCharYX(old.canvas, y, x, ch)
      BY <2>7
    <3>2. d.rows = old.canvas.rows /\ d.cols = old.canvas.cols
      BY <1>4, <2>3, <3>1, SetCell
    <3> QED
      BY <1>4, <2>3, <3>1, <3>2, SetCell DEF CellsOf
  <2> HIDE DEF d
  <2>9. Place(seen, i) = <<y, x>> /\ Ends(text, seen, i)
    BY <1>12 DEF Place, Ends, y, x, a, ch, rows, n
  <2>10. <<y, x>> \in CellsOf(old.canvas)
    BY <1>4, <1>8, <2>2 DEF CellsOf, Cells, y, x
  <2>11. ASSUME NEW k \in 1 .. i - 1, Ends(text, seen, k)
         PROVE  Place(seen, k) # <<y, x>>
    <3>1. k \in 1 .. n /\ k \in 0 .. n /\ k - 1 \in 0 .. n /\ i - 1 \in k .. n
      BY <1>1
    <3>2. seen[k - 1] \in Counts /\ seen[k] \in Counts /\ seen[k] = ScanChar(seen[k - 1], text[k])
      BY <3>1 DEF Reading, n
    <3>3. seen[k].lines = seen[k - 1].lines /\ seen[k].length = seen[k - 1].length + 1
      BY <2>11, <3>2 DEF Ends, ScanChar, Counts
    <3>4. seen[k].lines = a.lines => seen[k].length <= a.length
      BY <3>1, ScanGrows DEF n, a
    <3> QED
      BY <1>8, <3>2, <3>3, <3>4 DEF Place, y, x, Counts
  <2>12. ASSUME NEW k \in 1 .. i, Ends(text, seen, k)
         PROVE  Place(seen, k) \in CellsOf(d) /\ d.at[Place(seen, k)] = text[k]
    <3>1. CASE k = i
      BY <2>8, <2>9, <2>10, <3>1 DEF ch
    <3>2. CASE k # i
      <4>1. k \in 1 .. i - 1
        BY <1>1, <3>2
      <4>2. Place(seen, k) \in CellsOf(old.canvas) /\ old.canvas.at[Place(seen,
                k)] = text[k]
        BY <1>6, <2>12, <4>1 DEF Drawn
      <4> QED
        BY <2>8, <2>11, <2>12, <4>1, <4>2
    <3> QED
      BY <3>1, <3>2
  <2>13. ASSUME NEW p \in CellsOf(d), d.at[p] # Blank
         PROVE  \E k \in 1 .. i : Ends(text, seen, k) /\ p = Place(seen, k)
    <3>1. CASE p = <<y, x>>
      BY <1>1, <2>9, <3>1
    <3>2. CASE p # <<y, x>>
      <4>1. old.canvas.at[p] # Blank /\ p \in CellsOf(old.canvas)
        BY <2>8, <2>13, <3>2
      <4>2. PICK k \in 1 .. i - 1 : Ends(text, seen, k) /\ p = Place(seen, k)
        BY <1>6, <4>1 DEF Drawn
      <4>3. k \in 1 .. i
        BY <1>1
      <4> QED
        BY <4>2, <4>3
    <3> QED
      BY <3>1, <3>2
  <2>14. Drawn(text, seen, d, i)
    BY <2>12, <2>13 DEF Drawn
  <2> QED
    BY <1>5, <1>12, <2>1, <2>4, <2>7, <2>14 DEF d, y
<1> QED
  BY <1>1, <1>10, <1>11, <1>12

(* Reading any file gives a canvas, and never writes off it.                *)
LEMMA ReadsAll ==
  ASSUME NEW text \in Seq(Chars \cup {NL}), NEW seen, NEW st, Reading(text, seen, st)
  PROVE  LET read == Readf(text)
             n == Len(text)
         IN /\ IsCanvas(read.canvas) /\ read.failed = FALSE
            /\ read.canvas.rows = seen[n].lines
            /\ Drawn(text, seen, read.canvas, n)
<1> DEFINE n == Len(text)
           blank == New(seen[n].lines, seen[n].longest)
           T == {i \in 0 .. n : InStep(text, seen, st, i) /\ Drawn(text, seen,
               st[i].canvas, i)}
<1>1. n \in Nat
  OBVIOUS
<1>2. /\ seen[0] = [lines |-> 0, length |-> 0, longest |-> 0]
      /\ st[0] = [canvas |-> blank, row |-> 0, col |-> 0, read |-> 0, put |-> 0,
                  stopped |-> FALSE, failed |-> FALSE]
      /\ Readf(text) = st[n] /\ Writing(st[n], blank, 0)
      /\ seen[n] \in Counts
  BY <1>1 DEF Reading
<1>3. 0 \in T
  <2>1. InStep(text, seen, st, 0)
    BY <1>2 DEF InStep, Counts
  <2>2. Drawn(text, seen, st[0].canvas, 0)
    <3>1. \A p \in CellsOf(blank) : blank.at[p] = Blank
      BY DEF New, CellsOf
    <3> HIDE DEF blank
    <3> QED
      BY <1>2, <3>1 DEF Drawn
  <2> QED
    BY <1>1, <2>1, <2>2
<1>4. ASSUME NEW i \in 1 .. n, i - 1 \in T PROVE i \in T
  <2>1. InStep(text, seen, st, i) /\ Drawn(text, seen, st[i].canvas, i)
    BY <1>4, ReadsNext
  <2> QED
    BY <1>1, <2>1
<1>5. InStep(text, seen, st, n) /\ Drawn(text, seen, st[n].canvas, n)
  <2>1. \A i \in 0 .. n : i \in T
    <3> HIDE DEF T
    <3> QED
      BY <1>1, <1>3, <1>4, Along
  <2> QED
    BY <1>1, <2>1
<1>6. blank.rows = seen[n].lines
  BY DEF New
<1> HIDE DEF blank
<1> QED
  BY <1>2, <1>5, <1>6 DEF InStep, Writing

LEMMA ReadsCanvas ==
  ASSUME NEW text \in Seq(Chars \cup {NL})
  PROVE  IsCanvas(Readf(text).canvas) /\ Readf(text).failed = FALSE
<1>1. PICK seen, st : Reading(text, seen, st)
  BY ReadingSteps
<1> QED
  BY <1>1, ReadsAll

-----------------------------------------------------------------------------
(* A canvas into text *)

LEMMA RowOfChars ==
  ASSUME NEW c, IsCanvas(c), NEW y \in 0 .. c.rows - 1
  PROVE  /\ Row(c, y) \in Seq(Chars) /\ Len(Row(c, y)) = c.cols
         /\ \A x \in 0 .. c.cols - 1 : Row(c, y)[x + 1] = c.at[<<y, x>>]
<1>1. c.rows \in Nat /\ c.cols \in Nat /\ c.at \in [Cells(c.rows, c.cols) -> Chars]
  BY DEF IsCanvas, CellsOf
<1>2. ASSUME NEW i \in 1 .. c.cols PROVE c.at[<<y, i - 1>>] \in Chars
  <2>1. <<y, i - 1>> \in Cells(c.rows, c.cols)
    BY <1>1 DEF Cells
  <2> QED
    BY <1>1, <2>1
<1>3. Row(c, y) \in [1 .. c.cols -> Chars]
  BY <1>1, <1>2 DEF Row
<1>4. ASSUME NEW x \in 0 .. c.cols - 1 PROVE Row(c, y)[x + 1] = c.at[<<y, x>>]
  <2>1. x + 1 \in 1 .. c.cols /\ (x + 1) - 1 = x
    BY <1>1
  <2> QED
    BY <2>1 DEF Row
<1> QED
  BY <1>1, <1>3, <1>4

Printing == [out : Seq(Chars \cup {NL}), spaces : Nat]

LEMMA PrintedChars ==
  ASSUME NEW s0 \in Printing, NEW row \in Seq(Chars)
  PROVE  PrintChars(s0, row) \in Printing
<1>1. Len(row) \in Nat /\ \A i \in 1 .. Len(row) : row[i] \in Chars
  OBVIOUS
<1>2. PICK st : /\ st[0] = s0
                /\ \A i \in 1 .. Len(row) : st[i] = PrintChar(st[i - 1], row[i])
                /\ PrintChars(s0, row) = st[Len(row)]
  BY <1>1, PrintCharsSteps
<1>3. ASSUME NEW s \in Printing, NEW ch \in Chars PROVE PrintChar(s, ch) \in Printing
  <2>1. CASE ch = Blank
    BY <2>1 DEF PrintChar, Printing
  <2>2. CASE ch # Blank
    <3> DEFINE blanks == [i \in 1 .. s.spaces |-> Blank]
    <3>1. s.out \in Seq(Chars \cup {NL}) /\ s.spaces \in Nat
      BY DEF Printing
    <3>2. blanks \in Seq(Chars \cup {NL}) /\ <<ch>> \in Seq(Chars \cup {NL})
      BY <3>1, CanvasAssumption
    <3> HIDE DEF blanks
    <3>3. s.out \o blanks \in Seq(Chars \cup {NL})
      BY <3>1, <3>2, ConcatProperties
    <3>4. s.out \o blanks \o <<ch>> \in Seq(Chars \cup {NL})
      BY <3>2, <3>3, ConcatProperties
    <3>5. PrintChar(s, ch) = [out |-> s.out \o blanks \o <<ch>>, spaces |-> 0]
      BY <2>2 DEF PrintChar, blanks
    <3> QED
      BY <3>4, <3>5 DEF Printing
  <2> QED
    BY <2>1, <2>2
<1> DEFINE T == {i \in 0 .. Len(row) : st[i] \in Printing}
<1>4. 0 \in T
  BY <1>1, <1>2
<1>5. ASSUME NEW i \in 1 .. Len(row), i - 1 \in T PROVE i \in T
  BY <1>1, <1>2, <1>3, <1>5
<1>6. Len(row) \in T
  <2> HIDE DEF T
  <2>1. \A i \in 0 .. Len(row) : i \in T
    BY <1>1, <1>4, <1>5, Along
  <2> QED
    BY <1>1, <2>1
<1> QED
  BY <1>2, <1>6

(* What is saved is a text that can be read. *)
LEMMA SavesText ==
  ASSUME NEW c, IsCanvas(c)
  PROVE  FPrintTrim(c) \in Seq(Chars \cup {NL})
<1>1. c.rows \in Nat
  BY DEF IsCanvas
<1>2. PICK st : /\ st[0] = [out |-> <<>>, spaces |-> 0]
                /\ \A i \in 1 .. c.rows : st[i] = PrintRow(st[i - 1], Row(c, i - 1))
                /\ FPrintTrim(c) = st[c.rows].out
  BY <1>1, PrintRowsSteps
<1>3. ASSUME NEW s \in Printing, NEW row \in Seq(Chars) PROVE PrintRow(s, row) \in Printing
  <2>1. PrintChars(s, row) \in Printing
    BY PrintedChars
  <2>2. PrintChars(s, row).out \in Seq(Chars \cup {NL})
    BY <2>1 DEF Printing
  <2>3. <<NL>> \in Seq(Chars \cup {NL})
    OBVIOUS
  <2>4. PrintChars(s, row).out \o <<NL>> \in Seq(Chars \cup {NL})
    BY <2>2, <2>3, ConcatProperties
  <2> QED
    BY <2>4 DEF PrintRow, Printing
<1> DEFINE T == {i \in 0 .. c.rows : st[i] \in Printing}
<1>4. 0 \in T
  <2>1. [out |-> <<>>, spaces |-> 0] \in Printing
    BY DEF Printing
  <2> QED
    BY <1>1, <1>2, <2>1
<1>5. ASSUME NEW i \in 1 .. c.rows, i - 1 \in T PROVE i \in T
  <2>1. Row(c, i - 1) \in Seq(Chars)
    BY <1>1, RowOfChars
  <2> QED
    BY <1>1, <1>2, <1>3, <1>5, <2>1
<1>6. c.rows \in T
  <2> HIDE DEF T
  <2>1. \A i \in 0 .. c.rows : i \in T
    BY <1>1, <1>4, <1>5, Along
  <2> QED
    BY <1>1, <2>1
<1> QED
  BY <1>2, <1>6 DEF Printing

-----------------------------------------------------------------------------
(* canvas_trimc() *)

LEMMA Greatest ==
  ASSUME NEW n \in Nat, NEW T \in SUBSET (0 .. n), T # {}
  PROVE  \E i \in T : \A j \in T : j <= i
<1> DEFINE R == {n - i : i \in T}
<1>1. R \in SUBSET Nat /\ R # {}
  <2>1. ASSUME NEW i \in T PROVE n - i \in Nat
    OBVIOUS
  <2> QED
    BY <2>1
<1>2. PICK r \in R : \A s \in R : r <= s
  <2> HIDE DEF R
  <2> QED
    BY <1>1, Least
<1>3. PICK i \in T : r = n - i
  OBVIOUS
<1>4. ASSUME NEW j \in T PROVE j <= i
  <2>1. r <= n - j
    BY <1>2
  <2> QED
    BY <1>3, <2>1
<1> QED
  BY <1>4

LEMMA Extremes ==
  ASSUME NEW n \in Nat, NEW T \in SUBSET (0 .. n), T # {}
  PROVE  /\ Min(T) \in T /\ \A j \in T : Min(T) <= j
         /\ Max(T) \in T /\ \A j \in T : j <= Max(T)
<1>1. \E i \in T : \A j \in T : i <= j
  <2>1. T \in SUBSET Nat
    OBVIOUS
  <2> QED
    BY <2>1, Least
<1>2. \E i \in T : \A j \in T : i >= j
  <2>1. PICK i \in T : \A j \in T : j <= i
    BY Greatest
  <2> QED
    BY <2>1
<1>3. Min(T) \in T /\ \A j \in T : Min(T) <= j
  BY <1>1 DEF Min
<1>4. Max(T) \in T /\ \A j \in T : Max(T) >= j
  BY <1>2 DEF Max
<1> QED
  BY <1>3, <1>4

(* The characters above row y that are not to be ignored, and the box that  *)
(* the loop has for them                                                    *)
Above(c, ignore, y) == {p \in CellsOf(c) : p[1] < y /\ c.at[p] # ignore}

Boxed(box, c, ignore, y) ==
  /\ box = [found |-> box.found, left |-> box.left, right |-> box.right,
            top |-> box.top, bottom |-> box.bottom]
  /\ box.found \in BOOLEAN /\ (box.found <=> Above(c, ignore, y) # {})
  /\ box.left \in 0 .. c.cols - 1 /\ box.right \in 0 .. c.cols - 1
  /\ box.top \in 0 .. c.rows - 1 /\ box.bottom \in 0 .. c.rows - 1
  /\ \A p \in Above(c, ignore, y) : /\ box.left <= p[2] /\ p[2] <= box.right
                                    /\ box.top <= p[1] /\ p[1] <= box.bottom
  /\ box.found => /\ \E p \in Above(c, ignore, y) : p[1] = box.bottom
                  /\ \E p \in Above(c, ignore, y) : p[2] = box.right
  /\ ~box.found => box.right = 0

LEMMA TrimRowBoxes ==
  ASSUME NEW c, IsCanvas(c), NEW ignore, NEW y \in 0 .. c.rows - 1, c.cols > 0,
         NEW box, Boxed(box, c, ignore, y)
  PROVE  Boxed(TrimRow(box, Row(c, y), y, ignore), c, ignore, y + 1)
<1> DEFINE row == Row(c, y)
           kept == {x \in 0 .. Len(row) - 1 : row[x + 1] # ignore}
           after == TrimRow(box, row, y, ignore)
           old == Above(c, ignore, y)
           new == Above(c, ignore, y + 1)
<1>1. c.rows \in Nat /\ c.cols \in Nat
  BY DEF IsCanvas
<1>2. kept \in SUBSET (0 .. c.cols - 1) /\ kept = {x \in 0 .. c.cols - 1 : c.at[<<y,
          x>>] # ignore}
  BY <1>1, RowOfChars
<1>3. new = old \cup {<<y, x>> : x \in kept}
  <2>1. ASSUME NEW p \in new, p \notin old PROVE p \in {<<y, x>> : x \in kept}
    <3>1. p \in CellsOf(c) /\ p[1] < y + 1 /\ c.at[p] # ignore
      BY DEF Above
    <3>2. PICK r \in 0 .. c.rows - 1, x \in 0 .. c.cols - 1 : p = <<r, x>>
      BY <3>1 DEF CellsOf, Cells
    <3>3. r = y
      BY <1>1, <2>1, <3>1, <3>2 DEF Above
    <3>4. x \in kept
      BY <1>2, <3>1, <3>2, <3>3
    <3> QED
      BY <3>2, <3>3, <3>4
  <2>2. ASSUME NEW p \in old PROVE p \in new
    <3>1. p \in CellsOf(c) /\ p[1] < y /\ c.at[p] # ignore
      BY DEF Above
    <3>2. PICK r \in 0 .. c.rows - 1, x \in 0 .. c.cols - 1 : p = <<r, x>>
      BY <3>1 DEF CellsOf, Cells
    <3> QED
      BY <1>1, <3>1, <3>2 DEF Above
  <2>3. ASSUME NEW x \in kept PROVE <<y, x>> \in new
    <3>1. <<y, x>> \in CellsOf(c) /\ c.at[<<y, x>>] # ignore
      BY <1>1, <1>2 DEF CellsOf, Cells
    <3> QED
      BY <1>1, <3>1 DEF Above
  <2> QED
    BY <2>1, <2>2, <2>3
<1>4. CASE kept = {}
  <2>1. after = box /\ new = old
    BY <1>3, <1>4 DEF TrimRow
  <2> QED
    BY <2>1 DEF Boxed
<1>5. CASE kept # {}
  <2> DEFINE least == Min(kept)
             most == Max(kept)
  <2> HIDE DEF kept
  <2>1. /\ least \in kept /\ \A x \in kept : least <= x
        /\ most \in kept /\ \A x \in kept : x <= most
    <3>1. c.cols - 1 \in Nat
      BY <1>1
    <3> QED
      BY <1>2, <1>5, <3>1, Extremes
  <2>2. after = [found |-> TRUE, left |-> Lesser(least, box.left),
                 right |-> IF most > box.right THEN most ELSE box.right,
                 top |-> Lesser(y, box.top), bottom |-> y]
    BY <1>5 DEF TrimRow, kept
  <2> HIDE DEF least, most, after, old, new
  <2>3. \A p \in old : p \in CellsOf(c) /\ p[1] < y
    BY DEF old, Above
  <2>4. \A p \in old : p[1] \in Nat /\ p[2] \in Nat
    BY <1>1, <2>3 DEF CellsOf, Cells
  <2>5. least \in 0 .. c.cols - 1 /\ most \in 0 .. c.cols - 1
    BY <1>2, <2>1
  <2>6. <<y, most>> \in new
    BY <1>3, <2>1
  <2>7. /\ after.left \in 0 .. c.cols - 1 /\ after.left <= least /\ after.left <= box.left
        /\ after.right \in 0 .. c.cols - 1 /\ most <= after.right /\ box.right <= after.right
        /\ after.top \in 0 .. c.rows - 1 /\ after.top <= y /\ after.top <= box.top
        /\ after.bottom = y /\ after.found = TRUE
    BY <1>1, <2>2, <2>5 DEF Boxed, Lesser
  <2>8. ASSUME NEW p \in new
        PROVE  /\ after.left <= p[2] /\ p[2] <= after.right
               /\ after.top <= p[1] /\ p[1] <= after.bottom
    <3>1. CASE p \in old
      <4>1. box.left <= p[2] /\ p[2] <= box.right /\ box.top <= p[1]
        BY <3>1 DEF Boxed, old
      <4>2. box.left \in Nat /\ box.right \in Nat /\ box.top \in Nat
        BY <1>1 DEF Boxed
      <4> QED
        BY <1>1, <2>3, <2>4, <2>7, <3>1, <4>1, <4>2
    <3>2. CASE p \notin old
      <4>1. PICK x \in kept : p = <<y, x>>
        BY <1>3, <3>2
      <4> QED
        BY <1>1, <1>2, <2>1, <2>5, <2>7, <4>1
    <3> QED
      BY <3>1, <3>2
  <2>9. \E p \in new : p[1] = after.bottom
    BY <2>6, <2>7
  <2>10. \E p \in new : p[2] = after.right
    <3>1. CASE most > box.right
      BY <2>2, <2>6, <3>1
    <3>2. CASE ~(most > box.right) /\ box.found
      <4>1. PICK p \in old : p[2] = box.right
        BY <3>2 DEF Boxed, old
      <4> QED
        BY <1>3, <2>2, <3>2, <4>1
    <3>3. CASE ~(most > box.right) /\ ~box.found
      <4>1. box.right = 0
        BY <3>3 DEF Boxed
      <4>2. after.right = most
        BY <2>2, <2>5, <3>3, <4>1
      <4> QED
        BY <2>6, <4>2
    <3> QED
      BY <3>1, <3>2, <3>3 DEF Boxed
  <2>11. after = [found |-> after.found, left |-> after.left, right |-> after.right,
                  top |-> after.top, bottom |-> after.bottom]
    BY <2>2
  <2>12. after.bottom \in 0 .. c.rows - 1
    BY <2>7
  <2> QED
    BY <2>6, <2>7, <2>8, <2>9, <2>10, <2>11, <2>12 DEF Boxed, new, after
<1> QED
  BY <1>4, <1>5

(* The box of a canvas that has cells *)
LEMMA TrimBoxes ==
  ASSUME NEW c, IsCanvas(c), NEW ignore, c.rows > 0, c.cols > 0
  PROVE  LET box == TrimBox(c, ignore)
             kept == {p \in CellsOf(c) : c.at[p] # ignore}
         IN /\ box.left \in 0 .. c.cols - 1 /\ box.right \in 0 .. c.cols - 1
            /\ box.top \in 0 .. c.rows - 1 /\ box.bottom \in 0 .. c.rows - 1
            /\ \A p \in kept : /\ box.left <= p[2] /\ p[2] <= box.right
                               /\ box.top <= p[1] /\ p[1] <= box.bottom
            /\ IF kept = {} THEN box.bottom = 0 /\ box.right = 0
               ELSE /\ \E p \in kept : p[1] = box.bottom
                    /\ \E p \in kept : p[2] = box.right
<1> DEFINE kept == {p \in CellsOf(c) : c.at[p] # ignore}
<1>1. c.rows \in Nat /\ c.cols \in Nat
  BY DEF IsCanvas
<1>2. PICK st :
        /\ st[0] = [found |-> FALSE, left |-> c.cols - 1, right |-> 0,
                    top |-> c.rows - 1, bottom |-> c.rows - 1]
        /\ \A i \in 1 .. c.rows : st[i] = TrimRow(st[i - 1], Row(c, i - 1), i - 1, ignore)
        /\ TrimBox(c, ignore) = IF st[c.rows].found THEN st[c.rows]
             ELSE [st[c.rows] EXCEPT !.left = 0, !.right = 0, !.top = 0, !.bottom = 0]
  BY <1>1, TrimSteps
<1> DEFINE T == {i \in 0 .. c.rows : Boxed(st[i], c, ignore, i)}
           last == st[c.rows]
<1>3. 0 \in T
  <2>1. Above(c, ignore, 0) = {}
    <3>1. \A p \in CellsOf(c) : p[1] \in Nat
      BY <1>1 DEF CellsOf, Cells
    <3> QED
      BY <3>1 DEF Above
  <2>2. Boxed(st[0], c, ignore, 0)
    BY <1>1, <1>2, <2>1 DEF Boxed
  <2> QED
    BY <1>1, <2>2
<1>4. ASSUME NEW i \in 1 .. c.rows, i - 1 \in T PROVE i \in T
  <2>1. i - 1 \in 0 .. c.rows - 1 /\ (i - 1) + 1 = i
    BY <1>1
  <2>2. Boxed(TrimRow(st[i - 1], Row(c, i - 1), i - 1, ignore), c, ignore, (i - 1) + 1)
    BY <1>4, <2>1, TrimRowBoxes
  <2> QED
    BY <1>1, <1>2, <2>1, <2>2
<1>5. Boxed(last, c, ignore, c.rows)
  <2>1. \A i \in 0 .. c.rows : i \in T
    <3> HIDE DEF T
    <3> QED
      BY <1>1, <1>3, <1>4, Along
  <2> QED
    BY <1>1, <2>1
<1>6. Above(c, ignore, c.rows) = kept
  <2>1. \A p \in CellsOf(c) : p[1] < c.rows
    BY <1>1 DEF CellsOf, Cells
  <2> QED
    BY <2>1 DEF Above
<1> HIDE DEF T, last
<1>7. CASE last.found
  <2>1. TrimBox(c, ignore) = last
    BY <1>2, <1>7 DEF last
  <2> QED
    BY <1>5, <1>6, <1>7, <2>1 DEF Boxed
<1>8. CASE ~last.found
  <2>1. TrimBox(c, ignore) = [last EXCEPT !.left = 0, !.right = 0, !.top = 0, !.bottom = 0]
    BY <1>2, <1>8 DEF last
  <2>2. TrimBox(c, ignore) = [found |-> last.found, left |-> 0, right |-> 0,
            top |-> 0, bottom |-> 0]
    BY <1>5, <2>1 DEF Boxed
  <2>3. kept = {}
    BY <1>5, <1>6, <1>8 DEF Boxed
  <2> QED
    BY <1>1, <2>2, <2>3
<1> QED
  BY <1>7, <1>8

(* CTRL-T: cropped to the last row and column that hold a character; only   *)
(* a canvas without a cell makes the assertion fail.                        *)
LEMMA TrimsTight ==
  ASSUME NEW c, IsCanvas(c)
  PROVE  LET trimmed == Trimc(c, Blank, TRUE, TRUE, FALSE, FALSE)
             d == trimmed.canvas
         IN /\ IsCanvas(d) /\ trimmed.ok \in BOOLEAN
            /\ ~trimmed.ok => CellsOf(d) = {}
            /\ trimmed.ok =>
                 /\ Ink(d) = Ink(c)
                 /\ \A p \in Ink(c) : d.at[p] = c.at[p]
                 /\ IF Ink(c) = {} THEN <<d.rows, d.cols>> = <<1, 1>>
                    ELSE /\ \E p \in Ink(c) : p[1] = d.rows - 1
                         /\ \E p \in Ink(c) : p[2] = d.cols - 1
<1> DEFINE box == TrimBox(c, Blank)
           trimmed == Trimc(c, Blank, TRUE, TRUE, FALSE, FALSE)
           d == CpyP1P2(c, 0, 0, box.bottom, box.right)
<1>1. c.rows \in Nat /\ c.cols \in Nat
  BY DEF IsCanvas
<1>2. trimmed = IF CanCopy(c, 0, 0, box.bottom, box.right)
                THEN [ok |-> TRUE, canvas |-> d] ELSE [ok |-> FALSE, canvas |-> c]
  BY DEF Trimc
<1> HIDE DEF trimmed
<1>3. CASE ~CanCopy(c, 0, 0, box.bottom, box.right)
  <2>1. ~(c.rows > 0 /\ c.cols > 0)
    <3> SUFFICES ASSUME c.rows > 0, c.cols > 0 PROVE FALSE
      OBVIOUS
    <3>1. box.bottom \in 0 .. c.rows - 1 /\ box.right \in 0 .. c.cols - 1
      BY TrimBoxes
    <3> HIDE DEF box
    <3> QED
      BY <1>1, <1>3, <3>1 DEF CanCopy, IsInYX
  <2>2. CellsOf(c) = {}
    BY <1>1, <2>1 DEF CellsOf, Cells
  <2>3. trimmed.ok = FALSE /\ trimmed.canvas = c
    BY <1>2, <1>3
  <2> QED
    BY <2>2, <2>3 DEF trimmed
<1>4. CASE CanCopy(c, 0, 0, box.bottom, box.right)
  <2>1. c.rows > 0 /\ c.cols > 0
    BY <1>1, <1>4 DEF CanCopy, IsInYX
  <2>2. /\ box.right \in 0 .. c.cols - 1 /\ box.bottom \in 0 .. c.rows - 1
        /\ \A p \in Ink(c) : p[2] <= box.right /\ p[1] <= box.bottom
        /\ IF Ink(c) = {} THEN box.bottom = 0 /\ box.right = 0
           ELSE /\ \E p \in Ink(c) : p[1] = box.bottom
                /\ \E p \in Ink(c) : p[2] = box.right
    BY <2>1, TrimBoxes DEF Ink
  <2> HIDE DEF box
  <2>3. Lesser(0, box.bottom) = 0 /\ Lesser(0, box.right) = 0
        /\ Distance(0, box.bottom) = box.bottom /\ Distance(0, box.right) = box.right
    BY <1>1, <2>2 DEF Lesser, Distance
  <2>4. d = [rows |-> box.bottom + 1, cols |-> box.right + 1,
             at |-> [p \in Cells(box.bottom + 1, box.right + 1) |-> c.at[<<p[1] + 0,
                 p[2] + 0>>]]]
    BY <2>3 DEF CpyP1P2
  <2>5. IsCanvas(d)
    BY <1>1, <1>4, <2>2, CopyIsCanvas
  <2> HIDE DEF d
  <2>6. /\ d.rows = box.bottom + 1 /\ d.cols = box.right + 1
        /\ CellsOf(d) = Cells(box.bottom + 1, box.right + 1)
    BY <2>4 DEF CellsOf
  <2>7. ASSUME NEW p \in CellsOf(d) PROVE d.at[p] = c.at[p]
    <3>1. p = <<p[1] + 0, p[2] + 0>>
      BY <1>1, <2>2, <2>6 DEF Cells
    <3> QED
      BY <2>4, <2>6, <3>1
  <2>8. CellsOf(d) \subseteq CellsOf(c)
    BY <1>1, <2>2, <2>6 DEF CellsOf, Cells
  <2>9. ASSUME NEW p \in Ink(c) PROVE p \in CellsOf(d)
    <3>1. p \in Cells(c.rows, c.cols)
      BY DEF Ink, CellsOf
    <3>2. p[2] <= box.right /\ p[1] <= box.bottom
      BY <2>2
    <3> QED
      BY <1>1, <2>2, <2>6, <3>1, <3>2 DEF Cells
  <2>10. Ink(d) = Ink(c)
    BY <2>7, <2>8, <2>9 DEF Ink
  <2>11. box.bottom = d.rows - 1 /\ box.right = d.cols - 1
    BY <1>1, <2>2, <2>6
  <2>12. trimmed.ok = TRUE /\ trimmed.canvas = d
    BY <1>2, <1>4 DEF d
  <2>13. /\ IF Ink(c) = {} THEN <<d.rows, d.cols>> = <<1, 1>>
            ELSE /\ \E p \in Ink(c) : p[1] = d.rows - 1
                 /\ \E p \in Ink(c) : p[2] = d.cols - 1
         /\ \A p \in Ink(c) : d.at[p] = c.at[p]
    BY <2>2, <2>6, <2>7, <2>9, <2>11
  <2> QED
    BY <2>5, <2>10, <2>12, <2>13 DEF trimmed
<1> QED
  BY <1>3, <1>4

-----------------------------------------------------------------------------
(* A client that joins *)

LEMMA DivMod ==
  ASSUME NEW rows \in Nat, NEW n \in Nat, NEW i \in 0 .. rows * n - 1
  PROVE  /\ n > 0 /\ i \div n \in 0 .. rows - 1 /\ i % n \in 0 .. n - 1
<1> DEFINE q == i \div n
           r == i % n
<1>1. n > 0 /\ rows * n \in Nat
  OBVIOUS
<1>2. q \in Int /\ r \in 0 .. n - 1 /\ i = n * q + r
  BY <1>1
<1> HIDE DEF q, r
<1>3. n * q = q * n
  BY <1>2
<1>4. ~(q >= rows)
  <2> SUFFICES ASSUME q >= rows PROVE FALSE
    OBVIOUS
  <2>1. q * n >= rows * n
    BY <1>1, <1>2
  <2> QED
    BY <1>1, <1>2, <1>3, <2>1
<1>5. ~(q < 0)
  <2> SUFFICES ASSUME q <= -1 PROVE FALSE
    BY <1>2
  <2>1. q * n <= (-1) * n
    BY <1>1, <1>2
  <2> QED
    BY <1>1, <1>2, <1>3, <2>1
<1>6. n > 0 /\ q \in 0 .. rows - 1 /\ r \in 0 .. n - 1
  BY <1>1, <1>2, <1>4, <1>5
<1> QED
  BY <1>6, Zenon DEF q, r

LEMMA DivModSum ==
  ASSUME NEW n \in Nat, n > 0, NEW i \in Nat, NEW q, q = i \div n, NEW r, r = i % n
  PROVE  i = q * n + r
<1>1. q \in Int /\ r \in 0 .. n - 1 /\ i = n * q + r
  OBVIOUS
<1>2. n * q = q * n
  BY <1>1
<1> QED
  BY <1>1, <1>2

LEMMA FirstIndex ==
  ASSUME NEW n \in Nat, n > 0
  PROVE  0 \div n = 0 /\ 0 % n = 0
<1>1. 0 \div n = 0
  OBVIOUS
<1>2. 0 % n = 0
  OBVIOUS
<1> QED
  BY <1>1, <1>2

(* What comes after i in the order of the cells *)
LEMMA NextIndex ==
  ASSUME NEW n \in Nat, n > 0, NEW i \in Nat
  PROVE  /\ i \div n \in Nat /\ i % n \in 0 .. n - 1
         /\ i % n = n - 1 => (i + 1) \div n = i \div n + 1 /\ (i + 1) % n = 0
         /\ i % n < n - 1 => (i + 1) \div n = i \div n /\ (i + 1) % n = (i % n) + 1
<1> DEFINE q == i \div n
           r == i % n
<1>1. i \in 0 .. (i + 1) * n - 1
  <2>1. (i + 1) * n >= (i + 1) * 1
    OBVIOUS
  <2> QED
    BY <2>1
<1>2. q \in Nat /\ r \in 0 .. n - 1
  BY <1>1, DivMod
<1> HIDE DEF q, r
<1>3. i = q * n + r
  <2>1. q = i \div n /\ r = i % n
    BY DEF q, r
  <2> QED
    BY <2>1, DivModSum
<1>4. ASSUME r = n - 1 PROVE (i + 1) \div n = q + 1 /\ (i + 1) % n = 0
  <2>1. (q + 1) * n + 0 = i + 1
    BY <1>2, <1>3, <1>4
  <2>2. q + 1 \in Nat /\ 0 \in 0 .. n - 1
    BY <1>2
  <2>3. ((q + 1) * n + 0) \div n = q + 1 /\ ((q + 1) * n + 0) % n = 0
    BY <2>2, RowAndColumn
  <2> QED
    BY <2>1, <2>3
<1>5. ASSUME r < n - 1 PROVE (i + 1) \div n = q /\ (i + 1) % n = r + 1
  <2>1. q * n + (r + 1) = i + 1
    BY <1>2, <1>3, <1>5
  <2>2. r + 1 \in 0 .. n - 1
    BY <1>2, <1>5
  <2>3. (q * n + (r + 1)) \div n = q /\ (q * n + (r + 1)) % n = r + 1
    BY <1>2, <2>2, RowAndColumn
  <2> QED
    BY <2>1, <2>3
<1> QED
  BY <1>2, <1>4, <1>5 DEF q, r

(* The first i cells of canvas c have come through. *)
Filled(st, c, i) ==
  /\ Writing(st, c, 0) /\ ~st.stopped /\ ~st.failed
  /\ i = 0 => st.row = 0 /\ st.col = 0
  /\ i > 0 => st.row = (i - 1) \div c.cols /\ st.col = ((i - 1) % c.cols) + 1
  /\ \A p \in CellsOf(c) :
       st.canvas.at[p] = IF p[1] * c.cols + p[2] < i THEN c.at[p] ELSE Blank

LEMMA FillsNext ==
  ASSUME NEW c, IsCanvas(c), NEW i \in 0 .. c.rows * c.cols - 1,
         NEW st, Filled(st, c, i)
  PROVE  Filled(LdChar(st, GCharI(c, i), 0, None), c, i + 1)
<1> DEFINE y == i \div c.cols
           x == i % c.cols
           ch == c.at[<<y, x>>]
           after == LdChar(st, ch, 0, None)
<1>1. c.rows \in Nat /\ c.cols \in Nat /\ c.at \in [CellsOf(c) -> Chars]
  BY DEF IsCanvas
<1>2. /\ c.cols > 0 /\ y \in 0 .. c.rows - 1 /\ x \in 0 .. c.cols - 1
      /\ i = y * c.cols + x
  <2>1. c.cols > 0 /\ y \in 0 .. c.rows - 1 /\ x \in 0 .. c.cols - 1
    BY <1>1, DivMod, Zenon
  <2>2. i \in Nat
    BY <1>1
  <2>3. y = i \div c.cols /\ x = i % c.cols
    OBVIOUS
  <2> HIDE DEF y, x
  <2>4. \A q, r : q = i \div c.cols /\ r = i % c.cols => i = q * c.cols + r
    BY <1>1, <2>1, <2>2, DivModSum, Zenon
  <2>5. i = y * c.cols + x
    BY <2>3, <2>4
  <2> QED
    BY <2>1, <2>5
<1>3. <<y, x>> \in CellsOf(c) /\ ch \in Chars /\ ch # NL /\ ch # None
  <2>1. <<y, x>> \in CellsOf(c)
    BY <1>1, <1>2 DEF CellsOf, Cells
  <2> QED
    BY <1>1, <2>1, DrawingAssumption
<1>4. GCharI(c, i) = ch
  BY DEF GCharI
<1>5. st.row \in Nat /\ st.col \in Nat /\ st.canvas.cols = c.cols /\ st.canvas.rows = c.rows
      /\ ~st.stopped /\ IsCanvas(st.canvas)
  BY DEF Filled, Writing
<1>6. IF st.col >= c.cols THEN y = st.row + 1 /\ x = 0 ELSE y = st.row /\ x = st.col
  <2>1. CASE i = 0
    <3>1. st.row = 0 /\ st.col = 0
      BY <2>1 DEF Filled
    <3>2. 0 \div c.cols = 0 /\ 0 % c.cols = 0
      BY <1>1, <1>2, FirstIndex, Zenon
    <3>3. y = 0 /\ x = 0
      BY <2>1, <3>2, Zenon
    <3> QED
      BY <1>1, <1>2, <3>1, <3>3
  <2>2. CASE i > 0
    <3> DEFINE k == i - 1
    <3>1. k \in Nat /\ k + 1 = i
      BY <1>1, <2>2
    <3>2. st.row = k \div c.cols /\ st.col = (k % c.cols) + 1
      BY <2>2 DEF Filled
    <3> HIDE DEF k
    <3>3. /\ k \div c.cols \in Nat /\ k % c.cols \in 0 .. c.cols - 1
          /\ k % c.cols = c.cols - 1 =>
               (k + 1) \div c.cols = k \div c.cols + 1 /\ (k + 1) % c.cols = 0
          /\ k % c.cols < c.cols - 1 =>
               (k + 1) \div c.cols = k \div c.cols /\ (k + 1) % c.cols = (k % c.cols) + 1
      BY <1>1, <1>2, <3>1, NextIndex
    <3>4. /\ k % c.cols = c.cols - 1 => y = k \div c.cols + 1 /\ x = 0
          /\ k % c.cols < c.cols - 1 => y = k \div c.cols /\ x = (k % c.cols) + 1
      BY <3>1, <3>3
    <3> HIDE DEF y, x
    <3> DEFINE q == k \div c.cols
               r == k % c.cols
    <3>5. /\ r \in 0 .. c.cols - 1 /\ q \in Nat
          /\ r = c.cols - 1 => y = q + 1 /\ x = 0
          /\ r < c.cols - 1 => y = q /\ x = r + 1
          /\ st.row = q /\ st.col = r + 1
      BY <3>2, <3>3, <3>4
    <3> HIDE DEF q, r
    <3> QED
      BY <1>1, <3>5
  <2>3. i \in Nat
    BY <1>1
  <2> QED
    BY <2>1, <2>2, <2>3
<1> HIDE DEF y, x
<1>7. IsInYX(st.canvas, y, x) /\ ~(y >= st.canvas.rows)
  BY <1>1, <1>2, <1>5 DEF IsInYX
<1> HIDE DEF ch
<1>8. after = [canvas |-> SCharYX(st.canvas, y, x, ch), row |-> y, col |-> x + 1,
               read |-> st.read + 1, put |-> st.put + 1,
               stopped |-> st.stopped, failed |-> st.failed]
  <2> DEFINE wraps == st.col >= st.canvas.cols \/ ch = NL
  <2>1. y = (IF wraps THEN st.row + 1 ELSE st.row) /\ x = (IF wraps THEN 0 ELSE st.col)
    BY <1>3, <1>5, <1>6
  <2>2. after = [st EXCEPT !.canvas = SCharYX(@, y, x, ch), !.put = @ + 1,
                           !.row = y, !.col = x + 1, !.read = @ + 1]
    BY <1>3, <1>5, <1>7, <2>1, Zenon DEF LdChar
  <2>3. st = [canvas |-> st.canvas, row |-> st.row, col |-> st.col, read |-> st.read,
              put |-> st.put, stopped |-> st.stopped, failed |-> st.failed]
    BY DEF Filled, Writing
  <2> HIDE DEF after
  <2> QED
    BY <2>2, <2>3
<1>9. Writing(after, c, 0)
  BY <1>1, <1>3, LdCharWrites DEF Filled
<1>10. (i + 1) - 1 = i /\ i + 1 > 0 /\ i \in Nat
  BY <1>1
<1>11. ASSUME NEW p \in CellsOf(c)
       PROVE  after.canvas.at[p] = IF p[1] * c.cols + p[2] < i + 1 THEN c.at[p] ELSE Blank
  <2> DEFINE k == p[1] * c.cols + p[2]
  <2>1. CellsOf(st.canvas) = CellsOf(c)
    BY <1>5 DEF CellsOf
  <2>2. after.canvas.at[p] = IF p = <<y, x>> THEN ch ELSE st.canvas.at[p]
    BY <1>3, <1>5, <1>8, <2>1, SetCell
  <2>3. k \in Nat /\ p = <<p[1], p[2]>> /\ k \div c.cols = p[1] /\ k % c.cols = p[2]
    BY <1>1, CellIndex DEF CellsOf
  <2>4. st.canvas.at[p] = IF k < i THEN c.at[p] ELSE Blank
    BY DEF Filled
  <2> HIDE DEF k
  <2>5. CASE p = <<y, x>>
    <3>1. k = i
      BY <1>2, <2>5 DEF k
    <3> QED
      BY <1>10, <2>2, <2>5, <3>1 DEF ch, k
  <2>6. CASE p # <<y, x>>
    <3>1. k # i
      BY <2>3, <2>6 DEF y, x
    <3> QED
      BY <1>10, <2>2, <2>3, <2>4, <2>6, <3>1 DEF k
  <2> QED
    BY <2>5, <2>6
<1>12. ~after.stopped /\ ~after.failed /\ after.row = y /\ after.col = x + 1
  BY <1>8 DEF Filled
<1> HIDE DEF after
<1>13. Filled(after, c, i + 1)
  BY <1>9, <1>10, <1>11, <1>12 DEF Filled, y, x
<1> QED
  BY <1>4, <1>13 DEF after

(* A canvas that is full stays as it is, whatever else comes.               *)
Full(st, c) ==
  /\ Writing(st, c, 0) /\ ~st.failed /\ st.canvas = c
  /\ st.stopped \/ st.row >= c.rows \/ (st.row = c.rows - 1 /\ st.col >= c.cols)

LEMMA StaysFull ==
  ASSUME NEW c, IsCanvas(c), NEW st, Full(st, c), NEW ch \in Chars \cup {NL}
  PROVE  Full(LdChar(st, ch, 0, None), c)
<1> DEFINE after == LdChar(st, ch, 0, None)
<1>1. c.rows \in Nat /\ c.cols \in Nat /\ st.row \in Nat /\ st.col \in Nat /\ st.canvas = c
  BY DEF Full, Writing, IsCanvas
<1>2. Writing(after, c, 0)
  BY LdCharWrites DEF Full
<1>3. st = [canvas |-> st.canvas, row |-> st.row, col |-> st.col, read |-> st.read,
            put |-> st.put, stopped |-> st.stopped, failed |-> st.failed]
  BY DEF Full, Writing
<1>4. CASE st.stopped
  BY <1>4 DEF LdChar
<1>5. CASE ~st.stopped /\ ch = NL
  <2>1. after = [st EXCEPT !.row = st.row + 1, !.col = 0, !.read = @ + 1]
    BY <1>5 DEF LdChar
  <2> HIDE DEF after
  <2>2. after = [canvas |-> st.canvas, row |-> st.row + 1, col |-> 0, read |-> st.read + 1,
                 put |-> st.put, stopped |-> st.stopped, failed |-> st.failed]
    BY <1>3, <2>1
  <2>3. after.row >= c.rows
    BY <1>1, <1>5, <2>2 DEF Full
  <2>4. Full(after, c)
    BY <1>2, <2>2, <2>3 DEF Full
  <2> QED
    BY <2>4 DEF after
<1>6. CASE ~st.stopped /\ ch # NL
  <2>1. (IF st.col >= st.canvas.cols THEN st.row + 1 ELSE st.row) >= st.canvas.rows
    BY <1>1, <1>6 DEF Full
  <2>2. after = [st EXCEPT !.stopped = TRUE]
    BY <1>6, <2>1 DEF LdChar
  <2> HIDE DEF after
  <2>3. after = [canvas |-> st.canvas, row |-> st.row, col |-> st.col, read |-> st.read,
                 put |-> st.put, stopped |-> TRUE, failed |-> st.failed]
    BY <1>3, <2>2
  <2>4. Full(after, c)
    BY <1>2, <2>3 DEF Full
  <2> QED
    BY <2>4 DEF after
<1> QED
  BY <1>4, <1>5, <1>6

LEMMA FilledIsFull ==
  ASSUME NEW c, IsCanvas(c), c.rows > 0, c.cols > 0,
         NEW st, Filled(st, c, c.rows * c.cols)
  PROVE  Full(st, c)
<1> DEFINE size == c.rows * c.cols
<1>1. c.rows \in Nat /\ c.cols \in Nat
  BY DEF IsCanvas
<1>2. size = (c.rows - 1) * c.cols + c.cols /\ (c.rows - 1) * c.cols \in Nat
  BY <1>1
<1>3. size > 0 /\ size - 1 = (c.rows - 1) * c.cols + (c.cols - 1)
  BY <1>1, <1>2
<1>4. (size - 1) \div c.cols = c.rows - 1 /\ (size - 1) % c.cols = c.cols - 1
  <2>1. c.rows - 1 \in Nat /\ c.cols - 1 \in 0 .. c.cols - 1
    BY <1>1
  <2>2. /\ ((c.rows - 1) * c.cols + (c.cols - 1)) \div c.cols = c.rows - 1
        /\ ((c.rows - 1) * c.cols + (c.cols - 1)) % c.cols = c.cols - 1
    BY <1>1, <2>1, RowAndColumn, Zenon
  <2> HIDE DEF size
  <2> QED
    BY <1>3, <2>2, Zenon
<1>5. st.row = c.rows - 1 /\ st.col = c.cols
  <2>1. st.row = (size - 1) \div c.cols /\ st.col = ((size - 1) % c.cols) + 1
    BY <1>3 DEF Filled
  <2> HIDE DEF size
  <2> QED
    BY <1>1, <1>4, <2>1
<1>6. ASSUME NEW p \in CellsOf(c) PROVE st.canvas.at[p] = c.at[p]
  <2>1. p[1] * c.cols + p[2] \in 0 .. size - 1
    BY <1>1, CellIndex DEF CellsOf
  <2>2. p[1] * c.cols + p[2] < size
    <3> DEFINE k == p[1] * c.cols + p[2]
    <3>0. size \in Nat
      BY <1>1
    <3> HIDE DEF k, size
    <3>1. k \in 0 .. size - 1 => k < size
      BY <3>0
    <3> QED
      BY <2>1, <3>1 DEF k
  <2> QED
    BY <2>2 DEF Filled
<1>7. st.canvas = c
  <2>1. IsCanvas(st.canvas) /\ st.canvas.rows = c.rows /\ st.canvas.cols = c.cols
    BY DEF Filled, Writing
  <2>2. CellsOf(st.canvas) = CellsOf(c)
    BY <2>1 DEF CellsOf
  <2> QED
    BY <1>6, <2>1, <2>2, SameCanvas
<1> QED
  BY <1>1, <1>5, <1>7 DEF Full, Filled

(* canvas_serialize() *)
LEMMA SerializedText ==
  ASSUME NEW c, IsCanvas(c)
  PROVE  /\ Serialize(c) \in Seq(Chars \cup {NL}) /\ Len(Serialize(c)) = c.rows * c.cols
         /\ \A i \in 1 .. c.rows * c.cols : Serialize(c)[i] = GCharI(c, i - 1)
<1> DEFINE size == c.rows * c.cols
<1>1. c.rows \in Nat /\ c.cols \in Nat /\ size \in Nat /\ c.at \in [CellsOf(c) -> Chars]
  BY DEF IsCanvas
<1>2. ASSUME NEW i \in 1 .. size PROVE GCharI(c, i - 1) \in Chars
  <2>1. i - 1 \in 0 .. c.rows * c.cols - 1
    BY <1>1
  <2>2. (i - 1) \div c.cols \in 0 .. c.rows - 1 /\ (i - 1) % c.cols \in 0 .. c.cols - 1
    BY <1>1, <2>1, DivMod
  <2>3. <<(i - 1) \div c.cols, (i - 1) % c.cols>> \in CellsOf(c)
    BY <2>2 DEF CellsOf, Cells
  <2> QED
    BY <1>1, <2>3 DEF GCharI
<1>3. Serialize(c) \in Seq(Chars \cup {NL}) /\ Len(Serialize(c)) = size
      /\ \A i \in 1 .. size : Serialize(c)[i] = GCharI(c, i - 1)
  <2>1. Serialize(c) = [i \in 1 .. size |-> GCharI(c, i - 1)]
    BY DEF Serialize
  <2> HIDE DEF size
  <2>2. [i \in 1 .. size |-> GCharI(c, i - 1)] \in [1 .. size -> Chars \cup {NL}]
    BY <1>2
  <2>3. Serialize(c) \in Seq(Chars \cup {NL}) /\ Len(Serialize(c)) = size
    BY <1>1, <2>1, <2>2
  <2> QED
    BY <2>1, <2>3
<1> QED
  BY <1>3

(* Whatever follows the cells of a canvas, a canvas of its size is filled   *)
(* with it.                                                                 *)
LEMMA ReceivesCanvas ==
  ASSUME NEW c, IsCanvas(c), c.rows > 0, c.cols > 0,
         NEW rest \in Seq(Chars \cup {NL})
  PROVE  LET joined == LdStr(New(c.rows, c.cols), Serialize(c) \o rest)
         IN joined.canvas = c /\ ~joined.failed
<1> DEFINE size == c.rows * c.cols
           str == Serialize(c) \o rest
           blank == New(c.rows, c.cols)
<1>1. c.rows \in Nat /\ c.cols \in Nat /\ size \in Nat /\ c.at \in [CellsOf(c) -> Chars]
  BY DEF IsCanvas
<1>3. Serialize(c) \in Seq(Chars \cup {NL}) /\ Len(Serialize(c)) = size
      /\ \A i \in 1 .. size : Serialize(c)[i] = GCharI(c, i - 1)
  BY SerializedText
<1> HIDE DEF size
<1>4. /\ str \in Seq(Chars \cup {NL}) /\ Len(str) = size + Len(rest) /\ Len(rest) \in Nat
      /\ \A i \in 1 .. Len(str) : str[i] \in Chars \cup {NL}
      /\ \A i \in 1 .. size : str[i] = GCharI(c, i - 1)
  <2>1. Len(rest) \in Nat
    OBVIOUS
  <2>2. /\ str \in Seq(Chars \cup {NL}) /\ Len(str) = size + Len(rest)
        /\ \A i \in 1 .. size + Len(rest) : str[i] = IF i <= size
               THEN Serialize(c)[i] ELSE rest[i - size]
    BY <1>3, ConcatProperties
  <2> HIDE DEF str
  <2> QED
    BY <1>1, <1>3, <2>1, <2>2
<1> HIDE DEF str
<1>5. PICK st : Loading(st, blank, str, 0, 0, None)
  <2> HIDE DEF blank
  <2>1. Len(str) \in Nat
    BY <1>4
  <2> QED
    BY <2>1, LdSteps
<1> USE DEF Loading
<1>6. Len(str) \in Nat /\ size \in 0 .. Len(str) /\ size > 0
  BY <1>1, <1>4 DEF size
<1> DEFINE T == {i \in 0 .. size : Filled(st[i], c, i)}
           U == {i \in 0 .. Len(str) : i >= size => Full(st[i], c)}
<1>7. 0 \in T
  <2>1. IsCanvas(blank) /\ blank.rows = c.rows /\ blank.cols = c.cols
    BY <1>1, NewIsCanvas DEF New
  <2>2. \A p \in CellsOf(c) : blank.at[p] = Blank /\ p[1] * c.cols + p[2] \in Nat
    <3>1. \A p \in CellsOf(c) : blank.at[p] = Blank
      BY DEF New, CellsOf
    <3>2. \A p \in CellsOf(c) : p[1] * c.cols + p[2] \in 0 .. c.rows * c.cols - 1
      BY <1>1, CellIndex DEF CellsOf
    <3>3. \A k \in 0 .. c.rows * c.cols - 1 : k \in Nat
      BY <1>1
    <3> QED
      BY <3>1, <3>2, <3>3
  <2> HIDE DEF blank
  <2>3. Writing(st[0], c, 0)
    BY <1>5, <2>1 DEF Writing
  <2>4. \A p \in CellsOf(c) : st[0].canvas.at[p] = IF p[1] * c.cols + p[2] < 0
            THEN c.at[p] ELSE Blank
    BY <1>5, <2>2
  <2>5. Filled(st[0], c, 0)
    BY <1>5, <2>3, <2>4 DEF Filled
  <2> QED
    BY <1>1, <2>5
<1>8. ASSUME NEW i \in 1 .. size, i - 1 \in T PROVE i \in T
  <2>1. i - 1 \in 0 .. c.rows * c.cols - 1 /\ (i - 1) + 1 = i
    BY <1>1 DEF size
  <2>2. Filled(LdChar(st[i - 1], GCharI(c, i - 1), 0, None), c, (i - 1) + 1)
    BY <1>8, <2>1, FillsNext
  <2>3. st[i] = LdChar(st[i - 1], GCharI(c, i - 1), 0, None)
    BY <1>4, <1>5, <1>6
  <2> QED
    BY <1>6, <2>1, <2>2, <2>3
<1>9. Full(st[size], c)
  <2>1. \A i \in 0 .. size : i \in T
    <3> HIDE DEF T
    <3> QED
      BY <1>1, <1>7, <1>8, Along
  <2>2. Filled(st[size], c, size)
    BY <1>6, <2>1
  <2> QED
    BY <2>2, FilledIsFull DEF size
<1>10. 0 \in U
  BY <1>6
<1>11. ASSUME NEW i \in 1 .. Len(str), i - 1 \in U PROVE i \in U
  <2>1. CASE i - 1 >= size
    <3>1. Full(st[i - 1], c) /\ str[i] \in Chars \cup {NL}
      BY <1>4, <1>11, <2>1
    <3>2. Full(LdChar(st[i - 1], str[i], 0, None), c)
      BY <3>1, StaysFull
    <3> QED
      BY <1>5, <3>2
  <2>2. CASE i - 1 < size
    <3>1. i >= size => i = size
      BY <1>6, <2>2
    <3> QED
      BY <1>9, <3>1
  <2> QED
    BY <1>6, <2>1, <2>2
<1>12. Full(st[Len(str)], c)
  <2>1. \A i \in 0 .. Len(str) : i \in U
    <3> HIDE DEF U
    <3> QED
      BY <1>6, <1>10, <1>11, Along
  <2> QED
    BY <1>6, <2>1
<1> QED
  BY <1>5, <1>12 DEF Full, LdStr, str

LEMMA UndefinedIsText ==
  ASSUME NEW undefined \in UndefinedByte
  PROVE  undefined \in Seq(Chars \cup {NL}) /\ <<NL>> \in Seq(Chars \cup {NL})
<1>1. CASE undefined = <<>>
  BY <1>1
<1>2. CASE undefined # <<>>
  <2>1. PICK ch \in Chars \cup {NL} : undefined = <<ch>>
    BY <1>2 DEF UndefinedByte
  <2> QED
    BY <2>1
<1> QED
  BY <1>1, <1>2

(* JoinCopies holds of every canvas that has cells. *)
LEMMA JoinsWithCopy ==
  ASSUME NEW c, IsCanvas(c), CellsOf(c) # {}, NEW undefined \in UndefinedByte
  PROVE  LET joined == Joined(c, undefined) IN joined.canvas = c /\ ~joined.failed
<1>1. c.rows \in Nat /\ c.cols \in Nat
  BY DEF IsCanvas
<1>2. c.rows > 0 /\ c.cols > 0
  BY <1>1 DEF CellsOf, Cells
<1>3. undefined \in Seq(Chars \cup {NL}) /\ <<NL>> \in Seq(Chars \cup {NL})
  BY UndefinedIsText
<1>4. undefined \o <<NL>> \in Seq(Chars \cup {NL})
  BY <1>3, ConcatProperties
<1>5. Serialize(c) \o undefined \o <<NL>> = Serialize(c) \o (undefined \o <<NL>>)
  <2>1. Serialize(c) \in Seq(Chars \cup {NL})
    BY SerializedText
  <2> QED
    BY <1>3, <2>1, ConcatAssociative
<1>6. Joined(c, undefined) = LdStr(New(c.rows, c.cols),
          Serialize(c) \o (undefined \o <<NL>>))
  BY <1>5 DEF Joined, Deserialize
<1> DEFINE rest == undefined \o <<NL>>
<1> HIDE DEF rest
<1>7. rest \in Seq(Chars \cup {NL}) /\ Joined(c, undefined) = LdStr(New(c.rows,
          c.cols), Serialize(c) \o rest)
  BY <1>4, <1>6 DEF rest
<1>8. LET joined == LdStr(New(c.rows, c.cols), Serialize(c) \o rest)
      IN joined.canvas = c /\ ~joined.failed
  BY <1>2, <1>7, ReceivesCanvas
<1> QED
  BY <1>7, <1>8

-----------------------------------------------------------------------------
(* The sizes that the editor is started with *)

(* -h and -w: a size that is negative never gets past parse_args().         *)
LEMMA StartSizes ==
  ASSUME NEW args \in Starts
  PROVE  args.height \in Nat /\ args.width \in Nat
<1>1. PICK words \in Argvs : args = ParseArgs(words) /\ args.exit = "no"
  BY DEF Starts, Outcomes
<1> DEFINE given == ArgParse(words).given
<1>2. Scanned(ArgParse(words))
  <2>1. words \in Seq({words[i] : i \in DOMAIN words})
    BY CommandLineAssumption
  <2>2. Len(words) \in Nat
    BY <2>1
  <2> QED
    BY <2>2, ArgParseScanned
<1>3. args = Started(given) /\ Valid(given)
  <2>1. \A why \in {"help", "usage", "version", "error", "invalid"} : Exit(why).exit # "no"
    BY DEF Exit
  <2> HIDE DEF given
  <2>2. ParseArgs(words) \in {Exit("help"), Exit("usage"), Exit("version"),
            Exit("error"), Exit("invalid")}
        \/ (ParseArgs(words) = Started(given) /\ Valid(given))
    BY DEF ParseArgs, given
  <2> QED
    BY <1>1, <2>1, <2>2
<1>4. ASSUME NEW o \in Numeric PROVE NumberOr0(given[o]) \in Int
  <2>1. given[o] = <<>> \/ \E v : given[o] = <<v>> /\ IsInt(v)
    BY <1>2 DEF Scanned
  <2>2. CASE given[o] = <<>>
    BY <2>2 DEF NumberOr0
  <2>3. CASE given[o] # <<>>
    <3>1. PICK v : given[o] = <<v>> /\ IsInt(v)
      BY <2>1, <2>3
    <3>2. IntOf(v) \in Int
      BY <3>1, IntOfIsInt
    <3>3. NumberOr0(given[o]) = IntOf(v)
      BY <2>3, <3>1 DEF NumberOr0
    <3> QED
      BY <3>2, <3>3
  <2> QED
    BY <2>2, <2>3
<1> HIDE DEF given
<1>5. NumberOr0(given["width"]) >= 0 /\ NumberOr0(given["height"]) >= 0
  BY <1>3 DEF Valid
<1>6. NumberOr0(given["width"]) \in Int /\ NumberOr0(given["height"]) \in Int
  BY <1>4 DEF Numeric
<1>7. args.height = NumberOr0(given["height"]) /\ args.width = NumberOr0(given["width"])
  BY <1>3 DEF Started
<1> QED
  BY <1>5, <1>6, <1>7

-----------------------------------------------------------------------------
(* The invariants *)

LEMMA ResizesFrom ==
  ASSUME NEW c, IsCanvas(c), NEW height \in Nat, NEW width \in Nat
  PROVE  LET rows == Asked(height, c.rows)
             cols == Asked(width, c.cols)
         IN /\ rows \in Nat /\ cols \in Nat
            /\ CanResize(rows, cols) => IsCanvas(Resize(c, rows, cols))
            /\ ~CanResize(rows, cols) => CellsOf(c) = {}
<1> DEFINE rows == Asked(height, c.rows)
           cols == Asked(width, c.cols)
<1>1. c.rows \in Nat /\ c.cols \in Nat
  BY DEF IsCanvas
<1>2. /\ rows \in Nat /\ cols \in Nat
      /\ c.rows > 0 => rows > 0
      /\ c.cols > 0 => cols > 0
  BY <1>1 DEF Asked
<1> HIDE DEF rows, cols
<1>3. CanResize(rows, cols) <=> rows > 0 /\ cols > 0
  BY <1>2 DEF CanResize, CanLoad, New, IsInYX
<1>4. CanResize(rows, cols) => IsCanvas(Resize(c, rows, cols))
  BY <1>2, ResizeCropsOrExtends
<1>5. ~CanResize(rows, cols) => CellsOf(c) = {}
  BY <1>1, <1>2, <1>3 DEF CellsOf, Cells
<1> QED
  BY <1>2, <1>4, <1>5 DEF rows, cols

LEMMA JoinedIsCanvas ==
  ASSUME NEW c, IsCanvas(c), NEW undefined \in UndefinedByte
  PROVE  LET joined == Joined(c, undefined) IN
         /\ IsCanvas(joined.canvas) /\ joined.failed \in BOOLEAN
         /\ joined.failed => CellsOf(joined.canvas) = {}
<1> DEFINE blank == New(c.rows, c.cols)
           text == Serialize(c) \o undefined \o <<NL>>
           joined == LdStrYXC(blank, text, 0, 0, None)
<1>1. Joined(c, undefined) = joined
  BY DEF Joined, Deserialize, LdStr
<1>2. IsCanvas(blank)
  BY NewIsCanvas DEF IsCanvas
<1>3. text \in Seq(Chars \cup {NL})
  <2>1. undefined \in Seq(Chars \cup {NL}) /\ <<NL>> \in Seq(Chars \cup {NL})
    BY UndefinedIsText
  <2>2. Serialize(c) \in Seq(Chars \cup {NL})
    BY SerializedText
  <2>3. Serialize(c) \o undefined \in Seq(Chars \cup {NL})
    BY <2>1, <2>2, ConcatProperties
  <2> QED
    BY <2>1, <2>3, ConcatProperties
<1>4. Writing(joined, blank, 0)
  <2> HIDE DEF blank, text
  <2> QED
    BY <1>2, <1>3, LdWrites
<1>5. blank.cols \in Nat
  BY <1>2 DEF IsCanvas
<1> HIDE DEF joined, blank
<1>6. joined.failed => joined.canvas.cols = 0
  BY <1>4, <1>5 DEF Writing
<1>7. joined.canvas.cols = 0 => CellsOf(joined.canvas) = {}
  BY DEF CellsOf, Cells
<1> QED
  BY <1>1, <1>4, <1>6, <1>7 DEF Writing

LEMMA ServerCanvas ==
  ASSUME NEW c \in ServerCanvases, NEW text \in Texts
  PROVE  IsCanvas(LdStr(c, text).canvas)
<1>1. IsCanvas(c)
  <2>1. CASE c = New(DEFAULT_HEIGHT, DEFAULT_WIDTH)
    BY <2>1, DrawingAssumption, NewIsCanvas
  <2>2. CASE c # New(DEFAULT_HEIGHT, DEFAULT_WIDTH)
    <3>1. PICK t \in Texts : c = Readf(t).canvas
      BY <2>2 DEF ServerCanvases
    <3>2. t \in Seq(Chars \cup {NL})
      BY DrawingAssumption
    <3> QED
      BY <3>1, <3>2, ReadsCanvas
  <2> QED
    BY <2>1, <2>2
<1>2. text \in Seq(Chars \cup {NL})
  BY DrawingAssumption
<1>3. Writing(LdStrYXC(c, text, 0, 0, None), c, 0)
  BY <1>1, <1>2, LdWrites
<1> QED
  BY <1>3 DEF LdStr, Writing

(* What is left when a canvas is put in place *)
InPlace == TypeOK' /\ (aborted' => CellsOf(canvas') = {})

LEMMA TypeInit == Init => TypeOK
<1> SUFFICES ASSUME Init PROVE TypeOK
  OBVIOUS
<1>1. IsCanvas(New(0, 0))
  BY NewIsCanvas
<1> QED
  BY <1>1, DrawingAssumption DEF Init, NoCanvas, TypeOK

LEMMA BeginsInPlace ==
  ASSUME TypeOK, NEW loaded, Begin(loaded), IsCanvas(loaded.canvas),
      loaded.failed \in BOOLEAN,
         loaded.failed => CellsOf(loaded.canvas) = {}
  PROVE  InPlace
BY DEF InPlace, TypeOK, Begin

LEMMA EndsInPlace ==
  ASSUME TypeOK, End, file' = None \/ file' \in Seq(Chars \cup {NL})
  PROVE  InPlace
<1>1. IsCanvas(New(0, 0))
  BY NewIsCanvas
<1>2. CellsOf(New(0, 0)) = {}
  BY DEF New, CellsOf, Cells
<1> QED
  BY <1>1, <1>2 DEF InPlace, TypeOK, End, NoCanvas

LEMMA StartsInPlace == TypeOK /\ Start => InPlace
<1> SUFFICES ASSUME TypeOK, NEW args \in Starts,
                    \/ StartBlank(args) \/ StartStdin(args)
                    \/ StartFile(args) \/ StartConnected(args)
             PROVE  InPlace
  BY DEF Start
<1>1. args.height \in Nat /\ args.width \in Nat
  BY StartSizes
<1>2. CASE StartBlank(args)
  <2> DEFINE rows == Asked(args.height, DEFAULT_HEIGHT)
             cols == Asked(args.width, DEFAULT_WIDTH)
             loaded == [canvas |-> New(rows, cols), failed |-> FALSE]
  <2>1. rows \in Nat /\ cols \in Nat
    BY <1>1, DrawingAssumption DEF Asked
  <2>2. Begin(loaded)
    BY <1>2 DEF StartBlank
  <2> HIDE DEF rows, cols
  <2>3. IsCanvas(loaded.canvas) /\ loaded.failed = FALSE
    BY <2>1, NewIsCanvas
  <2> HIDE DEF loaded
  <2> QED
    BY <2>2, <2>3, BeginsInPlace
<1>3. CASE StartStdin(args)
  <2>1. PICK text \in Texts : Begin(Readf(text))
    BY <1>3 DEF StartStdin
  <2>2. text \in Seq(Chars \cup {NL})
    BY DrawingAssumption
  <2> QED
    BY <2>1, <2>2, ReadsCanvas, BeginsInPlace
<1>4. CASE StartFile(args)
  <2> DEFINE read == Readf(file)
             rows == Asked(args.height, read.canvas.rows)
             cols == Asked(args.width, read.canvas.cols)
             resizes == args.height # 0 \/ args.width # 0
             loaded == [canvas |-> IF resizes /\ CanResize(rows, cols)
                                   THEN Resize(read.canvas, rows, cols) ELSE read.canvas,
                        failed |-> read.failed \/ (resizes /\ ~CanResize(rows, cols))]
  <2>1. Begin(loaded) /\ file # None
    BY <1>4 DEF StartFile
  <2>2. file \in Seq(Chars \cup {NL})
    BY <2>1 DEF TypeOK
  <2>3. IsCanvas(read.canvas) /\ read.failed = FALSE
    BY <2>2, ReadsCanvas
  <2> HIDE DEF read
  <2>4. /\ rows \in Nat /\ cols \in Nat
        /\ CanResize(rows, cols) => IsCanvas(Resize(read.canvas, rows, cols))
        /\ ~CanResize(rows, cols) => CellsOf(read.canvas) = {}
    BY <1>1, <2>3, ResizesFrom
  <2> HIDE DEF rows, cols
  <2>5. /\ loaded.canvas = (IF resizes /\ CanResize(rows, cols)
                            THEN Resize(read.canvas, rows, cols) ELSE read.canvas)
        /\ loaded.failed = (read.failed \/ (resizes /\ ~CanResize(rows, cols)))
    OBVIOUS
  <2> HIDE DEF loaded
  <2> QED
    BY <2>1, <2>3, <2>4, <2>5, BeginsInPlace
<1>5. CASE StartConnected(args)
  <2>1. PICK c \in ServerCanvases, text \in Texts, undefined \in UndefinedByte :
          Begin(Joined(LdStr(c, text).canvas, undefined))
    BY <1>5 DEF StartConnected
  <2>2. IsCanvas(LdStr(c, text).canvas)
    BY ServerCanvas
  <2> QED
    BY <2>1, <2>2, JoinedIsCanvas, BeginsInPlace
<1> QED
  BY <1>2, <1>3, <1>4, <1>5

LEMMA ReadsInPlace == TypeOK /\ ReadFromFile => InPlace
<1> SUFFICES ASSUME TypeOK, ReadFromFile PROVE InPlace
  OBVIOUS
<1>1. CASE file = None
  BY <1>1, EndsInPlace DEF ReadFromFile, TypeOK
<1>2. CASE file # None
  <2>1. file \in Seq(Chars \cup {NL})
    BY <1>2 DEF TypeOK
  <2>2. IsCanvas(Readf(file).canvas) /\ Readf(file).failed = FALSE
    BY <2>1, ReadsCanvas
  <2> QED
    BY <1>2, <2>2 DEF ReadFromFile, InPlace, TypeOK
<1> QED
  BY <1>1, <1>2

LEMMA TrimsInPlace == TypeOK /\ TrimCanvas => InPlace
<1> SUFFICES ASSUME TypeOK, TrimCanvas PROVE InPlace
  OBVIOUS
<1> DEFINE trimmed == Trimc(canvas, Blank, TRUE, TRUE, FALSE, FALSE)
<1>1. /\ IsCanvas(trimmed.canvas) /\ trimmed.ok \in BOOLEAN
      /\ ~trimmed.ok => CellsOf(trimmed.canvas) = {}
  BY TrimsTight DEF TypeOK
<1>2. /\ canvas' = trimmed.canvas /\ aborted' = ~trimmed.ok /\ UNCHANGED <<file, running>>
  BY DEF TrimCanvas
<1> HIDE DEF trimmed
<1> QED
  BY <1>1, <1>2 DEF InPlace, TypeOK

LEMMA TypeEdit ==
  ASSUME TypeOK, Edit
  PROVE  TypeOK'
<1>1. IsCanvas(canvas) /\ FPrintTrim(canvas) \in Seq(Chars \cup {NL})
  BY SavesText DEF TypeOK
<1>2. ASSUME NEW p \in Places, NEW ch \in Chars, Draw(p[1], p[2], ch)
      PROVE  TypeOK'
  <2>1. p[1] \in Int /\ p[2] \in Int
    BY <1>1 DEF Places, IsCanvas
  <2>2. CASE IsInYX(canvas, p[1], p[2])
    <3>1. IsCanvas(SCharYX(canvas, p[1], p[2], ch))
      BY <1>1, <2>1, <2>2, SetCell
    <3> QED
      BY <1>2, <2>2, <3>1 DEF TypeOK, Draw
  <2>3. CASE ~IsInYX(canvas, p[1], p[2])
    BY <1>2, <2>3 DEF TypeOK, Draw
  <2> QED
    BY <2>2, <2>3
<1>3. CASE WriteToFile
  BY <1>1, <1>3 DEF TypeOK, WriteToFile
<1>4. CASE ReadFromFile
  BY <1>4, ReadsInPlace DEF InPlace
<1>5. CASE TrimCanvas
  BY <1>5, TrimsInPlace DEF InPlace
<1>6. CASE Quit
  BY <1>6, EndsInPlace DEF Quit, TypeOK, InPlace
<1>7. ASSUME NEW n \in 0 .. Len(FPrintTrim(canvas)), WriteBreaksOff(n)
      PROVE  TypeOK'
  <2>1. file' = SubSeq(FPrintTrim(canvas), 1, n) /\ n \in 0 .. Len(FPrintTrim(canvas))
    BY <1>7 DEF WriteBreaksOff
  <2>2. file' \in Seq(Chars \cup {NL})
    <3> DEFINE text == FPrintTrim(canvas)
    <3>1. text \in Seq(Chars \cup {NL}) /\ n \in Nat /\ n <= Len(text)
      BY <1>1
    <3> HIDE DEF text
    <3>2. SubSeq(text, 1, n) \in Seq(Chars \cup {NL})
      BY <3>1, SubSeqProperties
    <3> QED
      BY <2>1, <3>2 DEF text
  <2>3. CASE End
    BY <2>2, <2>3, EndsInPlace DEF InPlace
  <2>4. CASE UNCHANGED <<canvas, running, aborted>>
    BY <2>2, <2>4 DEF TypeOK
  <2> QED
    BY <1>7, <2>3, <2>4 DEF WriteBreaksOff
<1> QED
  BY <1>2, <1>3, <1>4, <1>5, <1>6, <1>7 DEF Edit

LEMMA TypeNext == TypeOK /\ [Next]_vars => TypeOK'
<1> SUFFICES ASSUME TypeOK, [Next]_vars PROVE TypeOK'
  OBVIOUS
<1>1. CASE Next
  <2>1. CASE Start
    BY <2>1, StartsInPlace DEF InPlace
  <2>2. CASE running /\ Edit
    BY <2>2, TypeEdit
  <2>3. ASSUME NEW content \in Texts \cup {None}, Replace(content) PROVE TypeOK'
    BY <2>3, DrawingAssumption DEF Replace, TypeOK
  <2> QED
    BY <1>1, <2>1, <2>2, <2>3 DEF Next
<1>2. CASE UNCHANGED vars
  BY <1>2 DEF vars, TypeOK
<1> QED
  BY <1>1, <1>2

-----------------------------------------------------------------------------
(* The theorems *)

(* Drawing.TypeOK: whatever file is read, saved, cut short or replaced and  *)
(* however the editor is started, the canvas is one cell per position.      *)
THEOREM DrawingTypeCorrect == Spec => []TypeOK
<1>1. Init => TypeOK
  BY TypeInit
<1>2. TypeOK /\ [Next]_vars => TypeOK'
  BY TypeNext
<1> QED
  BY <1>1, <1>2, PTL DEF Spec

(* LoadsAbortOnlyEmpty: however the editor gets a canvas (started blank,    *)
(* from a file with or without a size, from stdin or from a server, or with *)
(* CTRL-R or CTRL-T) no assertion of canvas.c fails, but on a canvas without *)
(* a single cell.  It says nothing of drawing, which fails wherever the     *)
(* cursor is off the canvas.                                                *)
THEOREM DrawingAborts == Spec => LoadsAbortOnlyEmpty
<1> DEFINE Loads == \/ ~running /\ Start
                    \/ running /\ (ReadFromFile \/ TrimCanvas)
           Empty == aborted' /\ Loads => CellsOf(canvas') = {}
<1>1. TypeOK => Empty
  <2>1. TypeOK /\ Loads => InPlace
    BY StartsInPlace, ReadsInPlace, TrimsInPlace
  <2> QED
    BY <2>1 DEF InPlace
<1> HIDE DEF Empty
<1>2. TypeOK => [Empty]_vars
  BY <1>1
<1>3. []TypeOK => [][Empty]_vars
  BY <1>2, PTL
<1>4. Spec => [][Empty]_vars
  BY <1>3, DrawingTypeCorrect, PTL
<1> QED
  BY <1>4, PTL DEF LoadsAbortOnlyEmpty, Empty, Loads

(* JoinCopies: a client that joins fills a blank canvas with the very       *)
(* drawing the server sends, of any size, undefined byte and all.           *)
THEOREM DrawingJoins == Spec => []JoinCopies
<1>1. TypeOK => JoinCopies
  <2> SUFFICES ASSUME TypeOK, CellsOf(canvas) # {}, NEW undefined \in UndefinedByte
               PROVE  LET joined == Joined(canvas, undefined)
                      IN joined.canvas = canvas /\ ~joined.failed
    BY DEF JoinCopies
  <2>1. IsCanvas(canvas)
    BY DEF TypeOK
  <2> QED
    BY <2>1, JoinsWithCopy
<1> QED
  BY <1>1, DrawingTypeCorrect, PTL

(* TrimIsTight: trimming the right and the bottom keeps every character in  *)
(* its place and leaves no blank row or column at those two ends.           *)
THEOREM DrawingTrims == Spec => TrimIsTight
<1> DEFINE Tight == running /\ TrimCanvas /\ ~aborted' =>
       /\ Ink(canvas') = Ink(canvas)
       /\ \A p \in Ink(canvas) : canvas'.at[p] = canvas.at[p]
       /\ IF Ink(canvas) = {} THEN <<canvas'.rows, canvas'.cols>> = <<1, 1>>
          ELSE /\ \E p \in Ink(canvas) : p[1] = canvas'.rows - 1
               /\ \E p \in Ink(canvas) : p[2] = canvas'.cols - 1
<1>1. ASSUME TypeOK PROVE Tight
  <2> DEFINE trimmed == Trimc(canvas, Blank, TRUE, TRUE, FALSE, FALSE)
  <2> SUFFICES ASSUME TrimCanvas, ~aborted'
               PROVE  /\ Ink(canvas') = Ink(canvas)
                      /\ \A p \in Ink(canvas) : canvas'.at[p] = canvas.at[p]
                      /\ IF Ink(canvas) = {} THEN <<canvas'.rows, canvas'.cols>> = <<1, 1>>
                         ELSE /\ \E p \in Ink(canvas) : p[1] = canvas'.rows - 1
                              /\ \E p \in Ink(canvas) : p[2] = canvas'.cols - 1
    OBVIOUS
  <2>1. IsCanvas(canvas)
    BY <1>1 DEF TypeOK
  <2>2. canvas' = trimmed.canvas /\ trimmed.ok
    BY DEF TrimCanvas
  <2>3. trimmed.ok =>
          LET d == trimmed.canvas IN
          /\ Ink(d) = Ink(canvas)
          /\ \A p \in Ink(canvas) : d.at[p] = canvas.at[p]
          /\ IF Ink(canvas) = {} THEN <<d.rows, d.cols>> = <<1, 1>>
             ELSE /\ \E p \in Ink(canvas) : p[1] = d.rows - 1
                  /\ \E p \in Ink(canvas) : p[2] = d.cols - 1
    BY <2>1, TrimsTight
  <2> HIDE DEF trimmed
  <2> QED
    BY <2>2, <2>3
<1> HIDE DEF Tight
<1>2. TypeOK => [Tight]_vars
  BY <1>1
<1>3. []TypeOK => [][Tight]_vars
  BY <1>2, PTL
<1> QED
  BY <1>3, DrawingTypeCorrect DEF TrimIsTight, Tight

LEMMA StartFileCrops ==
  ASSUME TypeOK, NEW args \in Starts, StartFile(args), ~aborted'
  PROVE  LET read == Readf(file).canvas IN
         /\ canvas'.rows = Asked(args.height, read.rows)
         /\ canvas'.cols = Asked(args.width, read.cols)
         /\ Ink(canvas') = Ink(read) \cap CellsOf(canvas')
         /\ \A p \in Ink(canvas') : canvas'.at[p] = read.at[p]
<1> DEFINE read == Readf(file)
           rows == Asked(args.height, read.canvas.rows)
           cols == Asked(args.width, read.canvas.cols)
           resizes == args.height # 0 \/ args.width # 0
           can == CanResize(rows, cols)
           resized == Resize(read.canvas, rows, cols)
           loaded == [canvas |-> IF resizes /\ can THEN resized ELSE read.canvas,
                      failed |-> read.failed \/ (resizes /\ ~can)]
<1>1. Begin(loaded) /\ file # None
  BY DEF StartFile
<1>2. file \in Seq(Chars \cup {NL})
  BY <1>1 DEF TypeOK
<1>3. IsCanvas(read.canvas) /\ read.failed = FALSE
  BY <1>2, ReadsCanvas
<1>4. args.height \in Nat /\ args.width \in Nat
  BY StartSizes
<1>5. /\ canvas' = IF resizes /\ can THEN resized ELSE read.canvas
      /\ aborted' = (read.failed \/ (resizes /\ ~can))
  BY <1>1 DEF Begin
<1> HIDE DEF read
<1>6. rows \in Nat /\ cols \in Nat
  BY <1>3, <1>4 DEF Asked, IsCanvas
<1>7. ~resizes => rows = read.canvas.rows /\ cols = read.canvas.cols
  BY DEF Asked
<1>8. CASE resizes
  <2>1. can /\ canvas' = resized
    BY <1>5, <1>8
  <2>2. /\ resized.rows = rows /\ resized.cols = cols
        /\ \A p \in CellsOf(resized) :
             resized.at[p] = IF p \in CellsOf(read.canvas) THEN read.canvas.at[p] ELSE Blank
    <3> HIDE DEF rows, cols
    <3> QED
      BY <1>3, <1>6, <2>1, ResizeCropsOrExtends
  <2> HIDE DEF resized, rows, cols, can
  <2>3. Ink(resized) = Ink(read.canvas) \cap CellsOf(resized)
    BY <2>2 DEF Ink
  <2>4. \A p \in Ink(resized) : resized.at[p] = read.canvas.at[p]
    BY <2>2 DEF Ink
  <2> QED
    BY <2>1, <2>2, <2>3, <2>4 DEF rows, cols, read
<1>9. CASE ~resizes
  <2>1. canvas' = read.canvas
    BY <1>5, <1>9
  <2>2. Ink(read.canvas) = Ink(read.canvas) \cap CellsOf(read.canvas)
    BY DEF Ink
  <2> HIDE DEF resizes
  <2> QED
    BY <1>7, <1>9, <2>1, <2>2 DEF rows, cols, read
<1> QED
  BY <1>8, <1>9

(* StartCrops: whatever the file and the sizes on the command line, a start *)
(* crops or extends the drawing at its right and bottom ends only.          *)
THEOREM DrawingStartCrops == Spec => StartCrops
<1> DEFINE Crops ==
       \A args \in Starts : ~running /\ args.source = "file" /\ StartFile(args) /\ ~aborted' =>
         LET read == Readf(file).canvas IN
         /\ canvas'.rows = Asked(args.height, read.rows)
         /\ canvas'.cols = Asked(args.width, read.cols)
         /\ Ink(canvas') = Ink(read) \cap CellsOf(canvas')
         /\ \A p \in Ink(canvas') : canvas'.at[p] = read.at[p]
<1>1. ASSUME TypeOK PROVE Crops
  BY <1>1, StartFileCrops
<1> HIDE DEF Crops
<1>2. TypeOK => [Crops]_vars
  BY <1>1
<1>3. []TypeOK => [][Crops]_vars
  BY <1>2, PTL
<1> QED
  BY <1>3, DrawingTypeCorrect DEF StartCrops, Crops

-----------------------------------------------------------------------------
(* LinesBecomeRows: the scan's counters, said in terms of the text          *)

Newlines(text, i) == {j \in 1 .. i : text[j] = NL}

(* What the scan has counted after i characters.                            *)
Scans(text, s, i) ==
  /\ s.lines = Cardinality(Newlines(text, i))
  /\ i - s.length \in {0} \cup Newlines(text, i)
  /\ \A j \in {0} \cup Newlines(text, i) : j <= i - s.length

LEMMA NewlinesGrow ==
  ASSUME NEW text \in Seq(Chars \cup {NL}), NEW i \in 1 .. Len(text)
  PROVE  /\ IsFiniteSet(Newlines(text, i)) /\ IsFiniteSet(Newlines(text, i - 1))
         /\ Cardinality(Newlines(text, i)) \in Nat
         /\ Cardinality(Newlines(text, i - 1)) \in Nat
         /\ IF text[i] = NL
            THEN /\ Newlines(text, i) = Newlines(text, i - 1) \cup {i}
                 /\ Cardinality(Newlines(text, i)) = Cardinality(Newlines(text, i - 1)) + 1
            ELSE Newlines(text, i) = Newlines(text, i - 1)
<1>1. i \in Nat /\ i >= 1
  OBVIOUS
<1>2. ASSUME NEW k \in Nat PROVE IsFiniteSet(Newlines(text, k))
  <2>1. IsFiniteSet(1 .. k)
    BY FS_Interval
  <2>2. Newlines(text, k) \subseteq 1 .. k
    BY DEF Newlines
  <2> QED
    BY <2>1, <2>2, FS_Subset
<1>3. IsFiniteSet(Newlines(text, i)) /\ IsFiniteSet(Newlines(text, i - 1))
  BY <1>1, <1>2
<1>4. \A j \in 1 .. i : j \in 1 .. i - 1 \/ j = i
  BY <1>1
<1>5. \A j \in 1 .. i - 1 : j \in 1 .. i /\ j # i
  BY <1>1
<1>6. i \in 1 .. i
  BY <1>1
<1>7. text[i] = NL => Newlines(text, i) = Newlines(text, i - 1) \cup {i}
  BY <1>4, <1>5, <1>6 DEF Newlines
<1>8. text[i] # NL => Newlines(text, i) = Newlines(text, i - 1)
  BY <1>4, <1>5 DEF Newlines
<1>9. i \notin Newlines(text, i - 1)
  BY <1>5 DEF Newlines
<1>10. /\ Cardinality(Newlines(text, i)) \in Nat /\ Cardinality(Newlines(text,
              i - 1)) \in Nat
  BY <1>3, FS_CardinalityType
<1>11. Cardinality(Newlines(text, i - 1) \cup {i}) = Cardinality(Newlines(text, i - 1)) + 1
  BY <1>3, <1>9, FS_AddElement
<1> QED
  BY <1>3, <1>7, <1>8, <1>10, <1>11

LEMMA ScansText ==
  ASSUME NEW text \in Seq(Chars \cup {NL}), NEW seen, NEW st, Reading(text, seen, st)
  PROVE  \A i \in 0 .. Len(text) : Scans(text, seen[i], i)
<1> DEFINE n == Len(text)
           T == {i \in 0 .. n : Scans(text, seen[i], i)}
<1>1. n \in Nat
  OBVIOUS
<1>2. /\ \A k \in 0 .. n : seen[k] \in Counts
      /\ \A k \in 1 .. n : seen[k] = ScanChar(seen[k - 1], text[k])
      /\ seen[0].lines = 0 /\ seen[0].length = 0
  BY DEF Reading
<1>3. 0 \in T
  <2>1. Newlines(text, 0) = {}
    BY DEF Newlines
  <2>2. Cardinality(Newlines(text, 0)) = 0
    BY <2>1, FS_EmptySet
  <2>3. Scans(text, seen[0], 0)
    BY <1>2, <2>1, <2>2 DEF Scans
  <2> QED
    BY <1>1, <2>3
<1>4. ASSUME NEW i \in 1 .. n, i - 1 \in T PROVE i \in T
  <2> DEFINE a == seen[i - 1]
             b == seen[i]
  <2>1. a \in Counts /\ b \in Counts /\ i - 1 \in 0 .. n /\ i \in 0 .. n
    BY <1>1, <1>2
  <2>2. /\ text[i] = NL => b.lines = a.lines + 1 /\ b.length = 0
        /\ text[i] # NL => b.lines = a.lines /\ b.length = a.length + 1
    BY <1>2, <2>1, ScansChar
  <2>3. Scans(text, a, i - 1)
    BY <1>4
  <2> HIDE DEF a, b, n
  <2>4. i \in 1 .. Len(text) /\ i \in Nat /\ i >= 1
    BY <1>1 DEF n
  <2>5. \A j \in Newlines(text, i - 1) : j \in Nat /\ j <= i - 1
    BY <2>4 DEF Newlines
  <2>6. CASE text[i] = NL
    <3>1. /\ Newlines(text, i) = Newlines(text, i - 1) \cup {i}
          /\ Cardinality(Newlines(text, i)) = Cardinality(Newlines(text, i - 1)) + 1
      BY <2>4, <2>6, NewlinesGrow
    <3>2. b.lines = Cardinality(Newlines(text, i)) /\ i - b.length = i
      BY <2>1, <2>2, <2>3, <2>4, <2>6, <3>1 DEF Scans
    <3>3. \A j \in {0} \cup Newlines(text, i) : j <= i
      BY <2>4, <2>5, <3>1
    <3>4. Scans(text, b, i)
      BY <3>1, <3>2, <3>3 DEF Scans
    <3> QED
      BY <2>1, <3>4 DEF b
  <2>7. CASE text[i] # NL
    <3>1. Newlines(text, i) = Newlines(text, i - 1)
      BY <2>4, <2>7, NewlinesGrow
    <3>2. a.length \in Nat /\ b.lines = a.lines /\ b.length = a.length + 1
      BY <2>1, <2>2, <2>7 DEF Counts
    <3>3. i - b.length = (i - 1) - a.length
      BY <2>4, <3>2
    <3> QED
      BY <2>1, <2>3, <3>1, <3>2, <3>3 DEF Scans, b
  <2> QED
    BY <2>6, <2>7
<1>5. \A i \in 0 .. n : i \in T
  <2> HIDE DEF T
  <2> QED
    BY <1>1, <1>3, <1>4, Along
<1> QED
  BY <1>5

LEMMA Greatest1 ==
  ASSUME NEW S, NEW m \in S, S \subseteq Int, \A s \in S : s <= m
  PROVE  Max(S) = m
<1>1. Max(S) \in S /\ \A s \in S : Max(S) >= s
  BY DEF Max
<1>2. Max(S) \in Int /\ m \in Int /\ Max(S) <= m
  BY <1>1
<1>3. Max(S) >= m
  BY <1>1
<1> QED
  BY <1>2, <1>3

LEMMA PlacesAgree ==
  ASSUME NEW text \in Seq(Chars \cup {NL}), NEW seen, NEW st, Reading(text, seen, st),
         NEW k \in 1 .. Len(text), text[k] # NL
  PROVE  /\ PlaceOf(text, k) = Place(seen, k)
         /\ InEndedLine(text, k) <=> Ends(text, seen, k)
<1> DEFINE n == Len(text)
           s == seen[k - 1]
<1>1. k \in Nat /\ k >= 1 /\ n \in Nat /\ k <= n /\ k - 1 \in 0 .. n /\ n \in 0 .. n
  OBVIOUS
<1>2. s \in Counts /\ seen[n] \in Counts
  BY <1>1 DEF Reading
<1>3. Scans(text, s, k - 1) /\ Scans(text, seen[n], n)
  BY <1>1, ScansText
<1> HIDE DEF s
<1>4. NewlinesBefore(text, k) = s.lines
  BY <1>3 DEF Scans, NewlinesBefore, Newlines
<1>5. Max({0} \cup {j \in 1 .. k - 1 : text[j] = NL}) = (k - 1) - s.length
  <2> DEFINE S == {0} \cup Newlines(text, k - 1)
             m == (k - 1) - s.length
  <2>1. S \subseteq Int
    BY <1>1 DEF Newlines
  <2>2. m \in S /\ \A j \in S : j <= m
    BY <1>3 DEF Scans
  <2>3. Max(S) = m
    <3> HIDE DEF S, m
    <3> QED
      BY <2>1, <2>2, Greatest1
  <2> QED
    BY <2>3 DEF Newlines
<1>6. (k - 1) - ((k - 1) - s.length) = s.length
  BY <1>1, <1>2 DEF Counts
<1>7. PlaceOf(text, k) = Place(seen, k)
  <2>1. k - 1 - Max({0} \cup {j \in 1 .. k - 1 : text[j] = NL}) = s.length
    BY <1>5, <1>6
  <2> QED
    BY <1>4, <2>1 DEF PlaceOf, Place, s
<1>8. Newlines(text, k - 1) \subseteq Newlines(text, n)
  <2>1. \A j \in 1 .. k - 1 : j \in 1 .. n
    BY <1>1
  <2> QED
    BY <2>1 DEF Newlines
<1>9. IsFiniteSet(Newlines(text, n))
  <2>1. IsFiniteSet(1 .. n) /\ Newlines(text, n) \subseteq 1 .. n
    BY <1>1, FS_Interval DEF Newlines
  <2> QED
    BY <2>1, FS_Subset
<1>10. InEndedLine(text, k) <=> Newlines(text, n) # Newlines(text, k - 1)
  <2>1. \A j \in 1 .. n : j \in 1 .. k - 1 \/ j \in k .. n
    BY <1>1
  <2>2. \A j \in k .. n : j \in 1 .. n /\ j \notin 1 .. k - 1
    BY <1>1
  <2> QED
    BY <1>8, <2>1, <2>2 DEF InEndedLine, Newlines
<1>11. Newlines(text, n) # Newlines(text, k - 1) <=> s.lines < seen[n].lines
  <2>1. /\ Cardinality(Newlines(text, k - 1)) <= Cardinality(Newlines(text, n))
        /\ Cardinality(Newlines(text, k - 1)) = Cardinality(Newlines(text, n)) =>
             Newlines(text, k - 1) = Newlines(text, n)
    BY <1>8, <1>9, FS_Subset
  <2> QED
    BY <1>2, <1>3, <2>1 DEF Scans, Counts
<1> QED
  BY <1>7, <1>10, <1>11 DEF Ends, s

LEMMA ReadsLines ==
  ASSUME NEW text \in Seq(Chars \cup {NL})
  PROVE  LET c == Readf(text).canvas
             shown == {i \in Shown(text) : InEndedLine(text, i)}
         IN /\ c.rows = NewlinesBefore(text, Len(text) + 1)
            /\ Ink(c) = {PlaceOf(text, i) : i \in shown}
            /\ \A i \in shown : c.at[PlaceOf(text, i)] = text[i]
<1> DEFINE n == Len(text)
           c == Readf(text).canvas
           shown == {i \in Shown(text) : InEndedLine(text, i)}
<1>1. n \in Nat /\ n \in 0 .. n /\ DOMAIN text = 1 .. n
  OBVIOUS
<1>2. PICK seen, st : Reading(text, seen, st)
  BY ReadingSteps
<1>3. c.rows = seen[n].lines /\ Drawn(text, seen, c, n)
  BY <1>2, ReadsAll
<1>4. seen[n].lines = NewlinesBefore(text, n + 1)
  <2>1. Scans(text, seen[n], n)
    BY <1>1, <1>2, ScansText
  <2>2. n + 1 - 1 = n
    BY <1>1
  <2>3. NewlinesBefore(text, n + 1) = Cardinality(Newlines(text, n))
    BY <2>2 DEF NewlinesBefore, Newlines
  <2> QED
    BY <2>1, <2>3 DEF Scans
<1> HIDE DEF c
<1>5. ASSUME NEW i \in shown
      PROVE  /\ PlaceOf(text, i) \in CellsOf(c) /\ c.at[PlaceOf(text, i)] = text[i]
             /\ text[i] # Blank
  <2>1. i \in 1 .. n /\ text[i] # NL /\ text[i] # Blank /\ InEndedLine(text, i)
    BY <1>1 DEF Shown
  <2>2. PlaceOf(text, i) = Place(seen, i) /\ Ends(text, seen, i)
    BY <1>2, <2>1, PlacesAgree
  <2> QED
    BY <1>3, <2>1, <2>2 DEF Drawn
<1>6. ASSUME NEW p \in Ink(c)
      PROVE  \E i \in shown : p = PlaceOf(text, i)
  <2>1. p \in CellsOf(c) /\ c.at[p] # Blank
    BY DEF Ink
  <2>2. PICK i \in 1 .. n : Ends(text, seen, i) /\ p = Place(seen, i)
    BY <1>3, <2>1 DEF Drawn
  <2>3. text[i] # NL /\ c.at[p] = text[i]
    BY <1>3, <2>2 DEF Drawn, Ends
  <2>4. PlaceOf(text, i) = Place(seen, i) /\ InEndedLine(text, i)
    BY <1>2, <2>2, <2>3, PlacesAgree
  <2>5. i \in shown
    BY <1>1, <2>1, <2>3, <2>4 DEF Shown
  <2> QED
    BY <2>2, <2>4, <2>5
<1> HIDE DEF shown
<1>7. Ink(c) = {PlaceOf(text, i) : i \in shown}
  BY <1>5, <1>6 DEF Ink
<1>8. \A i \in shown : c.at[PlaceOf(text, i)] = text[i]
  BY <1>5
<1> QED
  BY <1>3, <1>4, <1>7, <1>8 DEF c, shown

(* LinesBecomeRows: of any file, the k-th character of the n-th line is     *)
(* read into cell (n, k), and of a line that is not ended nothing.          *)
THEOREM DrawingReads == Spec => LinesBecomeRows
<1> DEFINE Lines == Reads =>
       LET shown == {i \in Shown(file) : InEndedLine(file, i)} IN
       /\ canvas'.rows = NewlinesBefore(file, Len(file) + 1)
       /\ Ink(canvas') = {PlaceOf(file, i) : i \in shown}
       /\ \A i \in shown : canvas'.at[PlaceOf(file, i)] = file[i]
<1>1. ASSUME TypeOK PROVE Lines
  <2>1. CASE Reads
    <3>1. file \in Seq(Chars \cup {NL}) /\ canvas' = Readf(file).canvas
      BY <1>1, <2>1 DEF TypeOK, Reads, ReadFromFile
    <3> QED
      BY <3>1, ReadsLines
  <2> QED
    BY <2>1
<1> HIDE DEF Lines
<1>2. TypeOK => [Lines]_vars
  BY <1>1
<1>3. []TypeOK => [][Lines]_vars
  BY <1>2, PTL
<1>4. Spec => [][Lines]_vars
  BY <1>3, DrawingTypeCorrect, PTL
<1> QED
  BY <1>4, PTL DEF LinesBecomeRows, Lines

-----------------------------------------------------------------------------
(* SavedRowsComeBack: what canvas_fprint_trim() has written, said position  *)
(* by position                                                              *)

(* The last character of a row that is no blank is its n-th.                *)
LastInk(row, n) ==
  /\ n \in 0 .. Len(row)
  /\ n > 0 => row[n] # Blank
  /\ \A x \in n + 1 .. Len(row) : row[x] = Blank

(* text continues base with the first n characters of row.                  *)
Continues(text, base, row, n) ==
  /\ text \in Seq(Chars \cup {NL})
  /\ Len(text) = Len(base) + n
  /\ \A k \in 1 .. Len(base) : text[k] = base[k]
  /\ \A j \in 1 .. n : text[Len(base) + j] = row[j]

(* i characters of row have been looked at, and the blanks among the last   *)
(* of them are hoarded.                                                     *)
Hoards(s, base, row, i) ==
  /\ s = [out |-> s.out, spaces |-> s.spaces]
  /\ s.spaces \in 0 .. i
  /\ i - s.spaces > 0 => row[i - s.spaces] # Blank
  /\ \A x \in i - s.spaces + 1 .. i : row[x] = Blank
  /\ Continues(s.out, base, row, i - s.spaces)

LEMMA ConcatText ==
  ASSUME NEW s \in Seq(Chars \cup {NL}), NEW t \in Seq(Chars \cup {NL}), NEW n, NEW m,
         Len(s) = n, Len(s) + Len(t) = m
  PROVE  /\ s \o t \in Seq(Chars \cup {NL}) /\ Len(s \o t) = m
         /\ \A x \in 1 .. m : (s \o t)[x] = IF x <= n THEN s[x] ELSE t[x - n]
  BY ConcatProperties

LEMMA HoardsNext ==
  ASSUME NEW base \in Seq(Chars \cup {NL}), NEW row \in Seq(Chars), NEW i \in 1 .. Len(row),
         NEW s, Hoards(s, base, row, i - 1)
  PROVE  Hoards(PrintChar(s, row[i]), base, row, i)
<1> DEFINE ch == row[i]
           next == PrintChar(s, ch)
           kept == i - 1 - s.spaces
<1>1. i \in Nat /\ i >= 1 /\ Len(base) \in Nat /\ ch \in Chars
  OBVIOUS
<1>2. s.spaces \in Nat /\ kept \in Nat /\ s.spaces <= i - 1 /\ kept + s.spaces = i - 1
  BY <1>1 DEF Hoards
<1>3. /\ kept > 0 => row[kept] # Blank
      /\ \A x \in kept + 1 .. i - 1 : row[x] = Blank
      /\ Continues(s.out, base, row, kept)
  BY DEF Hoards
<1>4. s = [out |-> s.out, spaces |-> s.spaces]
  BY DEF Hoards
<1>5. SUFFICES Hoards(next, base, row, i)
  OBVIOUS
<1> HIDE DEF kept
<1>6. CASE ch = Blank
  <2> HIDE DEF ch
  <2>1. next = [out |-> s.out, spaces |-> s.spaces + 1]
    BY <1>4, <1>6 DEF PrintChar
  <2> HIDE DEF next
  <2>2. /\ next.out = s.out /\ next.spaces = s.spaces + 1
        /\ next = [out |-> next.out, spaces |-> next.spaces]
    BY <2>1
  <2>3. i - next.spaces = kept /\ next.spaces \in 0 .. i
    BY <1>1, <1>2, <2>2
  <2>4. \A x \in kept + 1 .. i : row[x] = Blank
    <3>1. \A x \in kept + 1 .. i : x \in kept + 1 .. i - 1 \/ x = i
      BY <1>1, <1>2
    <3> QED
      BY <1>3, <1>6, <3>1 DEF ch
  <2> QED
    BY <1>3, <2>2, <2>3, <2>4 DEF Hoards
<1>7. CASE ch # Blank
  <2> DEFINE blanks == [x \in 1 .. s.spaces |-> Blank]
             text == s.out \o blanks \o <<ch>>
  <2>1. blanks \in Seq(Chars \cup {NL}) /\ Len(blanks) = s.spaces
        /\ \A x \in 1 .. s.spaces : blanks[x] = Blank
    <3>1. ASSUME NEW w \in Nat, NEW b, b = [x \in 1 .. w |-> Blank]
          PROVE  /\ b \in Seq(Chars \cup {NL}) /\ Len(b) = w
                 /\ \A x \in 1 .. w : b[x] = Blank
      BY <3>1, CanvasAssumption
    <3> QED
      BY <1>2, <3>1
  <2>2. <<ch>> \in Seq(Chars \cup {NL}) /\ Len(<<ch>>) = 1 /\ <<ch>>[1] = ch
    BY <1>1
  <2>3. next = [out |-> text, spaces |-> 0]
    BY <1>7 DEF PrintChar
  <2> HIDE DEF blanks, ch
  <2>4. s.out \in Seq(Chars \cup {NL}) /\ Len(s.out) = Len(base) + kept /\ Len(s.out) \in Nat
    BY <1>1, <1>2, <1>3 DEF Continues
  <2>5. /\ s.out \o blanks \in Seq(Chars \cup {NL})
        /\ Len(s.out \o blanks) = Len(base) + (i - 1)
        /\ \A x \in 1 .. Len(base) + (i - 1) : (s.out \o blanks)[x] =
             IF x <= Len(s.out) THEN s.out[x] ELSE blanks[x - Len(s.out)]
    <3>1. Len(base) + (i - 1) = (Len(base) + kept) + s.spaces
      <4>1. \A b, k, w, m \in Nat : k + w = m - 1 => b + (m - 1) = (b + k) + w
        OBVIOUS
      <4>2. PICK b, w : b = Len(base) /\ w = s.spaces
        OBVIOUS
      <4>3. b \in Nat /\ w \in Nat /\ kept \in Nat /\ i \in Nat /\ kept + w = i - 1
        BY <1>1, <1>2, <4>2
      <4>4. b + (i - 1) = (b + kept) + w
        BY <4>1, <4>3
      <4> QED
        BY <4>2, <4>4
    <3>2. Len(s.out) + s.spaces = Len(base) + (i - 1)
      BY <2>4, <3>1, Zenon
    <3>3. Len(s.out) + Len(blanks) = Len(base) + (i - 1)
      BY <2>1, <3>2
    <3>4. PICK head, p, m : head = s.out /\ p = Len(s.out) /\ m = Len(base) + (i - 1)
      OBVIOUS
    <3>5. /\ head \o blanks \in Seq(Chars \cup {NL}) /\ Len(head \o blanks) = m
          /\ \A x \in 1 .. m : (head \o blanks)[x] =
               IF x <= p THEN head[x] ELSE blanks[x - p]
      <4>1. head \in Seq(Chars \cup {NL}) /\ Len(head) = p /\ Len(head) + Len(blanks) = m
        BY <2>4, <3>3, <3>4, Zenon
      <4>2. blanks \in Seq(Chars \cup {NL})
        BY <2>1
      <4> QED
        BY <4>1, <4>2, ConcatText
    <3> QED
      BY <3>4, <3>5, Zenon
  <2> DEFINE most == s.out \o blanks
  <2> HIDE DEF most
  <2>6. text = most \o <<ch>>
    BY DEF most
  <2>7. /\ most \in Seq(Chars \cup {NL}) /\ Len(most) = Len(base) + (i - 1)
        /\ \A x \in 1 .. Len(base) + (i - 1) : most[x] =
             IF x <= Len(base) + kept THEN s.out[x] ELSE blanks[x - (Len(base) + kept)]
    BY <2>4, <2>5 DEF most
  <2> HIDE DEF text
  <2>8. /\ text \in Seq(Chars \cup {NL}) /\ Len(text) = Len(base) + i
        /\ \A x \in 1 .. Len(base) + i : text[x] =
             IF x <= Len(base) + (i - 1) THEN most[x] ELSE <<ch>>[x - (Len(base) + (i - 1))]
    <3>1. Len(most) + Len(<<ch>>) = Len(base) + i
      BY <1>1, <2>2, <2>7
    <3>2. PICK p, m, one : p = Len(base) + (i - 1) /\ m = Len(base) + i /\ one = <<ch>>
      OBVIOUS
    <3>3. /\ most \in Seq(Chars \cup {NL}) /\ one \in Seq(Chars \cup {NL})
          /\ Len(most) = p /\ Len(most) + Len(one) = m
      BY <2>2, <2>7, <3>1, <3>2, Zenon
    <3>4. /\ most \o one \in Seq(Chars \cup {NL}) /\ Len(most \o one) = m
          /\ \A x \in 1 .. m : (most \o one)[x] = IF x <= p THEN most[x] ELSE one[x - p]
      BY <3>3, ConcatText
    <3> QED
      BY <2>6, <3>2, <3>4, Zenon
  <2>9. ASSUME NEW k \in 1 .. Len(base) PROVE text[k] = base[k]
    <3>1. k \in 1 .. Len(base) + i /\ k <= Len(base) + (i - 1) /\ k \in 1 .. Len(base) + (i - 1)
          /\ k <= Len(base) + kept
      BY <1>1, <1>2
    <3>2. text[k] = s.out[k]
      BY <2>7, <2>8, <3>1
    <3> QED
      BY <1>3, <3>2 DEF Continues
  <2>10. ASSUME NEW j \in 1 .. i PROVE text[Len(base) + j] = row[j]
    <3> DEFINE x == Len(base) + j
    <3>1. x \in 1 .. Len(base) + i
      BY <1>1
    <3>2. CASE j = i
      <4>1. ~(x <= Len(base) + (i - 1)) /\ x - (Len(base) + (i - 1)) = 1
        BY <1>1, <3>2
      <4>2. text[x] = <<ch>>[1]
        BY <2>8, <3>1, <4>1
      <4> QED
        BY <2>2, <3>2, <4>2 DEF ch
    <3>3. CASE j # i
      <4>1. x \in 1 .. Len(base) + (i - 1) /\ x <= Len(base) + (i - 1)
        BY <1>1, <3>3
      <4>2. text[x] = IF x <= Len(base) + kept THEN s.out[x] ELSE blanks[x - (Len(base) + kept)]
        BY <2>7, <2>8, <3>1, <4>1
      <4>3. CASE j <= kept
        <5>1. x <= Len(base) + kept /\ j \in 1 .. kept
          BY <1>1, <1>2, <4>3
        <5> QED
          BY <1>3, <4>2, <5>1 DEF Continues
      <4>4. CASE ~(j <= kept)
        <5>1. ~(x <= Len(base) + kept) /\ x - (Len(base) + kept) \in 1 .. s.spaces
              /\ j \in kept + 1 .. i - 1
          BY <1>1, <1>2, <3>3, <4>4
        <5> QED
          BY <1>3, <2>1, <4>2, <5>1
      <4> QED
        BY <4>3, <4>4
    <3> QED
      BY <3>2, <3>3
  <2>11. Continues(text, base, row, i)
    BY <2>8, <2>9, <2>10 DEF Continues
  <2>12. next.out = text /\ next.spaces = 0 /\ next = [out |-> next.out, spaces |-> next.spaces]
    BY <2>3
  <2> HIDE DEF next
  <2>13. i - next.spaces = i /\ next.spaces \in 0 .. i /\ (i - next.spaces) + 1 .. i = {}
    BY <1>1, <2>12
  <2> QED
    BY <1>7, <2>11, <2>12, <2>13 DEF Hoards, ch
<1> QED
  BY <1>6, <1>7

LEMMA PrintsChars ==
  ASSUME NEW base \in Seq(Chars \cup {NL}), NEW row \in Seq(Chars)
  PROVE  \E n : /\ LastInk(row, n)
                /\ Continues(PrintChars([out |-> base, spaces |-> 0], row).out, base, row, n)
<1> DEFINE s0 == [out |-> base, spaces |-> 0]
           m == Len(row)
<1>1. m \in Nat /\ Len(base) \in Nat
  OBVIOUS
<1>2. PICK st : /\ st[0] = s0
                /\ \A i \in 1 .. m : st[i] = PrintChar(st[i - 1], row[i])
                /\ PrintChars(s0, row) = st[m]
  BY <1>1, PrintCharsSteps
<1> DEFINE T == {i \in 0 .. m : Hoards(st[i], base, row, i)}
<1>3. 0 \in T
  <2>1. Continues(base, base, row, 0)
    BY <1>1 DEF Continues
  <2>2. st[0].out = base /\ st[0].spaces = 0 /\ st[0] = [out |-> st[0].out, spaces |-> st[0].spaces]
    BY <1>2
  <2>3. Hoards(st[0], base, row, 0)
    BY <2>1, <2>2 DEF Hoards
  <2> QED
    BY <1>1, <2>3
<1>4. ASSUME NEW i \in 1 .. m, i - 1 \in T PROVE i \in T
  <2>1. Hoards(PrintChar(st[i - 1], row[i]), base, row, i)
    BY <1>4, HoardsNext
  <2> QED
    BY <1>1, <1>2, <2>1
<1>5. Hoards(st[m], base, row, m)
  <2>1. \A i \in 0 .. m : i \in T
    <3> HIDE DEF T
    <3> QED
      BY <1>1, <1>3, <1>4, Along
  <2> QED
    BY <1>1, <2>1
<1> DEFINE n == m - st[m].spaces
<1>6. n \in 0 .. m
  BY <1>1, <1>5 DEF Hoards
<1>7. LastInk(row, n) /\ Continues(st[m].out, base, row, n)
  BY <1>5, <1>6 DEF Hoards, LastInk
<1> QED
  BY <1>2, <1>7

(* A row is printed up to its last ink, and a newline.                      *)
LEMMA PrintsRow ==
  ASSUME NEW base \in Seq(Chars \cup {NL}), NEW row \in Seq(Chars)
  PROVE  LET s == PrintRow([out |-> base, spaces |-> 0], row) IN
         /\ s = [out |-> s.out, spaces |-> 0] /\ s.out \in Seq(Chars \cup {NL})
         /\ \E n : /\ LastInk(row, n)
                   /\ Len(s.out) = Len(base) + n + 1 /\ s.out[Len(s.out)] = NL
                   /\ \A k \in 1 .. Len(base) : s.out[k] = base[k]
                   /\ \A j \in 1 .. n : s.out[Len(base) + j] = row[j]
<1> DEFINE text == PrintChars([out |-> base, spaces |-> 0], row).out
           s == PrintRow([out |-> base, spaces |-> 0], row)
<1>1. PICK n : LastInk(row, n) /\ Continues(text, base, row, n)
  BY PrintsChars
<1>2. s = [out |-> text \o <<NL>>, spaces |-> 0]
  BY DEF PrintRow
<1>3. n \in Nat /\ Len(base) \in Nat
  BY <1>1 DEF LastInk
<1> HIDE DEF text, s
<1>4. text \in Seq(Chars \cup {NL}) /\ Len(text) = Len(base) + n
  BY <1>1 DEF Continues
<1>5. <<NL>> \in Seq(Chars \cup {NL}) /\ Len(<<NL>>) = 1 /\ <<NL>>[1] = NL
  OBVIOUS
<1>6. /\ text \o <<NL>> \in Seq(Chars \cup {NL})
      /\ Len(text \o <<NL>>) = Len(base) + n + 1
      /\ \A x \in 1 .. Len(base) + n + 1 : (text \o <<NL>>)[x] =
           IF x <= Len(base) + n THEN text[x] ELSE <<NL>>[x - (Len(base) + n)]
  <2>1. Len(text) + Len(<<NL>>) = Len(base) + n + 1
    BY <1>3, <1>4, <1>5
  <2> QED
    BY <1>4, <1>5, <2>1, ConcatProperties
<1>7. s.out = text \o <<NL>> /\ s = [out |-> s.out, spaces |-> 0]
  BY <1>2
<1>8. /\ s.out \in Seq(Chars \cup {NL}) /\ Len(s.out) = Len(base) + n + 1
      /\ \A x \in 1 .. Len(base) + n + 1 : s.out[x] =
           IF x <= Len(base) + n THEN text[x] ELSE <<NL>>[x - (Len(base) + n)]
  BY <1>6, <1>7
<1>9. s.out[Len(s.out)] = NL
  <2>1. Len(base) + n + 1 \in 1 .. Len(base) + n + 1 /\ ~(Len(base) + n + 1 <= Len(base) + n)
        /\ (Len(base) + n + 1) - (Len(base) + n) = 1
    BY <1>3
  <2> DEFINE m == Len(base) + n + 1
  <2> HIDE DEF m
  <2>2. s.out[m] = <<NL>>[m - (Len(base) + n)]
    BY <1>8, <2>1 DEF m
  <2>3. m - (Len(base) + n) = 1 /\ Len(s.out) = m
    BY <1>8, <2>1 DEF m
  <2> QED
    BY <1>5, <2>2, <2>3
<1>10. ASSUME NEW k \in 1 .. Len(base) PROVE s.out[k] = base[k]
  <2>1. k \in 1 .. Len(base) + n + 1 /\ k <= Len(base) + n
    BY <1>3
  <2> QED
    BY <1>1, <1>8, <2>1 DEF Continues
<1>11. ASSUME NEW j \in 1 .. n PROVE s.out[Len(base) + j] = row[j]
  <2>1. Len(base) + j \in 1 .. Len(base) + n + 1 /\ Len(base) + j <= Len(base) + n
    BY <1>3
  <2> QED
    BY <1>1, <1>8, <2>1 DEF Continues
<1> QED
  BY <1>1, <1>7, <1>8, <1>9, <1>10, <1>11 DEF s

(* page[y] is what is printed of the first y rows, and width[y] says how    *)
(* many characters of row y are.                                            *)
PrintsAs(c, page, y, n) ==
  /\ LastInk(Row(c, y), n)
  /\ Len(page[y + 1]) = Len(page[y]) + n + 1
  /\ page[y + 1][Len(page[y + 1])] = NL
  /\ \A k \in 1 .. Len(page[y]) : page[y + 1][k] = page[y][k]
  /\ \A j \in 1 .. n : page[y + 1][Len(page[y]) + j] = Row(c, y)[j]

Pages(c, page, width) ==
  /\ page[0] = <<>> /\ FPrintTrim(c) = page[c.rows]
  /\ \A y \in 0 .. c.rows : page[y] \in Seq(Chars \cup {NL})
  /\ \A y \in 1 .. c.rows :
       page[y] = PrintRow([out |-> page[y - 1], spaces |-> 0], Row(c, y - 1)).out
  /\ \A y \in 0 .. c.rows - 1 : PrintsAs(c, page, y, width[y])

LEMMA PagesAre ==
  ASSUME NEW c, IsCanvas(c)
  PROVE  \E page, width : Pages(c, page, width)
<1> DEFINE n == c.rows
<1>1. n \in Nat
  BY DEF IsCanvas
<1>2. PICK st : /\ st[0] = [out |-> <<>>, spaces |-> 0]
                /\ \A i \in 1 .. n : st[i] = PrintRow(st[i - 1], Row(c, i - 1))
                /\ FPrintTrim(c) = st[n].out
  BY <1>1, PrintRowsSteps
<1> DEFINE Fresh(s) == \E base \in Seq(Chars \cup {NL}) : s = [out |-> base, spaces |-> 0]
           T == {i \in 0 .. n : Fresh(st[i])}
<1>3. 0 \in T
  <2>1. <<>> \in Seq(Chars \cup {NL})
    BY EmptySeq
  <2>2. Fresh(st[0])
    BY <1>2, <2>1
  <2> QED
    BY <1>1, <2>2
<1>4. ASSUME NEW i \in 1 .. n, i - 1 \in T PROVE i \in T
  <2>1. Row(c, i - 1) \in Seq(Chars)
    BY <1>1, RowOfChars
  <2>2. PICK base \in Seq(Chars \cup {NL}) : st[i - 1] = [out |-> base, spaces |-> 0]
    BY <1>4
  <2>3. st[i] = PrintRow([out |-> base, spaces |-> 0], Row(c, i - 1))
    BY <1>2, <2>2
  <2>4. Fresh(PrintRow([out |-> base, spaces |-> 0], Row(c, i - 1)))
    <3> DEFINE s == PrintRow([out |-> base, spaces |-> 0], Row(c, i - 1))
    <3>1. s = [out |-> s.out, spaces |-> 0] /\ s.out \in Seq(Chars \cup {NL})
      BY <2>1, PrintsRow
    <3> HIDE DEF s
    <3>2. PICK text : text = s.out
      OBVIOUS
    <3>3. s = [out |-> text, spaces |-> 0] /\ text \in Seq(Chars \cup {NL})
      BY <3>1, <3>2
    <3>4. Fresh(s)
      BY <3>3
    <3> QED
      BY <3>4 DEF s
  <2>5. Fresh(st[i])
    BY <2>3, <2>4
  <2> QED
    BY <1>1, <2>5
<1>5. \A i \in 0 .. n : Fresh(st[i])
  <2>1. \A i \in 0 .. n : i \in T
    <3> HIDE DEF T
    <3> QED
      BY <1>1, <1>3, <1>4, Along
  <2> QED
    BY <2>1
<1> DEFINE page == [y \in 0 .. n |-> st[y].out]
           width == [y \in 0 .. n - 1 |-> CHOOSE m : PrintsAs(c, page, y, m)]
<1>6. /\ \A y \in 0 .. n : /\ page[y] \in Seq(Chars \cup {NL})
                           /\ st[y] = [out |-> page[y], spaces |-> 0]
      /\ page[0] = <<>> /\ FPrintTrim(c) = page[n]
  <2>1. ASSUME NEW y \in 0 .. n
        PROVE  page[y] \in Seq(Chars \cup {NL}) /\ st[y] = [out |-> page[y], spaces |-> 0]
    <3>1. PICK base \in Seq(Chars \cup {NL}) : st[y] = [out |-> base, spaces |-> 0]
      BY <1>5
    <3>2. page[y] = base
      BY <3>1
    <3> QED
      BY <3>1, <3>2
  <2>2. page[0] = st[0].out /\ page[n] = st[n].out
    BY <1>1
  <2>3. st[0].out = <<>>
    BY <1>2
  <2> HIDE DEF page
  <2> QED
    BY <1>2, <2>1, <2>2, <2>3, Zenon
<1> HIDE DEF page
<1>7. ASSUME NEW y \in 1 .. n
      PROVE  page[y] = PrintRow([out |-> page[y - 1], spaces |-> 0], Row(c, y - 1)).out
  <2>1. y \in 0 .. n /\ y - 1 \in 0 .. n
    BY <1>1
  <2>2. st[y - 1] = [out |-> page[y - 1], spaces |-> 0] /\ st[y] = [out |-> page[y], spaces |-> 0]
    BY <1>6, <2>1
  <2>3. st[y].out = page[y] /\ st[y] = PrintRow(st[y - 1], Row(c, y - 1))
    BY <1>2, <2>2
  <2> QED
    BY <2>2, <2>3
<1>8. ASSUME NEW y \in 0 .. n - 1 PROVE PrintsAs(c, page, y, width[y])
  <2>1. y + 1 \in 1 .. n /\ (y + 1) - 1 = y /\ y \in 0 .. n
    BY <1>1
  <2>2. page[y + 1] = PrintRow([out |-> page[y], spaces |-> 0], Row(c, y)).out
    BY <1>7, <2>1
  <2>3. Row(c, y) \in Seq(Chars) /\ page[y] \in Seq(Chars \cup {NL})
    BY <1>6, <2>1, RowOfChars
  <2>4. \E m : PrintsAs(c, page, y, m)
    <3>1. PICK base, row : base = page[y] /\ row = Row(c, y)
      OBVIOUS
    <3> DEFINE s == PrintRow([out |-> base, spaces |-> 0], row)
    <3>2. PICK m :
            /\ LastInk(row, m)
            /\ Len(s.out) = Len(base) + m + 1 /\ s.out[Len(s.out)] = NL
            /\ \A k \in 1 .. Len(base) : s.out[k] = base[k]
            /\ \A j \in 1 .. m : s.out[Len(base) + j] = row[j]
      <4>1. row \in Seq(Chars) /\ base \in Seq(Chars \cup {NL})
        BY <2>3, <3>1
      <4> QED
        BY <4>1, PrintsRow, Zenon
    <3>3. page[y + 1] = s.out
      BY <2>2, <3>1
    <3> HIDE DEF s
    <3>4. PrintsAs(c, page, y, m)
      BY <3>1, <3>2, <3>3 DEF PrintsAs
    <3> QED
      BY <3>4
  <2>5. PrintsAs(c, page, y, CHOOSE m : PrintsAs(c, page, y, m))
    BY <2>4
  <2> QED
    BY <2>5
<1> HIDE DEF width
<1>9. Pages(c, page, width)
  BY <1>6, <1>7, <1>8 DEF Pages
<1> QED
  BY <1>9

LEMMA PageLengths ==
  ASSUME NEW c, IsCanvas(c), NEW page, NEW width, Pages(c, page, width)
  PROVE  /\ \A y \in 0 .. c.rows : Len(page[y]) \in Nat
         /\ \A y \in 0 .. c.rows - 1 : /\ PrintsAs(c, page, y, width[y])
                                       /\ width[y] \in 0 .. c.cols
                                       /\ y \in 0 .. c.rows /\ y + 1 \in 0 .. c.rows
         /\ Len(page[0]) = 0
<1>1. c.rows \in Nat /\ c.cols \in Nat
  BY DEF IsCanvas
<1>2. \A y \in 0 .. c.rows : Len(page[y]) \in Nat
  BY DEF Pages
<1>3. Len(page[0]) = 0
  BY DEF Pages
<1>4. ASSUME NEW y \in 0 .. c.rows - 1 PROVE width[y] \in 0 .. c.cols
  <2>1. LastInk(Row(c, y), width[y])
    BY DEF Pages, PrintsAs
  <2>2. Len(Row(c, y)) = c.cols
    BY RowOfChars
  <2> QED
    BY <2>1, <2>2 DEF LastInk
<1>5. \A y \in 0 .. c.rows - 1 : /\ PrintsAs(c, page, y, width[y])
                                 /\ y \in 0 .. c.rows /\ y + 1 \in 0 .. c.rows
  BY <1>1 DEF Pages
<1> QED
  BY <1>2, <1>3, <1>4, <1>5

(* What is printed first stays where it is.                                 *)
LEMMA PagesNest ==
  ASSUME NEW c, IsCanvas(c), NEW page, NEW width, Pages(c, page, width),
         NEW y \in 0 .. c.rows, NEW z \in y .. c.rows
  PROVE  /\ Len(page[y]) <= Len(page[z])
         /\ \A k \in 1 .. Len(page[y]) : page[z][k] = page[y][k]
<1> DEFINE n == c.rows
           Nest(u) == /\ Len(page[y]) <= Len(page[u])
                      /\ \A k \in 1 .. Len(page[y]) : page[u][k] = page[y][k]
           T == {u \in 0 .. n : u >= y => Nest(u)}
<1>1. n \in Nat /\ y \in Nat /\ y <= n
  BY DEF IsCanvas
<1>2. /\ \A u \in 0 .. n : Len(page[u]) \in Nat
      /\ \A u \in 0 .. n - 1 : PrintsAs(c, page, u, width[u]) /\ width[u] \in 0 .. c.cols
  BY PageLengths
<1>3. Nest(y)
  BY <1>2
<1>4. 0 \in T
  <2>1. 0 >= y => y = 0
    BY <1>1
  <2> QED
    BY <1>1, <1>3, <2>1
<1>5. ASSUME NEW u \in 1 .. n, u - 1 \in T PROVE u \in T
  <2>1. CASE u - 1 >= y
    <3>1. Nest(u - 1)
      BY <1>5, <2>1
    <3>2. u - 1 \in 0 .. n - 1 /\ u \in 0 .. n /\ u - 1 \in 0 .. n /\ (u - 1) + 1 = u
      BY <1>1
    <3>3. /\ Len(page[u]) = Len(page[u - 1]) + width[u - 1] + 1 /\ width[u - 1] \in Nat
          /\ \A k \in 1 .. Len(page[u - 1]) : page[u][k] = page[u - 1][k]
      <4>1. PICK v : v = u - 1
        OBVIOUS
      <4>2. v \in 0 .. n - 1 /\ v + 1 = u
        BY <3>2, <4>1
      <4>3. PrintsAs(c, page, v, width[v]) /\ width[v] \in 0 .. c.cols
        BY <1>2, <4>2, Zenon
      <4>4. width[v] \in Nat
        BY <4>3
      <4>5. /\ Len(page[u]) = Len(page[v]) + width[v] + 1
            /\ \A k \in 1 .. Len(page[v]) : page[u][k] = page[v][k]
        BY <4>2, <4>3, Zenon DEF PrintsAs
      <4> QED
        BY <4>1, <4>4, <4>5, Zenon
    <3>4. Len(page[u - 1]) \in Nat /\ Len(page[u]) \in Nat /\ Len(page[y]) \in Nat
      BY <1>2, <3>2
    <3>5. Len(page[y]) <= Len(page[u])
      <4>1. PICK a, b, m, w : /\ a = Len(page[y]) /\ b = Len(page[u - 1])
                              /\ m = Len(page[u]) /\ w = width[u - 1]
        OBVIOUS
      <4>2. a \in Nat /\ b \in Nat
        BY <3>4, <4>1, Zenon
      <4>3. w \in Nat /\ m = b + w + 1
        BY <3>3, <4>1, Zenon
      <4>4. a <= b
        BY <3>1, <4>1, Zenon
      <4>5. a <= m
        BY <4>2, <4>3, <4>4
      <4> QED
        BY <4>1, <4>5, Zenon
    <3>6. \A k \in 1 .. Len(page[y]) : k \in 1 .. Len(page[u - 1])
      BY <3>1, <3>4
    <3>7. Nest(u)
      BY <3>1, <3>3, <3>5, <3>6
    <3> QED
      BY <3>2, <3>7
  <2>2. CASE u - 1 < y
    <3>1. u >= y => u = y
      BY <1>1, <2>2
    <3> QED
      BY <1>3, <3>1
  <2> QED
    BY <1>1, <2>1, <2>2
<1>6. \A u \in 0 .. n : u \in T
  <2> HIDE DEF T
  <2> QED
    BY <1>1, <1>4, <1>5, Along
<1>7. z \in 0 .. n /\ z >= y
  BY <1>1
<1> QED
  BY <1>6, <1>7

(* After y rows there are y newlines, the last at the end; within a row     *)
(* there is none.                                                           *)
LEMMA PageLines ==
  ASSUME NEW c, IsCanvas(c), NEW page, NEW width, Pages(c, page, width)
  PROVE  \A y \in 0 .. c.rows :
           /\ IsFiniteSet(Newlines(page[y], Len(page[y])))
           /\ Cardinality(Newlines(page[y], Len(page[y]))) = y
           /\ Len(page[y]) \in {0} \cup Newlines(page[y], Len(page[y]))
<1> DEFINE n == c.rows
           Lines(y) == Newlines(page[y], Len(page[y]))
           Counted(y) == /\ IsFiniteSet(Lines(y)) /\ Cardinality(Lines(y)) = y
                         /\ Len(page[y]) \in {0} \cup Lines(y)
           T == {y \in 0 .. n : Counted(y)}
<1>1. n \in Nat
  BY DEF IsCanvas
<1>2. /\ \A u \in 0 .. n : Len(page[u]) \in Nat
      /\ \A u \in 0 .. n - 1 : PrintsAs(c, page, u, width[u]) /\ width[u] \in 0 .. c.cols
      /\ Len(page[0]) = 0
  BY PageLengths
<1>3. 0 \in T
  <2>1. Lines(0) = {}
    BY <1>2 DEF Newlines
  <2>2. IsFiniteSet(Lines(0)) /\ Cardinality(Lines(0)) = 0
    BY <2>1, FS_EmptySet
  <2> HIDE DEF Lines
  <2>3. Counted(0)
    BY <1>2, <2>2
  <2> QED
    BY <1>1, <2>3
<1>4. ASSUME NEW u \in 1 .. n, u - 1 \in T PROVE u \in T
  <2> DEFINE y == u - 1
             a == Len(page[y])
             b == Len(page[u])
  <2>1. y \in 0 .. n - 1 /\ y \in 0 .. n /\ u \in 0 .. n /\ y + 1 = u /\ y \in Nat
    BY <1>1
  <2>2. /\ b = a + width[y] + 1 /\ width[y] \in 0 .. c.cols /\ a \in Nat /\ b \in Nat
        /\ page[u][b] = NL
        /\ \A k \in 1 .. a : page[u][k] = page[y][k]
        /\ \A j \in 1 .. width[y] : page[u][a + j] = Row(c, y)[j]
        /\ LastInk(Row(c, y), width[y])
    BY <1>2, <2>1 DEF PrintsAs
  <2>3. Row(c, y) \in Seq(Chars)
    BY <2>1, RowOfChars
  <2>4. Counted(y)
    BY <1>4
  <2> HIDE DEF a, b, y
  <2>5. width[y] \in Nat /\ b > a
    BY <2>2
  <2>6. ASSUME NEW j \in 1 .. width[y] PROVE page[u][a + j] # NL
    <3>1. j \in 1 .. Len(Row(c, y))
      BY <2>2 DEF LastInk
    <3>2. Row(c, y)[j] \in Chars
      BY <2>3, <3>1
    <3> QED
      BY <2>2, <3>2, DrawingAssumption
  <2>7. \A k \in 1 .. b : k \in 1 .. a \/ (\E j \in 1 .. width[y] : k = a + j) \/ k = b
    <3>1. ASSUME NEW k \in 1 .. b, ~(k \in 1 .. a), k # b
          PROVE  k - a \in 1 .. width[y] /\ k = a + (k - a)
      BY <2>2, <2>5, <3>1
    <3> QED
      BY <3>1
  <2>8. Lines(u) = Lines(y) \cup {b}
    <3>1. \A k \in 1 .. a : k \in 1 .. b
      BY <2>2, <2>5
    <3>2. b \in 1 .. b
      BY <2>2, <2>5
    <3>3. Lines(u) = {k \in 1 .. b : page[u][k] = NL} /\ Lines(y) = {k \in 1 .. a : page[y][k] = NL}
      BY DEF Newlines, a, b
    <3> HIDE DEF Lines
    <3> QED
      BY <2>2, <2>6, <2>7, <3>1, <3>2, <3>3
  <2>9. b \notin Lines(y)
    <3>1. \A k \in 1 .. a : k # b
      BY <2>2, <2>5
    <3> QED
      BY <3>1 DEF Newlines, a
  <2> HIDE DEF Lines
  <2>10. IsFiniteSet(Lines(u)) /\ Cardinality(Lines(u)) = y + 1
    BY <2>4, <2>8, <2>9, FS_AddElement
  <2>11. Counted(u)
    BY <2>1, <2>8, <2>10 DEF b
  <2> QED
    BY <2>1, <2>11
<1>5. \A y \in 0 .. n : y \in T
  <2> HIDE DEF T
  <2> QED
    BY <1>1, <1>3, <1>4, Along
<1> QED
  BY <1>5

LEMMA PlaceInPage ==
  ASSUME NEW c, IsCanvas(c), NEW page, NEW width, Pages(c, page, width),
         NEW y \in 0 .. c.rows - 1, NEW j \in 1 .. width[y]
  PROVE  LET text == FPrintTrim(c)
             k == Len(page[y]) + j
             p == <<y, j - 1>>
         IN /\ k \in 1 .. Len(text) /\ p \in CellsOf(c)
            /\ text[k] = c.at[p] /\ text[k] # NL
            /\ Cardinality(Newlines(text, k - 1)) = y /\ PlaceOf(text, k) = p
<1> DEFINE n == c.rows
           text == FPrintTrim(c)
           a == Len(page[y])
           b == Len(page[y + 1])
           k == a + j
           p == <<y, j - 1>>
           w == width[y]
<1>1. /\ n \in Nat /\ c.cols \in Nat /\ y \in Nat /\ y \in 0 .. n /\ y + 1 \in 0 .. n
      /\ n \in y .. n /\ n \in y + 1 .. n /\ n \in 0 .. n
  BY DEF IsCanvas
<1>2. /\ a \in Nat /\ b \in Nat /\ b = a + w + 1 /\ w \in Nat /\ w <= c.cols
      /\ \A i \in 1 .. w : page[y + 1][a + i] = Row(c, y)[i]
      /\ text = page[n] /\ Len(page[n]) \in Nat
  <2>1. text = page[n]
    BY DEF Pages
  <2>2. a \in Nat /\ b \in Nat /\ Len(page[n]) \in Nat /\ w \in 0 .. c.cols
        /\ PrintsAs(c, page, y, w)
    BY <1>1, PageLengths
  <2> QED
    BY <1>1, <2>1, <2>2 DEF PrintsAs
<1>3. /\ b <= Len(text) /\ \A i \in 1 .. b : text[i] = page[y + 1][i]
      /\ a <= Len(text) /\ \A i \in 1 .. a : text[i] = page[y][i]
  <2>1. b <= Len(page[n]) /\ \A i \in 1 .. b : page[n][i] = page[y + 1][i]
    BY <1>1, PagesNest
  <2>2. a <= Len(page[n]) /\ \A i \in 1 .. a : page[n][i] = page[y][i]
    BY <1>1, PagesNest
  <2> QED
    BY <1>2, <2>1, <2>2
<1>4. Row(c, y) \in Seq(Chars) /\ \A x \in 0 .. c.cols - 1 : Row(c, y)[x + 1] = c.at[<<y, x>>]
  BY RowOfChars
<1>5. /\ IsFiniteSet(Newlines(page[y], a)) /\ Cardinality(Newlines(page[y], a)) = y
      /\ a \in {0} \cup Newlines(page[y], a)
  BY <1>1, PageLines
<1>6. j \in 1 .. w
  OBVIOUS
<1> HIDE DEF a, b, text, w
<1>7. p \in CellsOf(c)
  <2>1. j - 1 \in 0 .. c.cols - 1
    BY <1>1, <1>2, <1>6
  <2> QED
    BY <2>1 DEF CellsOf, Cells
<1>8. ASSUME NEW i \in 1 .. w
      PROVE  text[a + i] = c.at[<<y, i - 1>>] /\ text[a + i] # NL
  <2>1. a + i \in 1 .. b /\ i - 1 \in 0 .. c.cols - 1 /\ (i - 1) + 1 = i
    BY <1>1, <1>2
  <2>2. text[a + i] = c.at[<<y, i - 1>>]
    BY <1>2, <1>3, <1>4, <2>1
  <2>3. <<y, i - 1>> \in CellsOf(c)
    BY <1>1, <2>1 DEF CellsOf, Cells
  <2>4. c.at[<<y, i - 1>>] \in Chars
    BY <2>3 DEF IsCanvas
  <2> QED
    BY <2>2, <2>4, DrawingAssumption
<1>9. k \in 1 .. Len(text) /\ k \in Nat
  <2>1. Len(text) \in Nat
    BY <1>2
  <2> QED
    BY <1>2, <1>3, <1>6, <2>1
<1>10. Newlines(text, k - 1) = Newlines(page[y], a)
  <2>1. \A i \in 1 .. a : i \in 1 .. k - 1
    BY <1>2, <1>6
  <2>2. ASSUME NEW i \in 1 .. k - 1, ~(i \in 1 .. a) PROVE text[i] # NL
    <3>1. i - a \in 1 .. w /\ a + (i - a) = i
      BY <1>2, <1>6, <2>2
    <3> QED
      BY <1>8, <3>1
  <2> QED
    BY <1>3, <2>1, <2>2 DEF Newlines
<1>11. Max({0} \cup {i \in 1 .. k - 1 : text[i] = NL}) = a
  <2> DEFINE S == {0} \cup Newlines(page[y], a)
  <2>1. S \subseteq Int /\ a \in S /\ \A s \in S : s <= a
    BY <1>2, <1>5 DEF Newlines
  <2>2. Max(S) = a
    <3> HIDE DEF S
    <3> QED
      BY <2>1, Greatest1
  <2> QED
    BY <1>10, <2>2 DEF Newlines
<1>12. PlaceOf(text, k) = p
  <2>1. NewlinesBefore(text, k) = y
    BY <1>5, <1>10 DEF NewlinesBefore, Newlines
  <2>2. k - 1 - a = j - 1
    BY <1>2, <1>6
  <2> QED
    BY <1>11, <2>1, <2>2 DEF PlaceOf
<1> QED
  <2>1. text[k] = c.at[p] /\ text[k] # NL
    BY <1>6, <1>8
  <2> QED
    BY <1>5, <1>9, <1>10, <1>12, <1>7, <2>1 DEF a, text

LEMMA InPage ==
  ASSUME NEW c, IsCanvas(c), NEW page, NEW width, Pages(c, page, width),
         NEW k \in 1 .. Len(FPrintTrim(c)), FPrintTrim(c)[k] # NL
  PROVE  \E y \in 0 .. c.rows - 1 : \E j \in 1 .. width[y] : k = Len(page[y]) + j
<1> DEFINE n == c.rows
           Within(i, z) == \E y \in 0 .. z - 1 : \E j \in 1 .. width[y] : i = Len(page[y]) + j
           T == {z \in 0 .. n : \A i \in 1 .. Len(page[z]) : page[z][i] # NL => Within(i, z)}
<1>1. n \in Nat
  BY DEF IsCanvas
<1>2. 0 \in T
  <2>1. Len(page[0]) = 0
    BY PageLengths
  <2> QED
    BY <1>1, <2>1
<1>3. ASSUME NEW z \in 1 .. n, z - 1 \in T PROVE z \in T
  <2> DEFINE y == z - 1
             a == Len(page[y])
             b == Len(page[z])
  <2>1. y \in 0 .. n - 1 /\ y + 1 = z /\ y \in 0 .. z - 1 /\ \A u \in 0 .. y - 1 : u \in 0 .. z - 1
    BY <1>1
  <2>2. /\ a \in Nat /\ b \in Nat /\ b = a + width[y] + 1 /\ width[y] \in 0 .. c.cols
        /\ page[z][b] = NL
        /\ \A i \in 1 .. a : page[z][i] = page[y][i]
    BY <2>1, PageLengths DEF PrintsAs
  <2>3. \A i \in 1 .. a : page[y][i] # NL => Within(i, y)
    BY <1>3
  <2> HIDE DEF y
  <2>4. ASSUME NEW i \in 1 .. b, page[z][i] # NL PROVE Within(i, z)
    <3>1. CASE i \in 1 .. a
      <4>1. Within(i, y)
        BY <2>2, <2>3, <2>4, <3>1
      <4> QED
        BY <2>1, <4>1
    <3>2. CASE ~(i \in 1 .. a)
      <4>1. i - a \in 1 .. width[y] /\ i = a + (i - a)
        BY <2>2, <2>4, <3>2
      <4> QED
        BY <2>1, <4>1
    <3> QED
      BY <3>1, <3>2
  <2>5. z \in 0 .. n
    BY <1>1
  <2> HIDE DEF Within
  <2> QED
    BY <2>4, <2>5
<1>4. \A z \in 0 .. n : z \in T
  <2> HIDE DEF T
  <2> QED
    BY <1>1, <1>2, <1>3, Along
<1>5. n \in 0 .. n /\ FPrintTrim(c) = page[n]
  BY <1>1 DEF Pages
<1>6. n \in T
  <2> HIDE DEF T
  <2> QED
    BY <1>4, <1>5
<1>7. Within(k, n)
  <2>1. k \in 1 .. Len(page[n]) /\ page[n][k] # NL
    BY <1>5
  <2> HIDE DEF Within
  <2> QED
    BY <1>6, <2>1
<1> QED
  BY <1>7

(* A prefix of a text has its characters in the same places.                *)
LEMMA PrefixPlaces ==
  ASSUME NEW text \in Seq(Chars \cup {NL}), NEW part \in Seq(Chars \cup {NL}),
         IsPrefix(part, text), NEW k \in 1 .. Len(part)
  PROVE  /\ Len(part) <= Len(text) /\ k \in 1 .. Len(text) /\ part[k] = text[k]
         /\ Newlines(part, k) = Newlines(text, k) /\ Newlines(part, k - 1) = Newlines(text, k - 1)
         /\ PlaceOf(part, k) = PlaceOf(text, k)
<1> DEFINE m == Len(part)
<1>1. m \in Nat /\ Len(text) \in Nat /\ m <= Len(text) /\ SubSeq(part, 1, m) = SubSeq(text, 1, m)
      /\ k \in Nat /\ k >= 1
  BY DEF IsPrefix
<1>2. ASSUME NEW i \in 1 .. m PROVE part[i] = text[i]
  <2>1. /\ \A j \in 1 .. m : part[j] \in Chars \cup {NL} /\ text[j] \in Chars \cup {NL}
        /\ m - 1 + 1 = m /\ 1 + i - 1 = i
    BY <1>1
  <2>2. SubSeq(part, 1, m)[i] = part[1 + i - 1] /\ SubSeq(text, 1, m)[i] = text[1 + i - 1]
    BY <1>1, <2>1, SubSeqProperties
  <2> QED
    BY <1>1, <2>1, <2>2
<1> HIDE DEF m
<1>3. \A i \in 1 .. k : i \in 1 .. m
  BY <1>1 DEF m
<1>4. \A i \in 1 .. k - 1 : i \in 1 .. m
  BY <1>1 DEF m
<1>5. Newlines(part, k) = Newlines(text, k) /\ Newlines(part, k - 1) = Newlines(text, k - 1)
  BY <1>2, <1>3, <1>4 DEF Newlines
<1>6. PlaceOf(part, k) = PlaceOf(text, k)
  BY <1>5 DEF PlaceOf, NewlinesBefore, Newlines
<1>7. part[k] = text[k] /\ k \in 1 .. Len(text)
  BY <1>1, <1>2 DEF m
<1> QED
  BY <1>1, <1>5, <1>6, <1>7 DEF m

LEMMA MoreLines ==
  ASSUME NEW text, NEW i \in Nat, NEW j \in Nat, i <= j
  PROVE  /\ IsFiniteSet(Newlines(text, i)) /\ Cardinality(Newlines(text, i)) \in Nat
         /\ Newlines(text, i) \subseteq Newlines(text, j)
         /\ Cardinality(Newlines(text, i)) <= Cardinality(Newlines(text, j))
<1>1. ASSUME NEW k \in Nat PROVE IsFiniteSet(Newlines(text, k))
  <2>1. IsFiniteSet(1 .. k) /\ Newlines(text, k) \subseteq 1 .. k
    BY FS_Interval DEF Newlines
  <2> QED
    BY <2>1, FS_Subset
<1>2. Newlines(text, i) \subseteq Newlines(text, j)
  <2>1. \A k \in 1 .. i : k \in 1 .. j
    OBVIOUS
  <2> QED
    BY <2>1 DEF Newlines
<1>3. IsFiniteSet(Newlines(text, i)) /\ IsFiniteSet(Newlines(text, j))
  BY <1>1
<1> QED
  BY <1>2, <1>3, FS_Subset, FS_CardinalityType

(* Rows with the same ink are printed alike. *)
LEMMA SameInkHalf ==
  ASSUME NEW row \in Seq(Chars), NEW other \in Seq(Chars), NEW n, NEW m,
         LastInk(row, n), LastInk(other, m),
         \A x \in 1 .. Len(row) : row[x] # Blank => x \in 1 .. Len(other) /\ other[x] = row[x]
  PROVE  n <= m
<1> SUFFICES ASSUME n > m PROVE FALSE
  BY DEF LastInk
<1>1. n \in 1 .. Len(row) /\ row[n] # Blank
  BY DEF LastInk
<1>2. n \in 1 .. Len(other) /\ other[n] # Blank
  BY <1>1
<1>3. n \in m + 1 .. Len(other)
  BY <1>1, <1>2 DEF LastInk
<1> QED
  BY <1>2, <1>3 DEF LastInk

LEMMA SameInk ==
  ASSUME NEW row \in Seq(Chars), NEW other \in Seq(Chars), NEW n, NEW m,
         LastInk(row, n), LastInk(other, m),
         \A x \in 1 .. Len(row) : row[x] # Blank => x \in 1 .. Len(other) /\ other[x] = row[x],
         \A x \in 1 .. Len(other) : other[x] # Blank => x \in 1 .. Len(row) /\ row[x] = other[x]
  PROVE  n = m /\ \A x \in 1 .. n : row[x] = other[x]
<1>1. n <= m /\ m <= n
  BY SameInkHalf
<1>2. n \in 0 .. Len(row) /\ m \in 0 .. Len(other)
  BY DEF LastInk
<1>3. n = m
  BY <1>1, <1>2
<1>4. \A x \in 1 .. n : x \in 1 .. Len(row) /\ x \in 1 .. Len(other)
  BY <1>2, <1>3
<1> QED
  BY <1>3, <1>4

(* d shows the first rows of c. *)
TopOf(d, c) ==
  /\ d.rows <= c.rows
  /\ Ink(d) = {p \in Ink(c) : p[1] < d.rows}
  /\ \A p \in Ink(d) : d.at[p] = c.at[p]

LEMMA TopRow ==
  ASSUME NEW c, IsCanvas(c), NEW d, IsCanvas(d), TopOf(d, c), NEW y \in 0 .. d.rows - 1
  PROVE  /\ Row(c, y) \in Seq(Chars) /\ Row(d, y) \in Seq(Chars)
         /\ \A x \in 1 .. Len(Row(c, y)) : Row(c, y)[x] # Blank =>
              x \in 1 .. Len(Row(d, y)) /\ Row(d, y)[x] = Row(c, y)[x]
         /\ \A x \in 1 .. Len(Row(d, y)) : Row(d, y)[x] # Blank =>
              x \in 1 .. Len(Row(c, y)) /\ Row(c, y)[x] = Row(d, y)[x]
<1>1. /\ c.rows \in Nat /\ c.cols \in Nat /\ d.rows \in Nat /\ d.cols \in Nat
      /\ y \in 0 .. c.rows - 1 /\ y \in Nat /\ y < d.rows
  BY DEF IsCanvas, TopOf
<1>2. /\ Row(c, y) \in Seq(Chars) /\ Row(d, y) \in Seq(Chars)
      /\ Len(Row(c, y)) = c.cols /\ Len(Row(d, y)) = d.cols
  BY <1>1, RowOfChars
<1>3. ASSUME NEW x \in 1 .. c.cols
      PROVE  Row(c, y)[x] = c.at[<<y, x - 1>>] /\ <<y, x - 1>> \in CellsOf(c)
  <2>1. x - 1 \in 0 .. c.cols - 1 /\ (x - 1) + 1 = x
    BY <1>1
  <2>2. Row(c, y)[(x - 1) + 1] = c.at[<<y, x - 1>>]
    BY <1>1, <2>1, RowOfChars
  <2> QED
    BY <1>1, <2>1, <2>2 DEF CellsOf, Cells
<1>4. ASSUME NEW x \in 1 .. d.cols
      PROVE  Row(d, y)[x] = d.at[<<y, x - 1>>] /\ <<y, x - 1>> \in CellsOf(d)
  <2>1. x - 1 \in 0 .. d.cols - 1 /\ (x - 1) + 1 = x
    BY <1>1
  <2>2. Row(d, y)[(x - 1) + 1] = d.at[<<y, x - 1>>]
    BY <1>1, <2>1, RowOfChars
  <2> QED
    BY <1>1, <2>1, <2>2 DEF CellsOf, Cells
<1>5. ASSUME NEW x \in 1 .. c.cols, Row(c, y)[x] # Blank
      PROVE  x \in 1 .. d.cols /\ Row(d, y)[x] = Row(c, y)[x]
  <2>1. <<y, x - 1>> \in Ink(c)
    BY <1>3, <1>5 DEF Ink
  <2>2. <<y, x - 1>> \in Ink(d)
    BY <1>1, <2>1 DEF TopOf
  <2>3. x \in 1 .. d.cols
    BY <1>1, <2>2 DEF Ink, CellsOf, Cells
  <2>4. d.at[<<y, x - 1>>] = c.at[<<y, x - 1>>]
    BY <2>2 DEF TopOf
  <2> QED
    BY <1>3, <1>4, <2>3, <2>4
<1>6. ASSUME NEW x \in 1 .. d.cols, Row(d, y)[x] # Blank
      PROVE  x \in 1 .. c.cols /\ Row(c, y)[x] = Row(d, y)[x]
  <2>1. <<y, x - 1>> \in Ink(d)
    BY <1>4, <1>6 DEF Ink
  <2>2. <<y, x - 1>> \in Ink(c)
    BY <2>1 DEF TopOf
  <2>3. x \in 1 .. c.cols
    BY <1>1, <2>2 DEF Ink, CellsOf, Cells
  <2>4. d.at[<<y, x - 1>>] = c.at[<<y, x - 1>>]
    BY <2>1 DEF TopOf
  <2> QED
    BY <1>3, <1>4, <2>3, <2>4
<1> QED
  BY <1>2, <1>5, <1>6

LEMMA TopPages ==
  ASSUME NEW c, IsCanvas(c), NEW d, IsCanvas(d), TopOf(d, c),
         NEW page, NEW width, Pages(c, page, width)
  PROVE  FPrintTrim(d) = page[d.rows]
<1>1. d.rows \in Nat /\ c.rows \in Nat /\ d.rows <= c.rows
  BY DEF IsCanvas, TopOf
<1>2. PICK top, span : Pages(d, top, span)
  BY PagesAre
<1> DEFINE T == {y \in 0 .. d.rows : top[y] = page[y]}
<1>3. 0 \in T
  BY <1>1, <1>2 DEF Pages
<1>4. ASSUME NEW z \in 1 .. d.rows, z - 1 \in T PROVE z \in T
  <2> DEFINE y == z - 1
  <2>1. /\ y \in 0 .. d.rows - 1 /\ y \in 0 .. c.rows - 1 /\ y + 1 = z
        /\ z \in 0 .. d.rows /\ z \in 0 .. c.rows /\ y \in 0 .. c.rows
    BY <1>1
  <2>2. top[y] = page[y]
    BY <1>4
  <2> HIDE DEF y
  <2>3. PrintsAs(c, page, y, width[y]) /\ PrintsAs(d, top, y, span[y])
    BY <1>2, <2>1 DEF Pages
  <2>4. width[y] = span[y] /\ \A x \in 1 .. width[y] : Row(c, y)[x] = Row(d, y)[x]
    <3>1. LastInk(Row(c, y), width[y]) /\ LastInk(Row(d, y), span[y])
      BY <2>3 DEF PrintsAs
    <3>2. /\ Row(c, y) \in Seq(Chars) /\ Row(d, y) \in Seq(Chars)
          /\ \A x \in 1 .. Len(Row(c, y)) : Row(c, y)[x] # Blank =>
               x \in 1 .. Len(Row(d, y)) /\ Row(d, y)[x] = Row(c, y)[x]
          /\ \A x \in 1 .. Len(Row(d, y)) : Row(d, y)[x] # Blank =>
               x \in 1 .. Len(Row(c, y)) /\ Row(c, y)[x] = Row(d, y)[x]
      BY <2>1, TopRow
    <3> QED
      BY <3>1, <3>2, SameInk
  <2> DEFINE a == Len(page[y])
             w == width[y]
             s == page[z]
             t == top[z]
  <2>5. /\ s \in Seq(Chars \cup {NL}) /\ t \in Seq(Chars \cup {NL}) /\ a \in Nat /\ w \in Nat
    <3>1. w \in 0 .. c.cols /\ c.cols \in Nat
      BY <2>1, PageLengths DEF IsCanvas
    <3> QED
      BY <1>2, <2>1, <3>1 DEF Pages
  <2>6. /\ Len(s) = a + w + 1 /\ s[Len(s)] = NL
        /\ \A k \in 1 .. a : s[k] = page[y][k]
        /\ \A j \in 1 .. w : s[a + j] = Row(c, y)[j]
    BY <2>1, <2>3 DEF PrintsAs
  <2>7. /\ Len(t) = a + w + 1 /\ t[Len(t)] = NL
        /\ \A k \in 1 .. a : t[k] = page[y][k]
        /\ \A j \in 1 .. w : t[a + j] = Row(d, y)[j]
    BY <2>1, <2>2, <2>3, <2>4 DEF PrintsAs
  <2>8. \A j \in 1 .. w : Row(c, y)[j] = Row(d, y)[j]
    BY <2>4
  <2> HIDE DEF a, w, s, t
  <2>9. ASSUME NEW k \in 1 .. Len(s) PROVE s[k] = t[k]
    <3>1. CASE k \in 1 .. a
      BY <2>6, <2>7, <3>1
    <3>2. CASE k = Len(s)
      BY <2>6, <2>7, <3>2
    <3>3. CASE ~(k \in 1 .. a) /\ k # Len(s)
      <4>1. k - a \in 1 .. w /\ k = a + (k - a)
        BY <2>5, <2>6, <3>3
      <4> QED
        BY <2>6, <2>7, <2>8, <4>1
    <3> QED
      BY <3>1, <3>2, <3>3
  <2>10. s = t
    BY <2>5, <2>6, <2>7, <2>9, SeqEqual
  <2> QED
    BY <2>1, <2>10 DEF s, t
<1>5. d.rows \in T
  <2>1. \A y \in 0 .. d.rows : y \in T
    <3> HIDE DEF T
    <3> QED
      BY <1>1, <1>3, <1>4, Along
  <2> QED
    BY <1>1, <2>1
<1> QED
  BY <1>2, <1>5 DEF Pages

(* The newlines of a text that was cut short.                               *)
LEMMA CutLines ==
  ASSUME NEW c, IsCanvas(c), NEW t \in Seq(Chars \cup {NL}), IsPrefix(t, FPrintTrim(c))
  PROVE  LET P == FPrintTrim(c)
             m == Cardinality(Newlines(t, Len(t)))
         IN /\ P \in Seq(Chars \cup {NL}) /\ Len(t) \in Nat /\ Len(t) <= Len(P)
            /\ Newlines(t, Len(t)) = Newlines(P, Len(t))
            /\ m \in 0 .. c.rows
<1> DEFINE P == FPrintTrim(c)
           n == Len(t)
           m == Cardinality(Newlines(t, n))
<1>1. P \in Seq(Chars \cup {NL})
  BY SavesText
<1>2. n \in Nat /\ Len(P) \in Nat /\ n <= Len(P)
  BY <1>1 DEF IsPrefix
<1>3. Newlines(t, n) = Newlines(P, n)
  <2>1. CASE n = 0
    <3>1. \A text : Newlines(text, 0) = {}
      BY DEF Newlines
    <3> QED
      BY <2>1, <3>1
  <2>2. CASE n # 0
    <3>1. n \in 1 .. Len(t)
      BY <1>2, <2>2
    <3> HIDE DEF n, P
    <3>2. Newlines(t, n) = Newlines(FPrintTrim(c), n)
      BY <1>1, <3>1, PrefixPlaces DEF P
    <3> QED
      BY <3>2 DEF P
  <2> QED
    BY <2>1, <2>2
<1>4. PICK page, width : Pages(c, page, width)
  BY PagesAre
<1>5. c.rows \in Nat /\ c.rows \in 0 .. c.rows /\ P = page[c.rows]
  BY <1>4 DEF IsCanvas, Pages
<1>6. Cardinality(Newlines(page[c.rows], Len(page[c.rows]))) = c.rows
  BY <1>4, <1>5, PageLines
<1>7. Cardinality(Newlines(P, Len(P))) = c.rows
  BY <1>5, <1>6
<1> HIDE DEF n, P
<1>8. /\ Cardinality(Newlines(P, n)) \in Nat
      /\ Cardinality(Newlines(P, n)) <= Cardinality(Newlines(P, Len(P)))
  BY <1>2, MoreLines
<1>9. m \in 0 .. c.rows
  BY <1>3, <1>5, <1>7, <1>8
<1> QED
  BY <1>1, <1>2, <1>3, <1>9 DEF n, P

(* A line has ended when more newlines follow.                              *)
LEMMA EndedLine ==
  ASSUME NEW t \in Seq(Chars \cup {NL}), NEW k \in 1 .. Len(t)
  PROVE  InEndedLine(t, k) <=>
           Cardinality(Newlines(t, k - 1)) < Cardinality(Newlines(t, Len(t)))
<1> DEFINE n == Len(t)
<1>1. k \in Nat /\ n \in Nat /\ k - 1 \in Nat /\ k - 1 <= n
  OBVIOUS
<1>2. InEndedLine(t, k) <=> Newlines(t, n) # Newlines(t, k - 1)
  <2>1. \A j \in 1 .. n : j \in 1 .. k - 1 \/ j \in k .. n
    BY <1>1
  <2>2. \A j \in k .. n : j \in 1 .. n /\ j \notin 1 .. k - 1
    BY <1>1
  <2>3. \A j \in 1 .. k - 1 : j \in 1 .. n
    BY <1>1
  <2> HIDE DEF n
  <2> QED
    BY <2>1, <2>2, <2>3 DEF InEndedLine, Newlines, n
<1> DEFINE A == Newlines(t, k - 1)
           B == Newlines(t, n)
<1>3. /\ IsFiniteSet(A) /\ Cardinality(A) \in Nat /\ A \subseteq B
      /\ Cardinality(A) <= Cardinality(B)
  BY <1>1, MoreLines
<1>4. IsFiniteSet(B) /\ Cardinality(B) \in Nat
  BY <1>1, MoreLines
<1> HIDE DEF A, B
<1>5. Cardinality(A) = Cardinality(B) => A = B
  BY <1>3, <1>4, FS_Subset
<1>6. A = B <=> ~(Cardinality(A) < Cardinality(B))
  BY <1>3, <1>4, <1>5
<1> QED
  BY <1>2, <1>6 DEF A, B

(* What comes back of a drawing's text that was cut short: the rows whose   *)
(* newline is there.                                                        *)
LEMMA CutShows ==
  ASSUME NEW c, IsCanvas(c), NEW t \in Seq(Chars \cup {NL}), IsPrefix(t, FPrintTrim(c))
  PROVE  LET d == Readf(t).canvas
         IN /\ d.rows = NewlinesBefore(t, Len(t) + 1)
            /\ IsCanvas(d) /\ TopOf(d, c)
<1> DEFINE P == FPrintTrim(c)
           n == Len(t)
           m == Cardinality(Newlines(t, n))
           d == Readf(t).canvas
           shown == {i \in Shown(t) : InEndedLine(t, i)}
<1>1. /\ P \in Seq(Chars \cup {NL}) /\ n \in Nat /\ n <= Len(P)
      /\ Newlines(t, n) = Newlines(P, n) /\ m \in 0 .. c.rows
  BY CutLines
<1>2. IsCanvas(d)
  BY ReadsCanvas
<1>3. /\ d.rows = NewlinesBefore(t, Len(t) + 1)
      /\ Ink(d) = {PlaceOf(t, i) : i \in shown}
      /\ \A i \in shown : d.at[PlaceOf(t, i)] = t[i]
  BY ReadsLines
<1>4. d.rows = m
  <2>1. n + 1 - 1 = n
    BY <1>1
  <2> QED
    BY <1>3, <2>1 DEF NewlinesBefore, Newlines
<1>5. c.rows \in Nat /\ m \in Nat /\ m <= c.rows /\ Len(P) \in Nat
  BY <1>1 DEF IsCanvas
<1>6. PICK page, width : Pages(c, page, width)
  BY PagesAre
<1>7. \A i \in shown : i \in 1 .. n /\ t[i] # NL /\ t[i] # Blank /\ InEndedLine(t, i)
  BY DEF Shown
<1>8. \A i \in 1 .. n : t[i] # NL /\ t[i] # Blank /\ InEndedLine(t, i) => i \in shown
  BY DEF Shown
<1> HIDE DEF P, n, m, d, shown
<1>9. ASSUME NEW k \in 1 .. n
      PROVE  /\ k \in 1 .. Len(P) /\ t[k] = P[k]
             /\ Newlines(t, k - 1) = Newlines(P, k - 1)
             /\ PlaceOf(t, k) = PlaceOf(P, k)
             /\ InEndedLine(t, k) <=> Cardinality(Newlines(P, k - 1)) < m
  <2>1. k \in 1 .. Len(t) /\ IsPrefix(t, P)
    BY DEF n, P
  <2>2. /\ k \in 1 .. Len(P) /\ t[k] = P[k]
        /\ Newlines(t, k - 1) = Newlines(P, k - 1) /\ PlaceOf(t, k) = PlaceOf(P, k)
    BY <1>1, <2>1, PrefixPlaces
  <2>3. InEndedLine(t, k) <=> Cardinality(Newlines(t, k - 1)) < m
    BY <2>1, EndedLine DEF n, m
  <2> QED
    BY <2>2, <2>3
<1>10. ASSUME NEW y \in 0 .. c.rows - 1, NEW j \in 1 .. width[y]
       PROVE  LET k == Len(page[y]) + j
                  p == <<y, j - 1>>
              IN /\ k \in 1 .. Len(P) /\ p \in CellsOf(c)
                 /\ P[k] = c.at[p] /\ P[k] # NL
                 /\ Cardinality(Newlines(P, k - 1)) = y /\ PlaceOf(P, k) = p
  BY <1>6, PlaceInPage DEF P
<1>11. ASSUME NEW i \in shown
       PROVE  /\ PlaceOf(t, i) \in Ink(c) /\ PlaceOf(t, i)[1] < m
              /\ t[i] = c.at[PlaceOf(t, i)]
  <2>1. i \in 1 .. n /\ t[i] # NL /\ t[i] # Blank /\ InEndedLine(t, i)
    BY <1>7
  <2>2. /\ i \in 1 .. Len(P) /\ t[i] = P[i] /\ PlaceOf(t, i) = PlaceOf(P, i)
        /\ Cardinality(Newlines(P, i - 1)) < m
    BY <1>9, <2>1
  <2>3. PICK y \in 0 .. c.rows - 1 : \E j \in 1 .. width[y] : i = Len(page[y]) + j
    BY <1>6, <2>1, <2>2, InPage DEF P
  <2>4. PICK j \in 1 .. width[y] : i = Len(page[y]) + j
    BY <2>3
  <2> DEFINE p == <<y, j - 1>>
  <2>5. /\ p \in CellsOf(c) /\ P[i] = c.at[p]
        /\ Cardinality(Newlines(P, i - 1)) = y /\ PlaceOf(P, i) = p
    BY <1>10, <2>4
  <2>6. p[1] = y
    OBVIOUS
  <2> HIDE DEF p
  <2> QED
    BY <2>1, <2>2, <2>5, <2>6 DEF Ink
<1>12. ASSUME NEW p \in Ink(c), p[1] < m
       PROVE  \E i \in shown : PlaceOf(t, i) = p
  <2>1. p \in CellsOf(c) /\ c.at[p] # Blank
    BY DEF Ink
  <2>2. PICK y \in 0 .. c.rows - 1, x \in 0 .. c.cols - 1 : p = <<y, x>>
    BY <2>1 DEF CellsOf, Cells
  <2>3. p[1] = y /\ c.cols \in Nat /\ y \in Nat
    BY <2>2 DEF IsCanvas
  <2>4. /\ Len(Row(c, y)) = c.cols /\ Row(c, y)[x + 1] = c.at[<<y, x>>]
    BY RowOfChars
  <2>5. LastInk(Row(c, y), width[y])
    BY <1>6 DEF Pages, PrintsAs
  <2>6. x + 1 \in 1 .. width[y]
    <3>1. width[y] \in 0 .. c.cols
      BY <2>4, <2>5 DEF LastInk
    <3>2. ~(x + 1 \in width[y] + 1 .. Len(Row(c, y)))
      BY <2>1, <2>2, <2>4, <2>5 DEF LastInk
    <3> QED
      BY <2>3, <2>4, <3>1, <3>2
  <2> DEFINE k == Len(page[y]) + (x + 1)
  <2>7. (x + 1) - 1 = x
    BY <2>3
  <2>8. /\ k \in 1 .. Len(P) /\ P[k] = c.at[<<y, (x + 1) - 1>>] /\ P[k] # NL
        /\ Cardinality(Newlines(P, k - 1)) = y /\ PlaceOf(P, k) = <<y, (x + 1) - 1>>
    BY <1>10, <2>6
  <2>9. P[k] = c.at[p] /\ PlaceOf(P, k) = p
    BY <2>2, <2>7, <2>8
  <2> HIDE DEF k
  <2>10. k \in 1 .. n
    <3>1. SUFFICES ASSUME ~(k <= n) PROVE FALSE
      BY <1>1, <2>8
    <3>2. k - 1 \in Nat /\ n <= k - 1
      BY <1>1, <1>5, <2>8, <3>1
    <3>3. Cardinality(Newlines(P, n)) <= Cardinality(Newlines(P, k - 1))
      BY <1>1, <3>2, MoreLines
    <3>4. m <= y
      BY <1>1, <2>8, <3>3 DEF m
    <3> QED
      BY <1>5, <1>12, <2>3, <3>4
  <2>11. /\ t[k] = P[k] /\ PlaceOf(t, k) = PlaceOf(P, k) /\ InEndedLine(t, k)
    BY <1>9, <1>12, <2>3, <2>8, <2>10
  <2>12. k \in shown
    BY <1>8, <2>1, <2>8, <2>9, <2>10, <2>11
  <2> QED
    BY <2>9, <2>11, <2>12
<1>13. Ink(d) = {p \in Ink(c) : p[1] < m}
  BY <1>3, <1>11, <1>12
<1>14. \A p \in Ink(d) : d.at[p] = c.at[p]
  BY <1>3, <1>11
<1>15. TopOf(d, c)
  BY <1>4, <1>5, <1>13, <1>14 DEF TopOf
<1> QED
  BY <1>2, <1>3, <1>15 DEF d

(* And printed again, it is the text as far as its last newline.            *)
LEMMA CutAgain ==
  ASSUME NEW c, IsCanvas(c), NEW t \in Seq(Chars \cup {NL}), IsPrefix(t, FPrintTrim(c)),
         NEW d, IsCanvas(d), TopOf(d, c), d.rows = Cardinality(Newlines(t, Len(t)))
  PROVE  IsPrefix(FPrintTrim(d), t)
<1> DEFINE P == FPrintTrim(c)
           s == FPrintTrim(d)
           n == Len(t)
           b == Len(s)
<1>1. /\ P \in Seq(Chars \cup {NL}) /\ n \in Nat /\ n <= Len(P)
      /\ Newlines(t, n) = Newlines(P, n) /\ d.rows \in 0 .. c.rows
  BY CutLines
<1>2. s \in Seq(Chars \cup {NL}) /\ b \in Nat /\ Len(P) \in Nat /\ c.rows \in Nat
  BY <1>1, SavesText DEF IsCanvas
<1>3. PICK page, width : Pages(c, page, width)
  BY PagesAre
<1>4. s = page[d.rows]
  BY <1>3, TopPages
<1>5. b <= Len(P) /\ \A k \in 1 .. b : P[k] = s[k]
  <2>1. c.rows \in d.rows .. c.rows /\ P = page[c.rows]
    BY <1>1, <1>2, <1>3 DEF Pages
  <2>2. /\ Len(page[d.rows]) <= Len(page[c.rows])
        /\ \A k \in 1 .. Len(page[d.rows]) : page[c.rows][k] = page[d.rows][k]
    BY <1>1, <1>3, <2>1, PagesNest
  <2> QED
    BY <1>4, <2>1, <2>2
<1>6. /\ Cardinality(Newlines(s, b)) = d.rows
      /\ b \in {0} \cup Newlines(s, b)
  BY <1>1, <1>3, <1>4, PageLines
<1>7. d.rows = Cardinality(Newlines(P, n))
  BY <1>1
<1> HIDE DEF P, s, n, b
<1>8. b <= n
  <2> SUFFICES ASSUME n < b PROVE FALSE
    BY <1>1, <1>2
  <2>1. b \in 1 .. Len(P) /\ b \in 1 .. b /\ b - 1 \in Nat /\ n <= b - 1 /\ b # 0
    BY <1>1, <1>2, <1>5
  <2>2. P[b] = NL
    <3>1. s[b] = NL
      BY <1>6, <2>1 DEF Newlines
    <3> QED
      BY <1>5, <2>1, <3>1
  <2>3. Newlines(P, b) = Newlines(s, b)
    BY <1>5 DEF Newlines
  <2>4. /\ Cardinality(Newlines(P, b)) = Cardinality(Newlines(P, b - 1)) + 1
        /\ Cardinality(Newlines(P, b - 1)) \in Nat
    BY <1>1, <2>1, <2>2, NewlinesGrow
  <2>5. Cardinality(Newlines(P, n)) <= Cardinality(Newlines(P, b - 1))
    BY <1>1, <2>1, MoreLines
  <2>6. Cardinality(Newlines(P, n)) \in Nat
    BY <1>1, <1>2, MoreLines
  <2> QED
    BY <1>6, <1>7, <2>3, <2>4, <2>5, <2>6
<1>9. ASSUME NEW k \in 1 .. b PROVE s[k] = t[k]
  <2>1. k \in 1 .. n
    BY <1>1, <1>2, <1>8
  <2>2. t[k] = P[k]
    BY <1>1, <2>1, PrefixPlaces DEF P, n
  <2> QED
    BY <1>5, <2>2
<1>10. SubSeq(s, 1, b) = SubSeq(t, 1, b)
  <2>1. /\ SubSeq(s, 1, b) \in Seq(Chars \cup {NL}) /\ Len(SubSeq(s, 1, b)) = b
        /\ \A k \in 1 .. b : SubSeq(s, 1, b)[k] = s[k]
    <3>1. /\ \A k \in 1 .. b : s[k] \in Chars \cup {NL}
          /\ b - 1 + 1 = b /\ \A k \in 1 .. b : 1 + k - 1 = k
      BY <1>2 DEF b
    <3> QED
      BY <1>2, <3>1, SubSeqProperties
  <2>2. /\ SubSeq(t, 1, b) \in Seq(Chars \cup {NL}) /\ Len(SubSeq(t, 1, b)) = b
        /\ \A k \in 1 .. b : SubSeq(t, 1, b)[k] = t[k]
    <3>1. /\ \A k \in 1 .. b : t[k] \in Chars \cup {NL}
          /\ b - 1 + 1 = b /\ \A k \in 1 .. b : 1 + k - 1 = k
      BY <1>1, <1>2, <1>8 DEF n
    <3> QED
      BY <1>2, <3>1, SubSeqProperties
  <2> QED
    BY <1>9, <2>1, <2>2, SeqEqual
<1> QED
  BY <1>8, <1>10 DEF IsPrefix, s, n, b

(* SavedRowsComeBack: read back, a save shows the drawing, and one that was *)
(* cut short the rows of it whose newline got to the file.                  *)
THEOREM DrawingSaves == Spec => SavedRowsComeBack
<1> DEFINE Saved == Reads /\ IsPrefix(file, FPrintTrim(canvas)) =>
       /\ canvas'.rows = NewlinesBefore(file, Len(file) + 1)
       /\ Ink(canvas') = {p \in Ink(canvas) : p[1] < canvas'.rows}
       /\ \A p \in Ink(canvas') : canvas'.at[p] = canvas.at[p]
       /\ IsPrefix(FPrintTrim(canvas'), file)
<1>1. ASSUME TypeOK PROVE Saved
  <2>1. CASE Reads /\ IsPrefix(file, FPrintTrim(canvas))
    <3>1. file \in Seq(Chars \cup {NL}) /\ IsCanvas(canvas) /\ canvas' = Readf(file).canvas
      BY <1>1, <2>1 DEF TypeOK, Reads, ReadFromFile
    <3>2. /\ canvas'.rows = NewlinesBefore(file, Len(file) + 1)
          /\ IsCanvas(canvas') /\ TopOf(canvas', canvas)
      BY <2>1, <3>1, CutShows
    <3>3. NewlinesBefore(file, Len(file) + 1) = Cardinality(Newlines(file, Len(file)))
      <4>1. Len(file) + 1 - 1 = Len(file)
        BY <3>1
      <4> QED
        BY <4>1 DEF NewlinesBefore, Newlines
    <3>4. IsPrefix(FPrintTrim(canvas'), file)
      BY <2>1, <3>1, <3>2, <3>3, CutAgain
    <3> QED
      BY <3>2, <3>4 DEF TopOf
  <2> QED
    BY <2>1
<1> HIDE DEF Saved
<1>2. TypeOK => [Saved]_vars
  BY <1>1
<1>3. []TypeOK => [][Saved]_vars
  BY <1>2, PTL
<1>4. Spec => [][Saved]_vars
  BY <1>3, DrawingTypeCorrect, PTL
<1> QED
  BY <1>4, PTL DEF SavedRowsComeBack, Saved

(* ParsedAsMeant: whatever the command lines and whatever the words in      *)
(* them, letters that are no options in front of others among them, and     *)
(* whether or not words may be moved (POSIXLY_CORRECT), getopt's moving     *)
(* about loses and adds none, and what is started is what the words mean    *)
(* where they stand.                                                        *)
THEOREM DrawingParses == Spec => []ParsedAsMeant
<1>1. ParsedAsMeant
  BY NothingMisread DEF ParsedAsMeant, AllRead
<1> QED
  BY <1>1, PTL

=============================================================================
