------------------------------- MODULE Drawing ------------------------------
(***************************************************************************)
(* A drawing on its way between the canvas, the file and another user: the *)
(* text side of src/src/canvas.c, the commands of src/src/fe_modes.c that  *)
(* use it, the ways to start the editor (frontend.c, CommandLine) and the  *)
(* canvas that a server sends to a client that joins (server.c, network.c).*)
(***************************************************************************)
EXTENDS Canvas, CommandLine

CONSTANTS
  NL,             \* '\n'
  DEFAULT_HEIGHT, DEFAULT_WIDTH,  \* of a blank canvas
  Texts           \* what other programs may leave in the file, or pipe to the editor

ASSUME DrawingAssumption ==
  /\ NL \notin Chars
  /\ None \notin Chars
  /\ {DEFAULT_HEIGHT, DEFAULT_WIDTH} \subseteq Nat \ {0}
  /\ \A t \in Texts : t \in Seq(Chars \cup {NL})

VARIABLES
  canvas,    \* view->canvas
  file,      \* the file named by state->filepath, None if there is none
  running,   \* the editor has been started
  aborted    \* an assertion has failed

vars == <<canvas, file, running, aborted>>

Ink(c) == {p \in CellsOf(c) : c.at[p] # Blank}

TypeOK == /\ IsCanvas(canvas)
          /\ file = None \/ file \in Seq(Chars \cup {NL})
          /\ running \in BOOLEAN
          /\ aborted \in BOOLEAN

NoCanvas == New(0, 0)

Init == /\ canvas = NoCanvas
        /\ file \in Texts \cup {None}
        /\ running = FALSE
        /\ aborted = FALSE

-----------------------------------------------------------------------------
(* Text into a canvas: canvas_ldstryxc(), a character at a time. *)

(* Mutated: a newline is written after it has wrapped. *)
MutLdCharNL(st, ch, x, transparent) ==
  LET wraps == st.col >= st.canvas.cols \/ ch = NL
      row == IF wraps THEN st.row + 1 ELSE st.row
      col == IF wraps THEN x ELSE st.col
  IN IF st.stopped THEN st
     ELSE IF row >= st.canvas.rows THEN [st EXCEPT !.stopped = TRUE]
     ELSE [st EXCEPT !.canvas = SCharYX(@, row, col, ch), !.put = @ + 1,
                     !.row = row, !.col = col + 1, !.read = @ + 1]

LdChar(st, ch, x, transparent) ==
  LET wraps == st.col >= st.canvas.cols \/ ch = NL
      row == IF wraps THEN st.row + 1 ELSE st.row
      col == IF wraps THEN x ELSE st.col
  IN IF st.stopped THEN st
     ELSE IF ch = NL THEN [st EXCEPT !.row = row, !.col = col, !.read = @ + 1]
     ELSE IF row >= st.canvas.rows THEN [st EXCEPT !.stopped = TRUE]
     ELSE IF ch = transparent
          THEN [st EXCEPT !.row = row, !.col = col + 1, !.read = @ + 1]
     ELSE IF IsInYX(st.canvas, row, col)
          THEN [st EXCEPT !.canvas = SCharYX(@, row, col, ch), !.put = @ + 1,
                          !.row = row, !.col = col + 1, !.read = @ + 1]
     ELSE [st EXCEPT !.stopped = TRUE, !.failed = TRUE]

(* read: the characters the loop has passed, its result; put: those it wrote *)
LdStrYXC(c, str, y, x, transparent) ==
  LET passed[i \in 0 .. Len(str)] ==
        IF i = 0 THEN [canvas |-> c, row |-> y, col |-> x, read |-> 0, put |-> 0,
                       stopped |-> FALSE, failed |-> FALSE]
        ELSE LdChar(passed[i - 1], str[i], x, transparent)
  IN passed[Len(str)]

LdStr(c, str) == LdStrYXC(c, str, 0, 0, None)

(* Mutated: the last line's length is taken, not the longest. *)
MutScanChar(st, ch) ==
  IF ch = NL THEN [lines |-> st.lines + 1, length |-> 0, longest |-> st.length]
  ELSE [st EXCEPT !.length = @ + 1]

(* The two scans of a file count the lines that end, and the longest of them. *)
ScanChar(st, ch) ==
  IF ch = NL THEN [lines |-> st.lines + 1, length |-> 0,
                   longest |-> IF st.length > st.longest THEN st.length ELSE st.longest]
  ELSE [st EXCEPT !.length = @ + 1]

LineScan(text) ==
  LET seen[i \in 0 .. Len(text)] ==
        IF i = 0 THEN [lines |-> 0, length |-> 0, longest |-> 0]
        ELSE ScanChar(seen[i - 1], text[i])
  IN seen[Len(text)]

(* canvas_readf(), canvas_readf_norewind() *)
Readf(text) == LET scan == LineScan(text)
               IN LdStr(New(scan.lines, scan.longest), text)

-----------------------------------------------------------------------------
(* A canvas into text: canvas_fprint_trim(), which hoards blanks until a    *)
(* character follows them in the row.                                       *)

PrintChar(st, ch) ==
  IF ch = Blank THEN [st EXCEPT !.spaces = @ + 1]
  ELSE [out |-> st.out \o [i \in 1 .. st.spaces |-> Blank] \o <<ch>>, spaces |-> 0]

Row(c, y) == [i \in 1 .. c.cols |-> c.at[<<y, i - 1>>]]

PrintChars(st, row) ==
  LET printed[x \in 0 .. Len(row)] ==
        IF x = 0 THEN st ELSE PrintChar(printed[x - 1], row[x])
  IN printed[Len(row)]

(* Mutated: the hoarded blanks are carried over into the next row. *)
MutPrintRow(st, row) ==
  LET printed == PrintChars(st, row)
  IN [out |-> printed.out \o <<NL>>, spaces |-> printed.spaces]

PrintRow(st, row) == [out |-> PrintChars(st, row).out \o <<NL>>, spaces |-> 0]

FPrintTrim(c) ==
  LET printed[y \in 0 .. c.rows] ==
        IF y = 0 THEN [out |-> <<>>, spaces |-> 0]
        ELSE PrintRow(printed[y - 1], Row(c, y - 1))
  IN printed[c.rows].out

-----------------------------------------------------------------------------
(* canvas_trimc(): a row moves the box's sides out to its own first and     *)
(* last character that is not to be ignored.                                *)

(* Mutated: the search from the right starts past the last column. *)
MutTrimRow(box, row, y, ignore) ==
  LET kept == {x \in 0 .. Len(row) - 1 : row[x + 1] # ignore}
  IN IF kept = {} THEN box
     ELSE [found |-> TRUE,
           left |-> Lesser(Min(kept), box.left),
           right |-> IF Max(kept) + 1 > box.right THEN Max(kept) + 1 ELSE box.right,
           top |-> Lesser(y, box.top),
           bottom |-> y]

TrimRow(box, row, y, ignore) ==
  LET kept == {x \in 0 .. Len(row) - 1 : row[x + 1] # ignore}
  IN IF kept = {} THEN box
     ELSE [found |-> TRUE,
           left |-> Lesser(Min(kept), box.left),
           right |-> IF Max(kept) > box.right THEN Max(kept) ELSE box.right,
           top |-> Lesser(y, box.top),
           bottom |-> y]

TrimBox(c, ignore) ==
  LET seen[y \in 0 .. c.rows] ==
        IF y = 0 THEN [found |-> FALSE, left |-> c.cols - 1, right |-> 0,
                       top |-> c.rows - 1, bottom |-> c.rows - 1]
        ELSE TrimRow(seen[y - 1], Row(c, y - 1), y - 1, ignore)
      box == seen[c.rows]
  IN IF box.found THEN box
     ELSE [box EXCEPT !.left = 0, !.right = 0, !.top = 0, !.bottom = 0]

Trimc(c, ignore, right, bottom, left, top) ==
  LET box == TrimBox(c, ignore)
      y1 == IF top THEN box.top ELSE 0
      x1 == IF left THEN box.left ELSE 0
      y2 == IF bottom THEN box.bottom ELSE c.rows - 1
      x2 == IF right THEN box.right ELSE c.cols - 1
  IN IF CanCopy(c, y1, x1, y2, x2)
     THEN [ok |-> TRUE, canvas |-> CpyP1P2(c, y1, x1, y2, x2)]
     ELSE [ok |-> FALSE, canvas |-> c]

-----------------------------------------------------------------------------
(* main() of the server: a blank canvas of the editor's own default size, or *)
(* one read from stdin or the file it is given.                             *)
ServerCanvases ==
  {New(DEFAULT_HEIGHT, DEFAULT_WIDTH)}
    \cup {Readf(text).canvas : text \in {t \in Texts : ~Readf(t).failed}}

(* canvas_deserialize() *)
Deserialize(bytes, c) == LdStr(c, bytes)

(* A server with canvas c sends it to a client that joins, which fills a    *)
(* blank one with the line it gets.  canvas_buf is ended one byte late: the *)
(* byte past the canvas is whatever was there, and goes out too unless it   *)
(* is '\0'.                                                                 *)
UndefinedByte == {<<>>} \cup {<<ch>> : ch \in Chars \cup {NL}}

Joined(c, undefined) ==
  Deserialize(Serialize(c) \o undefined \o <<NL>>, New(c.rows, c.cols))

-----------------------------------------------------------------------------
(* init_state(): where the canvas comes from.  The file is that of the name *)
(* the editor is started with, or of "art.txt"; what it holds is open.      *)

Begin(loaded) == /\ ~running
                 /\ running' = TRUE
                 /\ canvas' = loaded.canvas
                 /\ aborted' = loaded.failed
                 /\ UNCHANGED file

Asked(size, default) == IF size = 0 THEN default ELSE size

StartBlank(args) ==
  /\ args.source = "blank"
  /\ Begin([canvas |-> New(Asked(args.height, DEFAULT_HEIGHT), Asked(args.width, DEFAULT_WIDTH)),
            failed |-> FALSE])

(* The size is not looked at. *)
StartStdin(args) ==
  /\ args.source = "stdin"
  /\ \E text \in Texts : Begin(Readf(text))

(* Without the file the program exits. *)
StartFile(args) ==
  /\ args.source = "file"
  /\ file # None
  /\ LET read == Readf(file)
         rows == Asked(args.height, read.canvas.rows)
         cols == Asked(args.width, read.canvas.cols)
         resizes == args.height # 0 \/ args.width # 0
     IN Begin([canvas |-> IF resizes /\ CanResize(rows, cols)
                          THEN Resize(read.canvas, rows, cols) ELSE read.canvas,
               failed |-> read.failed \/ (resizes /\ ~CanResize(rows, cols))])

(* The server's canvas has been drawn on by others. *)
StartConnected(args) ==
  /\ args.source = "server"
  /\ \E c \in ServerCanvases, text \in Texts, undefined \in UndefinedByte :
       Begin(Joined(LdStr(c, text).canvas, undefined))

Starts == {args \in Outcomes : args.exit = "no"}

Start == \E args \in Starts : \/ StartBlank(args) \/ StartStdin(args)
                               \/ StartFile(args) \/ StartConnected(args)

End == running' = FALSE /\ canvas' = NoCanvas /\ UNCHANGED aborted

-----------------------------------------------------------------------------
(* front_setcharcursor().  The cursor may be anywhere: CTRL-R and CTRL-T     *)
(* leave it where it was on the canvas before, and other keys move it       *)
(* without looking (Editor).                                                *)
Draw(y, x, ch) ==
  /\ IF IsInYX(canvas, y, x)
     THEN canvas' = SCharYX(canvas, y, x, ch) /\ UNCHANGED aborted
     ELSE aborted' = TRUE /\ UNCHANGED canvas
  /\ UNCHANGED <<file, running>>

(* CTRL-S *)
WriteToFile ==
  /\ file' = FPrintTrim(canvas)
  /\ UNCHANGED <<canvas, running, aborted>>

(* CTRL-S that is cut short: the file has been emptied by fopen(), and some *)
(* of the text has got there when the disk is full, which nobody notices,   *)
(* or when the editor is killed.                                            *)
WriteBreaksOff(n) ==
  /\ n < Len(FPrintTrim(canvas))
  /\ file' = SubSeq(FPrintTrim(canvas), 1, n)
  /\ End \/ UNCHANGED <<canvas, running, aborted>>

(* CTRL-R; without a file the editor exits. *)
ReadFromFile ==
  IF file = None THEN End /\ UNCHANGED file
  ELSE LET read == Readf(file)
       IN /\ canvas' = read.canvas
          /\ aborted' = read.failed
          /\ UNCHANGED <<file, running>>

(* CTRL-T *)
TrimCanvas ==
  LET trimmed == Trimc(canvas, Blank, TRUE, TRUE, FALSE, FALSE)
  IN /\ canvas' = trimmed.canvas
     /\ aborted' = ~trimmed.ok
     /\ UNCHANGED <<file, running>>

(* CTRL-C, where finish() saves nothing; a CTRL-S that cannot open the file *)
(* ends in the same way.                                                    *)
Quit == End /\ UNCHANGED file

(* Another program leaves a file, or takes it away. *)
Replace(content) == file' = content /\ UNCHANGED <<canvas, running, aborted>>

(* Off the canvas one place is like another. *)
Places == (-1 .. canvas.rows) \X (-1 .. canvas.cols)

Edit == \/ \E p \in Places, ch \in Chars : Draw(p[1], p[2], ch)
        \/ WriteToFile \/ ReadFromFile \/ TrimCanvas \/ Quit
        \/ \E n \in 0 .. Len(FPrintTrim(canvas)) : WriteBreaksOff(n)

Next ==
  /\ ~aborted
  /\ \/ Start
     \/ running /\ Edit
     \/ \E content \in Texts \cup {None} : Replace(content)

Spec == Init /\ [][Next]_vars

-----------------------------------------------------------------------------
(* Properties *)

NewlinesBefore(text, i) == Cardinality({j \in 1 .. i - 1 : text[j] = NL})

Reads == running /\ ReadFromFile /\ file # None

(* Whenever the editor is about to be started: options, their arguments and *)
(* the file may come in any order, in full or abbreviated, attached or      *)
(* apart, with "--" anywhere, and what is started is what the words mean    *)
(* where they stand; after all the moving about, the words that are no      *)
(* options are left in their order, none lost or added.                     *)
AllRead == Misread = {}
ParsedAsMeant == ~running => AllRead

(* Saving and reading back changes nothing that can be seen, whatever the   *)
(* blanks inside and at the ends of the rows: every character comes back to *)
(* its cell.  Of a save that was cut short anywhere, exactly the rows whose *)
(* newline got to the file come back.                                       *)
SavedRowsComeBack ==
  [][Reads /\ IsPrefix(file, FPrintTrim(canvas)) =>
       /\ canvas'.rows = NewlinesBefore(file, Len(file) + 1)
       /\ Ink(canvas') = {p \in Ink(canvas) : p[1] < canvas'.rows}
       /\ \A p \in Ink(canvas') : canvas'.at[p] = canvas.at[p]
       /\ IsPrefix(FPrintTrim(canvas'), file)]_vars

(* Reading puts the k-th character of the n-th line into cell (n, k) and    *)
(* leaves blanks elsewhere, for any file: of a last line that is not ended  *)
(* nothing is read, and nothing of it falls on the other lines.             *)
PlaceOf(text, i) ==
  <<NewlinesBefore(text, i),
    i - 1 - Max({0} \cup {j \in 1 .. i - 1 : text[j] = NL})>>
Shown(text) == {i \in DOMAIN text : text[i] \notin {NL, Blank}}
InEndedLine(text, i) == \E j \in i .. Len(text) : text[j] = NL
LinesBecomeRows ==
  [][Reads =>
       LET shown == {i \in Shown(file) : InEndedLine(file, i)} IN
       /\ canvas'.rows = NewlinesBefore(file, Len(file) + 1)
       /\ Ink(canvas') = {PlaceOf(file, i) : i \in shown}
       /\ \A i \in shown : canvas'.at[PlaceOf(file, i)] = file[i]]_vars

(* Trimming right and bottom keeps the drawing and leaves no blank row or   *)
(* column at those two ends.                                                *)
TrimIsTight ==
  [][running /\ TrimCanvas /\ ~aborted' =>
       /\ Ink(canvas') = Ink(canvas)
       /\ \A p \in Ink(canvas) : canvas'.at[p] = canvas.at[p]
       /\ IF Ink(canvas) = {} THEN <<canvas'.rows, canvas'.cols>> = <<1, 1>>
          ELSE /\ \E p \in Ink(canvas) : p[1] = canvas'.rows - 1
               /\ \E p \in Ink(canvas) : p[2] = canvas'.cols - 1]_vars

(* What a client that joins gets is the server's canvas, cell by cell, even *)
(* with the undefined byte at the end of canvas_buf.                        *)
JoinCopies ==
  CellsOf(canvas) # {} =>
    \A undefined \in UndefinedByte :
      LET joined == Joined(canvas, undefined)
      IN joined.canvas = canvas /\ ~joined.failed

(* A start from a file with -h or -w crops or extends the drawing at its    *)
(* right and bottom ends only.                                              *)
StartCrops ==
  [][\A args \in Starts : ~running /\ args.source = "file" /\ StartFile(args) /\ ~aborted' =>
       LET read == Readf(file).canvas IN
       /\ canvas'.rows = Asked(args.height, read.rows)
       /\ canvas'.cols = Asked(args.width, read.cols)
       /\ Ink(canvas') = Ink(read) \cap CellsOf(canvas')
       /\ \A p \in Ink(canvas') : canvas'.at[p] = read.at[p]]_vars

(* What puts a canvas in place (a start from a file, stdin, the server or   *)
(* nothing, CTRL-R, CTRL-T) fails no assertion unless it leaves not a       *)
(* single cell: loading never writes off the canvas, whatever the text, and *)
(* resizing and trimming copy no box that is not there.  (Drawing may fail  *)
(* on any canvas: the cursor need not be on it.)                            *)
LoadsAbortOnlyEmpty ==
  [][aborted' /\ ((~running /\ Start) \/ (running /\ (ReadFromFile \/ TrimCanvas)))
       => CellsOf(canvas') = {}]_vars

(* canvas.c:623, "initialize canvas of a large enough size": a canvas that  *)
(* is read from a file holds all its characters.                            *)
FileFits ==
  [][Reads => Cardinality(Ink(canvas')) = Cardinality(Shown(file))]_vars

(* canvas.c:405, "Returns: the number of characters written".               *)
CountsWritten ==
  [][Reads => Readf(file).read = Readf(file).put]_vars

(* canvas.c:365, assert(canvas_isin_yx(canvas, y, x)): a character is drawn *)
(* on the canvas only.                                                      *)
CanDraw == ~aborted

(* frontend.c:170, "initial width of canvas" and "initial height of canvas" *)
(* (172): a size that is given is the size of the canvas.                   *)
SizeHonoured ==
  [][\A args \in Starts : ~running /\ running' /\ args.width # 0 /\ StartStdin(args) =>
       canvas'.cols = args.width]_vars
=============================================================================
