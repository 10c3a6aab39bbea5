------------------------------- MODULE Editor -------------------------------
(***************************************************************************)
(* The editor of one user: the cursor of src/src/cursor.c in the window,   *)
(* the window (view) of src/src/view.c on the canvas, the modes and keys   *)
(* of src/src/fe_modes.c, and update_screen_size() and                     *)
(* front_setcharcursor() of src/src/frontend.c.  Screen adds the status    *)
(* lines.                                                                  *)
(*                                                                         *)
(* The two axes obey the same rules, so a position is a function on Axes.  *)
(* What is drawn is left out: an assertion of canvas.c fails, and the      *)
(* program aborts, exactly when a character is put or read off the canvas. *)
(***************************************************************************)
EXTENDS Integers

CONSTANTS
  Sizes,     \* the canvas sizes the editor may be started with or read from a file
  Windows,   \* the window sizes (view_max_y, view_max_x) the terminal may have:
             \* its lines less 5 and its columns less 2, so 0 or less in a small one
  UIntMod,   \* the number of values of an unsigned int: 2^32
  None

Axes == {"y", "x"}

ASSUME EditorAssumption ==
  /\ Sizes \subseteq [Axes -> Nat]
  /\ Windows \subseteq [Axes -> Int]
  /\ UIntMod \in Nat \ {0}
  /\ None \notin [Axes -> Int]

VARIABLES
  cursor,    \* cursor->y, cursor->x: where in the window
  view,      \* view->y, view->x: the canvas cell in the window's corner
  size,      \* canvas->num_rows, canvas->num_cols
  window,    \* view_max_y, view_max_x
  mode,      \* state->current_mode
  lastMode,  \* state->last_canvas_mode
  arrow,     \* state->last_arrow_direction
  anchor,    \* mode_insert_config.last_dir_change, or None before its first use
  painting,  \* mode_brush_config.state = PAINT_ON
  aborted,   \* an assertion has failed
  steady     \* history: nothing yet of what leaves the cursor anywhere (below)

vars == <<cursor, view, size, window, mode, lastMode, arrow, anchor, painting,
          aborted, steady>>

(***************************************************************************)
(* Some keys move the cursor, the view or the canvas without looking at the *)
(* other two: ENTER in insert mode, panning and paging down and right,     *)
(* CTRL-R, CTRL-T and the mouse.  A canvas without a cell (an empty file)   *)
(* has no place for the cursor, and in a terminal of less than 5 lines or   *)
(* 2 columns update_screen_size() puts it at a negative one.  steady is     *)
(* FALSE once there has been any of these.                                  *)
(***************************************************************************)

(* enum Mode_ID *)
Picker == 0
Insert == 1
Pan == 2
FreeLine == 3
Brush == 4
LAST == 5
Modes == 0 .. LAST - 1

Arrows == {"up", "down", "left", "right"}
AxisOf(a) == IF a \in {"up", "down"} THEN "y" ELSE "x"
Forward(a) == a \in {"down", "right"}

OppositeDir(a) == CASE a = "up" -> "down" [] a = "down" -> "up"
                    [] a = "left" -> "right" [] a = "right" -> "left"

TypeOK ==
  /\ cursor \in [Axes -> Int]
  /\ view \in [Axes -> Int]
  /\ size \in [Axes -> Nat]
  /\ window \in [Axes -> Int]
  /\ mode \in Modes
  /\ lastMode \in Modes
  /\ arrow \in Arrows
  /\ anchor \in [Axes -> Int] \cup {None}
  /\ painting \in BOOLEAN
  /\ aborted \in BOOLEAN
  /\ steady \in BOOLEAN

(* cursor_new(), and view_new_startpos() as it is called *)
Zero == [d \in Axes |-> 0]

(* The end of update_screen_size(): view_max is one past the last place.    *)
Clamped(c, w) == [d \in Axes |-> IF c[d] >= w[d] THEN w[d] ELSE c[d]]

HasRoom(w) == \A d \in Axes : w[d] >= 0
HasCells(s) == \A d \in Axes : s[d] > 0

(* main() calls update_screen_size() before the first key. *)
Init ==
  /\ size \in Sizes
  /\ window \in Windows
  /\ cursor = Clamped(Zero, window)
  /\ view = Zero
  /\ mode = Insert
  /\ lastMode = Insert
  /\ arrow = "right"
  /\ anchor = None
  /\ painting = FALSE
  /\ aborted = FALSE
  /\ steady = (HasRoom(window) /\ HasCells(size))

-----------------------------------------------------------------------------
(* Moving.  view_move_*() scroll by one, cursor_move_*() move or scroll.    *)

Scroll(a) ==
  LET d == AxisOf(a) IN
  IF Forward(a)
  THEN IF view[d] + window[d] > size[d] THEN view[d] ELSE view[d] + 1
  ELSE IF view[d] = 0 THEN view[d] ELSE view[d] - 1

(* Mutated: one past the last cell. *)
MutLastCell(d) == size[d] - view[d]

(* The last cell of the canvas, as a place in the window *)
LastCell(d) == size[d] - view[d] - 1

MovesView(a) ==
  LET d == AxisOf(a) IN
  IF Forward(a) THEN cursor[d] < LastCell(d) /\ cursor[d] + 1 >= window[d]
                ELSE cursor[d] = 0

CursorAfter(a) ==
  LET d == AxisOf(a) IN
  IF MovesView(a) THEN cursor
  ELSE [cursor EXCEPT ![d] =
          IF ~Forward(a) THEN @ - 1
          ELSE IF @ >= LastCell(d) THEN LastCell(d) ELSE @ + 1]

ViewAfter(a) ==
  IF MovesView(a) THEN [view EXCEPT ![AxisOf(a)] = Scroll(a)] ELSE view

(* cursor_key_to_move() *)
Move(a) == cursor' = CursorAfter(a) /\ view' = ViewAfter(a)

(* canvas_isin_yx() for the cell under cursor c in a window at v *)
OnCanvas(c, v) == \A d \in Axes : c[d] + v[d] \in 0 .. size[d] - 1

(* redraw_canvas_win() reads cells with canvas_gcharyx() unless it has none to draw *)
Drawable(v, s, w) == \/ \A d \in Axes : v[d] >= 0
                     \/ \E d \in Axes : w[d] <= 0 \/ s[d] - v[d] <= 0
RedrawsWell == view' # view => Drawable(view', size', window')

Less(p, q) == [d \in Axes |-> p[d] - q[d]]
Plus(p, q) == [d \in Axes |-> p[d] + q[d]]

(* mode_insert() first remembers the cursor, and last follows the view.     *)
Anchor == IF anchor = None THEN cursor ELSE anchor
FollowView(p) == anchor' = Plus(p, Less(view, view'))

-----------------------------------------------------------------------------
(* free_line_arrows_to_char() *)
FreeLineChar(last, current) ==
  IF (last = "up" \/ current = "down") /\ (last = "down" \/ current = "up")
  THEN "|"
  ELSE IF (last = "left" \/ current = "right") /\ (last = "right" \/ current = "left")
  THEN "-"
  ELSE IF <<last, current>> \in {<<"up", "right">>, <<"down", "left">>,
                                 <<"left", "down">>, <<"right", "up">>}
  THEN "/" ELSE "\\"

-----------------------------------------------------------------------------
(* Keys, as master_handler() and the mode in force take them. *)

Running(m) == ~aborted /\ mode = m
KeepModes == UNCHANGED <<size, window, mode, lastMode>>
Steadily == UNCHANGED steady

InsertArrow(a) ==
  /\ Running(Insert)
  /\ Move(a)
  /\ arrow' = a
  /\ FollowView(cursor')
  /\ KeepModes /\ UNCHANGED painting
  /\ aborted' = ~RedrawsWell
  /\ Steadily

(* A printable character: put it, then move on. *)
InsertType ==
  /\ Running(Insert)
  /\ Move(arrow)
  /\ FollowView(Anchor)
  /\ KeepModes /\ UNCHANGED <<arrow, painting>>
  /\ aborted' = ~(OnCanvas(cursor, view) /\ RedrawsWell)
  /\ Steadily

InsertBackspace ==
  /\ Running(Insert)
  /\ Move(OppositeDir(arrow))
  /\ FollowView(Anchor)
  /\ KeepModes /\ UNCHANGED <<arrow, painting>>
  /\ aborted' = ~(OnCanvas(cursor', view') /\ RedrawsWell)
  /\ Steadily

InsertDelete ==
  /\ Running(Insert)
  /\ anchor' = Anchor
  /\ aborted' = ~OnCanvas(cursor, view)
  /\ KeepModes /\ UNCHANGED <<cursor, view, arrow, painting>>
  /\ Steadily

(* Back to where the line began on the axis of the last arrow, and one step *)
(* along the other; the remembered place follows that step.                 *)
InsertEnter ==
  /\ Running(Insert)
  /\ LET back == AxisOf(arrow)
         step == IF back = "x" THEN "down" ELSE "right"
         on == AxisOf(step)
     IN /\ cursor' = [CursorAfter(step) EXCEPT ![back] = Anchor[back]]
        /\ view' = ViewAfter(step)
        /\ FollowView([Anchor EXCEPT ![on] = cursor'[on]])
  /\ KeepModes /\ UNCHANGED <<arrow, painting>>
  /\ aborted' = ~RedrawsWell
  /\ steady' = FALSE

PanArrow(a) ==
  /\ Running(Pan)
  /\ view' = [view EXCEPT ![AxisOf(a)] = Scroll(a)]
  /\ KeepModes /\ UNCHANGED <<cursor, arrow, anchor, painting>>
  /\ aborted' = ~Drawable(view', size, window)
  /\ steady' = (steady /\ ~Forward(a))

FreeLineArrow(a) ==
  /\ Running(FreeLine)
  /\ Move(a)
  /\ arrow' = a
  /\ KeepModes /\ UNCHANGED <<anchor, painting>>
  /\ aborted' = ~(OnCanvas(cursor, view) /\ RedrawsWell)
  /\ Steadily

FreeLineBackspace ==
  /\ Running(FreeLine)
  /\ Move(OppositeDir(arrow))
  /\ KeepModes /\ UNCHANGED <<arrow, anchor, painting>>
  /\ aborted' = ~(OnCanvas(cursor', view') /\ RedrawsWell)
  /\ Steadily

(* mode_brush() puts its character at the end of every call while painting. *)
BrushPut == painting' => OnCanvas(cursor', view')

BrushArrow(a) ==
  /\ Running(Brush)
  /\ Move(a)
  /\ KeepModes /\ UNCHANGED <<arrow, anchor, painting>>
  /\ aborted' = ~(BrushPut /\ RedrawsWell)
  /\ Steadily

BrushEnter ==
  /\ Running(Brush)
  /\ painting' = ~painting
  /\ KeepModes /\ UNCHANGED <<cursor, view, arrow, anchor>>
  /\ aborted' = ~BrushPut
  /\ Steadily

(* A printable character is the new brush. *)
BrushType ==
  /\ Running(Brush)
  /\ KeepModes /\ UNCHANGED <<cursor, view, arrow, anchor, painting>>
  /\ aborted' = ~BrushPut
  /\ Steadily

(* Button pressed or dragged at place p of the window, or outside it (None). *)
BrushMouse(p) ==
  /\ Running(Brush)
  /\ painting' = TRUE
  /\ cursor' = IF p = None THEN cursor ELSE p
  /\ KeepModes /\ UNCHANGED <<view, arrow, anchor>>
  /\ aborted' = ~BrushPut
  /\ steady' = FALSE

BrushRelease ==
  /\ Running(Brush)
  /\ painting' = FALSE
  /\ KeepModes /\ UNCHANGED <<cursor, view, arrow, anchor, aborted>>
  /\ Steadily

(* switch_mode(): END to the old mode, START to the new one *)
SwitchMode(m) ==
  /\ lastMode' = mode
  /\ mode' = m
  /\ painting' = (painting /\ m # Brush)
  /\ aborted' = ~(mode = Brush /\ painting => OnCanvas(cursor, view))
  /\ UNCHANGED <<cursor, view, size, window, arrow, anchor>>
  /\ Steadily

(* Mutated: signed arithmetic, in which -1 % 4 is -1. *)
MutSigned(m, n) ==
  IF m < Picker + 1 \/ LAST <= m THEN m
  ELSE LET i == (m - (Picker + 1)) + n
       IN (IF i < 0 THEN i ELSE i % (LAST - (Picker + 1))) + (Picker + 1)

(* Mutated: the remainder is by the length of the whole list. *)
MutListEnd(m, n) ==
  IF m < Picker + 1 \/ LAST <= m THEN m
  ELSE ((((m - (Picker + 1)) + n) % UIntMod) % LAST) + (Picker + 1)

(* Mode_ID is unsigned, so n = -1 is added as UIntMod - 1. *)
AddModCanvasMode(m, n) ==
  IF m < Picker + 1 \/ LAST <= m THEN m
  ELSE ((((m - (Picker + 1)) + n) % UIntMod) % (LAST - (Picker + 1)))
         + (Picker + 1)

(* TAB (n = 1) and SHIFT-TAB (n = -1) *)
Tab(n) ==
  /\ ~aborted
  /\ IF mode = Picker /\ lastMode # Picker
     THEN /\ lastMode' = AddModCanvasMode(lastMode, n)
          /\ aborted' = FALSE /\ Steadily
          /\ UNCHANGED <<cursor, view, size, window, mode, arrow, anchor, painting>>
     ELSE SwitchMode(Picker)

(* '1' to '4', and ENTER, in the picker *)
PickMode(m) == Running(Picker) /\ m \in Modes \ {Picker} /\ SwitchMode(m)
PickLast == Running(Picker) /\ SwitchMode(lastMode)

PageBack(d) ==
  /\ ~aborted
  /\ view' = [view EXCEPT ![d] = IF @ - window[d] > 0 THEN @ - window[d] ELSE 0]
  /\ KeepModes /\ UNCHANGED <<cursor, arrow, anchor, painting>>
  /\ aborted' = ~Drawable(view', size, window)
  /\ Steadily

PageForward(d) ==
  /\ ~aborted
  /\ view' = [view EXCEPT ![d] = IF @ + window[d] < size[d] - window[d]
                                 THEN @ + window[d] ELSE size[d] - window[d]]
  /\ KeepModes /\ UNCHANGED <<cursor, arrow, anchor, painting>>
  /\ aborted' = ~Drawable(view', size, window)
  /\ steady' = FALSE

(* CTRL-R, CTRL-T: another canvas under the same view and cursor *)
ReplaceCanvas(s) ==
  /\ ~aborted
  /\ size' = s
  /\ UNCHANGED <<cursor, view, window, mode, lastMode, arrow, anchor, painting>>
  /\ aborted' = ~Drawable(view, s, window)
  /\ steady' = FALSE

ReadFromFile == \E s \in Sizes : ReplaceCanvas(s)

(* What is left is right of and below nothing but blanks, and never empty:  *)
(* where there is no cell the copy asserts.                                 *)
TrimCanvas ==
  \/ \E h \in 1 .. size["y"], w \in 1 .. size["x"] :
       ReplaceCanvas([d \in Axes |-> IF d = "y" THEN h ELSE w])
  \/ /\ ~aborted /\ ~HasCells(size)
     /\ aborted' = TRUE
     /\ steady' = FALSE
     /\ UNCHANGED <<cursor, view, size, window, mode, lastMode, arrow, anchor, painting>>

(* The mode in force sees KEY_RESIZE first, as a key it has no use for; then *)
(* update_screen_size() clamps.                                              *)
Resize(w) ==
  /\ ~aborted
  /\ w # window
  /\ window' = w
  /\ cursor' = Clamped(cursor, w)
  /\ anchor' = IF mode = Insert THEN Anchor ELSE anchor
  /\ aborted' = ~((mode = Brush /\ painting => OnCanvas(cursor, view))
                    /\ Drawable(view, size, w))
  /\ UNCHANGED <<view, size, mode, lastMode, arrow, painting>>
  /\ steady' = (steady /\ HasRoom(w))

(* A key the mode in force has no use for: what the mode does at every call *)
UnusedKey ==
  /\ ~aborted
  /\ anchor' = IF mode = Insert THEN Anchor ELSE anchor
  /\ KeepModes /\ Steadily /\ UNCHANGED <<cursor, view, arrow, painting>>
  /\ aborted' = ~((mode = Brush => BrushPut) /\ (mode = Pan => Drawable(view, size, window)))

(* The mouse in a mode that takes none, or moved without its button *)
UnusedMouse == ~aborted /\ (mode = Brush => ~painting) /\ UNCHANGED vars

ArrowKey(a) == InsertArrow(a) \/ PanArrow(a) \/ FreeLineArrow(a) \/ BrushArrow(a)

(* view_isin() *)
Places == {[d \in Axes |-> IF d = "y" THEN y ELSE x] :
             y \in 0 .. window["y"] - 1, x \in 0 .. window["x"] - 1}

Mouse ==
  \/ \E p \in Places \cup {None} : BrushMouse(p)
  \/ BrushRelease
  \/ UnusedMouse

Step ==
  \/ \E a \in Arrows : ArrowKey(a)
  \/ InsertType \/ InsertBackspace \/ InsertDelete \/ InsertEnter
  \/ FreeLineBackspace
  \/ BrushEnter \/ BrushType \/ Mouse
  \/ UnusedKey
  \/ Tab(1) \/ Tab(-1) \/ (\E m \in Modes : PickMode(m)) \/ PickLast
  \/ \E d \in Axes : PageBack(d) \/ PageForward(d)
  \/ ReadFromFile \/ TrimCanvas
  \/ \E w \in Windows : Resize(w)

Spec == Init /\ [][Step]_vars

-----------------------------------------------------------------------------
(* Properties *)

(* On a canvas with a cell, in a terminal of at least 5 lines and 2 columns, *)
(* the cursor stays on the canvas: arrows, typing, erasing, brush and free  *)
(* line, mode switches, page up and terminal resizes come in any order, and *)
(* the canvas may be larger or smaller than the window.                     *)
CursorOnCanvas == steady => OnCanvas(cursor, view)

(* There, the same steps never put or read a character off the canvas, so   *)
(* that no assertion of canvas.c ends the program and loses the drawing.    *)
(* frontend.c:491, "This will assert the cursor is within canvas bounds in  *)
(* DEBUG mode ONLY, so bounds checking should be done before calling this". *)
NeverAborts == steady => ~aborted

(* In the picker there is always a canvas mode to return to: TAB and        *)
(* SHIFT-TAB, with -1 added in unsigned arithmetic, cycle through those.    *)
PickerHasTarget == mode = Picker => lastMode # Picker

(* frontend.c:573, "Move cursor inside the canvas": a resize leaves the     *)
(* cursor at a place of the canvas window.                                  *)
ResizeKeepsCursorInside ==
  [][window' # window => \A d \in Axes : cursor'[d] < window'[d]]_vars

(* fe_modes.c:400, "return to beginning of "line" on ENTER": the remembered *)
(* place is where the last arrow key left the cursor.                       *)
LineBeginsAtArrow == [][\A a \in Arrows : InsertArrow(a) => anchor' = cursor']_vars

(* cursor.c:93, "If the move would push the cursor beyond the current view  *)
(* ... the view will be shifted if there is more canvas, otherwise it is a  *)
(* no-op": an arrow key leaves the cursor in the window.                    *)
MovesStayInView ==
  [][\A a \in Arrows : InsertArrow(a) =>
       \A d \in Axes : cursor'[d] \in 0 .. window[d] - 1]_vars

(* fe_modes.c:254, the reference table of free_line_arrows_to_char(): two   *)
(* vertical arrows in a row draw "|" and two horizontal ones "-".           *)
StraightLines == mode = FreeLine =>
  \A a \in Arrows : AxisOf(a) = AxisOf(arrow) =>
    FreeLineChar(arrow, a) = (IF AxisOf(a) = "y" THEN "|" ELSE "-")
=============================================================================
