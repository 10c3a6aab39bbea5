---------------------------- MODULE EditorProofs ----------------------------
(***************************************************************************)
(* For canvases and terminals of every size, those with no room included:  *)
(* while steady holds, that is on a canvas with a cell, in a terminal of 5 *)
(* lines and 2 columns or more and until one of the keys that move without *)
(* looking is used, the cursor of Editor does not leave the canvas and no  *)
(* assertion fails; the picker always has a mode to return to; and the     *)
(* status lines of Screen tell the truth.                                  *)
(***************************************************************************)
EXTENDS Screen, TLAPS

(* The place c of a window at v is on the canvas, and neither is negative.  *)
Safe(c, v) == \A d \in Axes : c[d] \in Nat /\ v[d] \in Nat /\ c[d] + v[d] < size[d]

SteadyInv == TypeOK /\ (steady => Safe(cursor, view) /\ HasRoom(window) /\ ~aborted)

(* One arrow key, in whatever mode, keeps the position safe: cursor and view *)
(* never go below 0, and the view scrolls only while there is canvas left.   *)
LEMMA MoveIsSafe ==
  ASSUME TypeOK, Safe(cursor, view), NEW a \in Arrows
  PROVE  /\ CursorAfter(a) \in [Axes -> Int]
         /\ ViewAfter(a) \in [Axes -> Int]
         /\ Safe(CursorAfter(a), ViewAfter(a))
<1> DEFINE d == AxisOf(a)
<1>1. d \in Axes
  BY DEF AxisOf, Axes
<1>2. /\ cursor \in [Axes -> Int] /\ view \in [Axes -> Int]
      /\ size \in [Axes -> Nat] /\ window \in [Axes -> Int]
  BY DEF TypeOK
<1>3. CASE MovesView(a)
  <2>1. CursorAfter(a) = cursor /\ ViewAfter(a) = [view EXCEPT ![d] = Scroll(a)]
    BY <1>3 DEF CursorAfter, ViewAfter
  <2>2. Scroll(a) \in Nat /\ cursor[d] + Scroll(a) < size[d]
    BY <1>1, <1>2, <1>3 DEF MovesView, Scroll, LastCell, Safe
  <2> QED
    BY <1>1, <1>2, <2>1, <2>2 DEF Safe
<1>4. CASE ~MovesView(a)
  <2> DEFINE n == IF ~Forward(a) THEN cursor[d] - 1
                  ELSE IF cursor[d] >= LastCell(d) THEN LastCell(d) ELSE cursor[d] + 1
  <2>1. CursorAfter(a) = [cursor EXCEPT ![d] = n] /\ ViewAfter(a) = view
    BY <1>1, <1>2, <1>4 DEF CursorAfter, ViewAfter
  <2>2. /\ cursor[d] \in Nat /\ view[d] \in Nat /\ size[d] \in Nat
        /\ cursor[d] + view[d] < size[d]
    BY <1>1, <1>2 DEF Safe
  <2>3. LastCell(d) \in Nat /\ LastCell(d) = size[d] - view[d] - 1
    BY <2>2 DEF LastCell
  <2>4. ~Forward(a) => cursor[d] # 0
    BY <1>4 DEF MovesView
  <2>5. n \in Nat /\ n + view[d] < size[d]
    BY <2>2, <2>3, <2>4
  <2> HIDE DEF n
  <2> QED
    BY <1>1, <1>2, <2>1, <2>5 DEF Safe
<1> QED
  BY <1>3, <1>4

(* The types alone do not need a safe position.                             *)
LEMMA MoveType ==
  ASSUME TypeOK, NEW a \in Arrows
  PROVE  CursorAfter(a) \in [Axes -> Int] /\ ViewAfter(a) \in [Axes -> Int]
<1>1. /\ cursor \in [Axes -> Int] /\ view \in [Axes -> Int]
      /\ size \in [Axes -> Nat] /\ window \in [Axes -> Int]
      /\ AxisOf(a) \in Axes
  BY DEF TypeOK, AxisOf, Axes
<1>2. Scroll(a) \in Int /\ LastCell(AxisOf(a)) \in Int
  BY <1>1 DEF Scroll, LastCell
<1> QED
  BY <1>1, <1>2 DEF CursorAfter, ViewAfter

(* A safe position is on the canvas, and a safe view can be drawn.          *)
LEMMA SafeIsOnCanvas ==
  ASSUME TypeOK, NEW c, NEW v, NEW w, Safe(c, v)
  PROVE  OnCanvas(c, v) /\ Drawable(v, size, w)
BY DEF Safe, OnCanvas, Drawable, TypeOK

(* TAB and SHIFT-TAB reach modes of the list only, and not the picker.       *)
LEMMA AddModType ==
  ASSUME NEW m \in Modes, NEW n \in Int
  PROVE  /\ AddModCanvasMode(m, n) \in Modes
         /\ m # Picker => AddModCanvasMode(m, n) # Picker
<1>1. ASSUME NEW i \in Int, NEW k \in Nat \ {0}
      PROVE  i % k \in 0 .. k - 1
  BY <1>1, Z3
<1> DEFINE i == m - (Picker + 1) + n
<1>2. i \in Int
  BY DEF Modes, LAST, Picker
<1>3. i % UIntMod \in Int
  BY <1>1, <1>2, EditorAssumption
<1> DEFINE j == i % UIntMod
<1>4. j % 4 \in 0 .. 3
  <2>1. j \in Int
    BY <1>3
  <2> HIDE DEF j
  <2> QED
    BY <2>1, Z3
<1>5. CASE m < Picker + 1 \/ LAST <= m
  BY <1>5 DEF AddModCanvasMode, Modes, LAST, Picker
<1>6. CASE ~(m < Picker + 1 \/ LAST <= m)
  <2>1. LAST - (Picker + 1) = 4 /\ Picker + 1 = 1
    BY DEF LAST, Picker
  <2>2. AddModCanvasMode(m, n) = (j % 4) + 1
    BY <1>6, <2>1 DEF AddModCanvasMode
  <2> HIDE DEF j
  <2> QED
    BY <1>4, <2>2 DEF Modes, LAST, Picker
<1> QED
  BY <1>5, <1>6

(* The remembered place stays a pair of integers.                           *)
LEMMA FollowType ==
  ASSUME NEW p \in [Axes -> Int], view \in [Axes -> Int], view' \in [Axes -> Int],
         FollowView(p)
  PROVE  anchor' \in [Axes -> Int]
BY DEF FollowView, Plus, Less

(* No key takes a variable out of its type.                                 *)
LEMMA TypeStep ==
  ASSUME TypeOK, Step
  PROVE  TypeOK'
<1>1. /\ cursor \in [Axes -> Int] /\ view \in [Axes -> Int]
      /\ size \in [Axes -> Nat] /\ window \in [Axes -> Int]
      /\ mode \in Modes /\ lastMode \in Modes /\ arrow \in Arrows
      /\ anchor \in [Axes -> Int] \cup {None}
      /\ painting \in BOOLEAN /\ steady \in BOOLEAN
  BY DEF TypeOK
<1>2. Anchor \in [Axes -> Int]
  BY <1>1 DEF Anchor
<1>3. \A a \in Arrows : OppositeDir(a) \in Arrows /\ AxisOf(a) \in Axes
  BY DEF Arrows, OppositeDir, AxisOf, Axes
<1>4. ASSUME NEW a \in Arrows, Move(a)
      PROVE  cursor' \in [Axes -> Int] /\ view' \in [Axes -> Int]
  BY <1>4, MoveType DEF Move
<1>5. ASSUME NEW a \in Arrows, ArrowKey(a)
      PROVE  TypeOK'
  <2>1. CASE InsertArrow(a)
    <3>1. cursor' \in [Axes -> Int] /\ view' \in [Axes -> Int]
      BY <1>4, <2>1 DEF InsertArrow
    <3>2. anchor' \in [Axes -> Int]
      BY <1>1, <2>1, <3>1, FollowType DEF InsertArrow
    <3> QED
      BY <1>1, <2>1, <3>1, <3>2 DEF InsertArrow, KeepModes, Steadily, TypeOK
  <2>2. CASE PanArrow(a)
    <3>1. Scroll(a) \in Int
      BY <1>1, <1>3 DEF Scroll
    <3>2. view' \in [Axes -> Int] /\ steady' \in BOOLEAN
      BY <1>1, <2>2, <3>1 DEF PanArrow, Forward
    <3> QED
      BY <1>1, <2>2, <3>2 DEF PanArrow, KeepModes, TypeOK
  <2>3. CASE FreeLineArrow(a) \/ BrushArrow(a)
    <3>1. cursor' \in [Axes -> Int] /\ view' \in [Axes -> Int]
      BY <1>4, <2>3 DEF FreeLineArrow, BrushArrow
    <3> QED
      BY <1>1, <2>3, <3>1 DEF FreeLineArrow, BrushArrow, KeepModes, Steadily, TypeOK
  <2> QED
    BY <1>5, <2>1, <2>2, <2>3 DEF ArrowKey
<1>6. CASE InsertType
  <2>1. cursor' \in [Axes -> Int] /\ view' \in [Axes -> Int]
    BY <1>1, <1>4, <1>6 DEF InsertType
  <2>2. anchor' \in [Axes -> Int]
    BY <1>1, <1>2, <1>6, <2>1, FollowType DEF InsertType
  <2> QED
    BY <1>1, <1>6, <2>1, <2>2 DEF InsertType, KeepModes, Steadily, TypeOK
<1>7. CASE InsertBackspace
  <2>1. cursor' \in [Axes -> Int] /\ view' \in [Axes -> Int]
    BY <1>1, <1>3, <1>4, <1>7 DEF InsertBackspace
  <2>2. anchor' \in [Axes -> Int]
    BY <1>1, <1>2, <1>7, <2>1, FollowType DEF InsertBackspace
  <2> QED
    BY <1>1, <1>7, <2>1, <2>2 DEF InsertBackspace, KeepModes, Steadily, TypeOK
<1>8. CASE InsertDelete
  BY <1>1, <1>2, <1>8 DEF InsertDelete, KeepModes, Steadily, TypeOK
<1>9. CASE InsertEnter
  <2> DEFINE back == AxisOf(arrow)
             step == IF back = "x" THEN "down" ELSE "right"
  <2>1. step \in Arrows /\ back \in Axes /\ AxisOf(step) \in Axes
    BY <1>1, <1>3 DEF Arrows
  <2>2. CursorAfter(step) \in [Axes -> Int] /\ ViewAfter(step) \in [Axes -> Int]
    BY <2>1, MoveType
  <2>3. /\ cursor' = [CursorAfter(step) EXCEPT ![back] = Anchor[back]]
        /\ view' = ViewAfter(step)
        /\ FollowView([Anchor EXCEPT ![AxisOf(step)] = cursor'[AxisOf(step)]])
    BY <1>9 DEF InsertEnter
  <2> HIDE DEF back, step
  <2>4. cursor' \in [Axes -> Int] /\ view' \in [Axes -> Int]
    BY <1>2, <2>1, <2>2, <2>3
  <2>5. [Anchor EXCEPT ![AxisOf(step)] = cursor'[AxisOf(step)]] \in [Axes -> Int]
    BY <1>2, <2>1, <2>4
  <2>6. anchor' \in [Axes -> Int]
    BY <1>1, <2>3, <2>4, <2>5, FollowType
  <2> QED
    BY <1>1, <1>9, <2>4, <2>6 DEF InsertEnter, KeepModes, TypeOK
<1>10. CASE FreeLineBackspace
  <2>1. cursor' \in [Axes -> Int] /\ view' \in [Axes -> Int]
    BY <1>1, <1>3, <1>4, <1>10 DEF FreeLineBackspace
  <2> QED
    BY <1>1, <1>10, <2>1 DEF FreeLineBackspace, KeepModes, Steadily, TypeOK
<1>11. CASE BrushEnter \/ BrushType \/ BrushRelease
  BY <1>1, <1>11 DEF BrushEnter, BrushType, BrushRelease, KeepModes, Steadily, TypeOK
<1>12. CASE Mouse
  <2>1. ASSUME NEW p \in [Axes -> Int] \cup {None}, BrushMouse(p)
        PROVE  TypeOK'
    BY <1>1, <2>1 DEF BrushMouse, KeepModes, TypeOK
  <2>2. \A y \in 0 .. window["y"] - 1, x \in 0 .. window["x"] - 1 :
          [d \in Axes |-> IF d = "y" THEN y ELSE x] \in [Axes -> Int]
    BY <1>1 DEF Axes
  <2>3. CASE UnusedMouse
    BY <2>3 DEF UnusedMouse, vars, TypeOK
  <2> QED
    BY <1>11, <1>12, <2>1, <2>2, <2>3 DEF Mouse, Places
<1>13. CASE UnusedKey
  BY <1>1, <1>2, <1>13 DEF UnusedKey, KeepModes, Steadily, TypeOK
<1>14. ASSUME NEW m \in Modes, SwitchMode(m)
       PROVE  TypeOK'
  BY <1>1, <1>14 DEF SwitchMode, Steadily, TypeOK
<1>15. ASSUME NEW n \in {1, -1}, Tab(n)
       PROVE  TypeOK'
  <2>1. AddModCanvasMode(lastMode, n) \in Modes /\ Picker \in Modes
    BY <1>1, AddModType DEF Modes, Picker, LAST
  <2> QED
    BY <1>1, <1>14, <1>15, <2>1 DEF Tab, Steadily, TypeOK
<1>16. CASE (\E m \in Modes : PickMode(m)) \/ PickLast
  BY <1>1, <1>14, <1>16 DEF PickMode, PickLast
<1>17. ASSUME NEW d \in Axes, PageBack(d) \/ PageForward(d)
       PROVE  TypeOK'
  <2>1. view' \in [Axes -> Int]
    BY <1>1, <1>17 DEF PageBack, PageForward
  <2> QED
    BY <1>1, <1>17, <2>1 DEF PageBack, PageForward, KeepModes, Steadily, TypeOK
<1>18. ASSUME NEW s \in [Axes -> Nat], ReplaceCanvas(s)
       PROVE  TypeOK'
  BY <1>1, <1>18 DEF ReplaceCanvas, TypeOK
<1>19. CASE ReadFromFile \/ TrimCanvas
  <2>1. \A h \in 1 .. size["y"], w \in 1 .. size["x"] :
          [d \in Axes |-> IF d = "y" THEN h ELSE w] \in [Axes -> Nat]
    BY <1>1 DEF Axes
  <2>2. CASE \E s \in [Axes -> Nat] : ReplaceCanvas(s)
    BY <1>18, <2>2
  <2>3. CASE /\ aborted' = TRUE /\ steady' = FALSE
             /\ UNCHANGED <<cursor, view, size, window, mode, lastMode, arrow, anchor, painting>>
    BY <1>1, <2>3 DEF TypeOK
  <2> QED
    BY <1>19, <2>1, <2>2, <2>3, EditorAssumption DEF ReadFromFile, TrimCanvas
<1>20. ASSUME NEW w \in Windows, Resize(w)
       PROVE  TypeOK'
  <2>1. w \in [Axes -> Int]
    BY EditorAssumption
  <2>2. cursor' \in [Axes -> Int]
    BY <1>1, <1>20, <2>1 DEF Resize, Clamped
  <2>3. steady' \in BOOLEAN
    BY <1>1, <1>20 DEF Resize
  <2> QED
    BY <1>1, <1>2, <1>20, <2>1, <2>2, <2>3 DEF Resize, TypeOK
<1> QED
  BY <1>5, <1>6, <1>7, <1>8, <1>9, <1>10, <1>11, <1>12, <1>13, <1>15, <1>16,
     <1>17, <1>19, <1>20 DEF Step

(* While the history is steady every step keeps the cursor on the canvas.   *)
LEMMA SteadyStep ==
  ASSUME SteadyInv, Step
  PROVE  SteadyInv'
<1> DEFINE Good == Safe(cursor, view)' /\ HasRoom(window') /\ ~aborted'
<1>1. TypeOK /\ TypeOK'
  BY TypeStep DEF SteadyInv
<1> SUFFICES ASSUME steady' PROVE Good
  BY <1>1 DEF SteadyInv
<1>2. /\ cursor \in [Axes -> Int] /\ view \in [Axes -> Int]
      /\ size \in [Axes -> Nat] /\ window \in [Axes -> Int]
      /\ mode \in Modes /\ lastMode \in Modes /\ arrow \in Arrows
  BY <1>1 DEF TypeOK
<1>3. ASSUME steady
      PROVE  /\ Safe(cursor, view) /\ HasRoom(window) /\ ~aborted
             /\ OnCanvas(cursor, view) /\ \A w : Drawable(view, size, w)
  BY <1>1, <1>3, SafeIsOnCanvas DEF SteadyInv
<1>4. \A a \in Arrows : OppositeDir(a) \in Arrows
  BY DEF Arrows, OppositeDir
(* A key that moves the cursor and nothing else of the picture. *)
<1>5. ASSUME NEW a \in Arrows, Move(a), KeepModes, Steadily
      PROVE  /\ Safe(cursor, view)' /\ HasRoom(window')
             /\ RedrawsWell
             /\ OnCanvas(cursor, view) /\ OnCanvas(cursor', view')
  <2>1. Safe(cursor, view) /\ HasRoom(window) /\ OnCanvas(cursor, view)
    BY <1>3, <1>5 DEF Steadily
  <2>2. /\ cursor' = CursorAfter(a) /\ view' = ViewAfter(a)
        /\ Safe(CursorAfter(a), ViewAfter(a))
    BY <1>1, <1>5, <2>1, MoveIsSafe DEF Move
  <2>3. OnCanvas(cursor', view') /\ Drawable(view', size, window)
    BY <1>1, <2>2, SafeIsOnCanvas
  <2>4. size' = size /\ window' = window
    BY <1>5 DEF KeepModes
  <2> QED
    BY <2>1, <2>2, <2>3, <2>4 DEF Safe, RedrawsWell
<1>6. ASSUME NEW a \in Arrows, InsertArrow(a)
      PROVE  Good
  BY <1>5, <1>6 DEF InsertArrow
<1>7. ASSUME NEW a \in Arrows, PanArrow(a)
      PROVE  Good
  <2>1. steady /\ ~Forward(a) /\ view' = [view EXCEPT ![AxisOf(a)] = Scroll(a)]
    BY <1>7 DEF PanArrow
  <2>2. Scroll(a) \in Nat /\ Scroll(a) <= view[AxisOf(a)] /\ AxisOf(a) \in Axes
    BY <1>2, <1>3, <2>1 DEF Scroll, Safe, AxisOf, Axes
  <2>3. Safe(cursor, view')
    BY <1>2, <1>3, <2>1, <2>2 DEF Safe
  <2>4. Drawable(view', size, window)
    BY <1>1, <2>3, SafeIsOnCanvas
  <2> QED
    BY <1>3, <1>7, <2>1, <2>3, <2>4 DEF PanArrow, KeepModes, Safe
<1>8. ASSUME NEW a \in Arrows, FreeLineArrow(a)
      PROVE  Good
  BY <1>5, <1>8 DEF FreeLineArrow
<1>9. ASSUME NEW a \in Arrows, BrushArrow(a)
      PROVE  Good
  BY <1>5, <1>9 DEF BrushArrow, BrushPut
<1>10. CASE InsertType
  BY <1>2, <1>5, <1>10 DEF InsertType
<1>11. CASE InsertBackspace
  BY <1>2, <1>4, <1>5, <1>11 DEF InsertBackspace
<1>12. CASE InsertDelete
  BY <1>3, <1>12 DEF InsertDelete, KeepModes, Steadily, Safe
<1>13. CASE InsertEnter
  BY <1>13 DEF InsertEnter
<1>14. CASE FreeLineBackspace
  BY <1>2, <1>4, <1>5, <1>14 DEF FreeLineBackspace
<1>15. CASE BrushEnter \/ BrushType \/ UnusedKey
  <2>1. cursor' = cursor /\ view' = view /\ size' = size /\ window' = window /\ steady
    BY <1>15 DEF BrushEnter, BrushType, UnusedKey, KeepModes, Steadily
  <2>2. BrushPut
    BY <1>3, <2>1 DEF BrushPut
  <2> QED
    BY <1>3, <1>15, <2>1, <2>2 DEF BrushEnter, BrushType, UnusedKey, Safe
<1>16. CASE Mouse
  <2>1. BrushRelease \/ UnusedMouse
    BY <1>16 DEF Mouse, BrushMouse
  <2>2. UNCHANGED <<cursor, view, size, window, aborted, steady>>
    BY <2>1 DEF BrushRelease, UnusedMouse, KeepModes, Steadily, vars
  <2> QED
    BY <1>3, <2>2 DEF Safe
<1>17. ASSUME NEW m \in Modes, SwitchMode(m)
       PROVE  Good
  BY <1>3, <1>17 DEF SwitchMode, Steadily, Safe
<1>18. ASSUME NEW n \in {1, -1}, Tab(n)
       PROVE  Good
  <2>1. CASE mode = Picker /\ lastMode # Picker
    BY <1>3, <1>18, <2>1 DEF Tab, Steadily, Safe
  <2>2. CASE ~(mode = Picker /\ lastMode # Picker)
    BY <1>17, <1>18, <2>2 DEF Tab, Modes, Picker, LAST
  <2> QED
    BY <2>1, <2>2
<1>19. CASE (\E m \in Modes : PickMode(m)) \/ PickLast
  BY <1>2, <1>17, <1>19 DEF PickMode, PickLast
<1>20. ASSUME NEW d \in Axes, PageBack(d)
       PROVE  Good
  <2>1. Safe(cursor, view') /\ size' = size /\ cursor' = cursor /\ HasRoom(window')
    BY <1>2, <1>3, <1>20 DEF PageBack, KeepModes, Steadily, Safe, HasRoom
  <2>2. Drawable(view', size, window)
    BY <1>1, <2>1, SafeIsOnCanvas
  <2> QED
    BY <1>20, <2>1, <2>2 DEF PageBack, Safe
<1>21. CASE (\E d \in Axes : PageForward(d)) \/ ReadFromFile \/ TrimCanvas
  BY <1>21 DEF PageForward, ReadFromFile, TrimCanvas, ReplaceCanvas
<1>22. ASSUME NEW w \in Windows, Resize(w)
       PROVE  Good
  <2>1. w \in [Axes -> Int] /\ steady /\ HasRoom(w)
    BY <1>22, EditorAssumption DEF Resize
  <2>2. Safe(cursor', view)
    BY <1>2, <1>3, <1>22, <2>1 DEF Resize, Clamped, HasRoom, Safe
  <2> QED
    BY <1>3, <1>22, <2>1, <2>2 DEF Resize, Safe
<1> QED
  BY <1>6, <1>7, <1>8, <1>9, <1>10, <1>11, <1>12, <1>13, <1>14, <1>15, <1>16,
     <1>18, <1>19, <1>20, <1>21, <1>22
     DEF Step, ArrowKey

(* The inductive invariant holds in every state, whatever sizes canvas and  *)
(* terminal have at first and get.                                          *)
THEOREM SteadyInvariant == Spec => []SteadyInv
<1>1. Init => SteadyInv
  <2> SUFFICES ASSUME Init PROVE SteadyInv
    OBVIOUS
  <2>1. size \in [Axes -> Nat] /\ window \in [Axes -> Int]
    BY EditorAssumption DEF Init
  <2>2. cursor = Clamped(Zero, window) /\ view = Zero /\ Zero \in [Axes -> Int]
    BY DEF Init, Zero
  <2>3. cursor \in [Axes -> Int]
    BY <2>1, <2>2 DEF Clamped
  <2>4. HasRoom(window) /\ HasCells(size) => Safe(cursor, view)
    BY <2>1, <2>2 DEF Safe, Zero, Clamped, HasRoom, HasCells
  <2>5. mode \in Modes /\ lastMode \in Modes /\ arrow \in Arrows /\ steady \in BOOLEAN
    BY DEF Init, Modes, Insert, LAST, Arrows
  <2> QED
    BY <2>1, <2>2, <2>3, <2>4, <2>5 DEF Init, SteadyInv, TypeOK
<1>2. SteadyInv /\ [Step]_vars => SteadyInv'
  <2>1. CASE Step
    BY <2>1, SteadyStep
  <2>2. CASE UNCHANGED vars
    BY <2>2 DEF vars, SteadyInv, TypeOK, Safe, HasRoom
  <2> QED
    BY <2>1, <2>2
<1> QED
  BY <1>1, <1>2, PTL DEF Spec

(* Type correctness of the editor's state.                                  *)
THEOREM EditorTypeOK == Spec => []TypeOK
<1>1. SteadyInv => TypeOK
  BY DEF SteadyInv
<1> QED
  BY <1>1, SteadyInvariant, PTL

(* On a canvas with a cell and in a terminal with room for the cursor, and   *)
(* until a key moves without looking, the cursor is on a cell whenever a    *)
(* key comes in.                                                            *)
THEOREM CursorStaysOnCanvas == Spec => []CursorOnCanvas
<1>1. SteadyInv => CursorOnCanvas
  BY SafeIsOnCanvas DEF SteadyInv, CursorOnCanvas
<1> QED
  BY <1>1, SteadyInvariant, PTL

(* There and until then no assertion of canvas.c fails.                     *)
THEOREM EditorNeverAborts == Spec => []NeverAborts
<1>1. SteadyInv => NeverAborts
  BY DEF SteadyInv, NeverAborts
<1> QED
  BY <1>1, SteadyInvariant, PTL

(* The picker can always be left for a canvas mode.                         *)
THEOREM EditorPickerHasTarget == Spec => []PickerHasTarget
<1> DEFINE I == TypeOK /\ PickerHasTarget
<1>1. Init => PickerHasTarget
  BY DEF Init, PickerHasTarget, Insert, Picker
<1>2. ASSUME I, [Step]_vars
      PROVE  PickerHasTarget'
  <2> USE DEF PickerHasTarget
  <2>1. ASSUME UNCHANGED <<mode, lastMode>>
        PROVE  PickerHasTarget'
    BY <1>2, <2>1
  <2>2. ASSUME NEW n \in {1, -1}, Tab(n)
        PROVE  PickerHasTarget'
    <3>1. AddModCanvasMode(lastMode, n) # Picker \/ lastMode = Picker
      BY <1>2, AddModType DEF TypeOK
    <3> QED
      BY <1>2, <2>2, <3>1 DEF Tab, SwitchMode
  <2>3. CASE (\E m \in Modes : PickMode(m)) \/ PickLast
    BY <1>2, <2>3 DEF PickMode, PickLast, SwitchMode, Running
  <2>4. CASE \E a \in Arrows : ArrowKey(a)
    BY <2>1, <2>4 DEF ArrowKey, InsertArrow, PanArrow, FreeLineArrow, BrushArrow, KeepModes
  <2>5. CASE InsertType \/ InsertBackspace \/ InsertDelete \/ InsertEnter
    BY <2>1, <2>5 DEF InsertType, InsertBackspace, InsertDelete, InsertEnter, KeepModes
  <2>6. CASE FreeLineBackspace \/ BrushEnter \/ BrushType \/ UnusedKey
    BY <2>1, <2>6 DEF FreeLineBackspace, BrushEnter, BrushType, UnusedKey, KeepModes
  <2>7. CASE Mouse
    BY <2>1, <2>7 DEF Mouse, BrushMouse, BrushRelease, UnusedMouse, KeepModes, vars
  <2>8. CASE \E d \in Axes : PageBack(d) \/ PageForward(d)
    BY <2>1, <2>8 DEF PageBack, PageForward, KeepModes
  <2>9. CASE ReadFromFile \/ TrimCanvas
    BY <2>1, <2>9 DEF ReadFromFile, TrimCanvas, ReplaceCanvas
  <2>10. CASE \E w \in Windows : Resize(w)
    BY <2>1, <2>10 DEF Resize
  <2>11. CASE UNCHANGED vars
    BY <2>1, <2>11 DEF vars
  <2> QED
    BY <1>2, <2>2, <2>3, <2>4, <2>5, <2>6, <2>7, <2>8, <2>9, <2>10, <2>11 DEF Step
<1> QED
  BY <1>1, <1>2, EditorTypeOK, PTL DEF Spec

-----------------------------------------------------------------------------
(* The status lines *)

(* The editor with its status lines is an editor, and TLC's bound only      *)
(* removes behaviours.                                                      *)
THEOREM ScreenIsEditor == (ScreenSpec => Spec) /\ (BoundedSpec => ScreenSpec)
<1>1. ScreenInit => Init
  BY DEF ScreenInit
<1>2. MasterHandler => Step
  BY DEF MasterHandler, Step, TabHandler, PickHandler, CallMode, PageHandler,
         ReplaceHandler, ResizeHandler
<1>3. [MasterHandler]_<<vars, screenVars>> => [Step]_vars
  BY <1>2
<1>4. [BoundedNext]_<<vars, screenVars>> => [MasterHandler]_<<vars, screenVars>>
  BY DEF BoundedNext
<1> QED
  BY <1>1, <1>3, <1>4, PTL DEF ScreenSpec, BoundedSpec, Spec

(* info_win names the mode and the place of the next key, or is empty.      *)
THEOREM ScreenInfoTellsPlace == ScreenSpec => []InfoTellsPlace
<1>1. ScreenInit => InfoTellsPlace
  BY DEF ScreenInit, Info, InfoTellsPlace
<1>2. ASSUME InfoTellsPlace, [MasterHandler]_<<vars, screenVars>>
      PROVE  InfoTellsPlace'
  <2>1. ASSUME info' = Info'
        PROVE  InfoTellsPlace'
    BY <2>1 DEF Info, InfoTellsPlace
  <2>2. ASSUME UNCHANGED <<info, mode, view, cursor>>
        PROVE  InfoTellsPlace'
    BY <1>2, <2>2 DEF InfoTellsPlace, Plus
  <2>3. CASE ReplaceHandler
    BY <2>2, <2>3 DEF ReplaceHandler, ReadFromFile, TrimCanvas, ReplaceCanvas, screenVars
  <2>4. CASE ResizeHandler
    BY <2>4 DEF ResizeHandler, InfoTellsPlace
  <2>5. CASE UNCHANGED <<vars, screenVars>>
    BY <2>2, <2>5 DEF vars, screenVars
  <2> QED
    BY <1>2, <2>1, <2>3, <2>4, <2>5
       DEF MasterHandler, TabHandler, PickHandler, CallMode, PageHandler
<1> QED
  BY <1>1, <1>2, PTL DEF ScreenSpec

(* mode_win is empty or shows what the mode in force would print now.       *)
THEOREM ScreenBarTellsTruth == ScreenSpec => []BarTellsTruth
<1>1. ScreenInit => BarTellsTruth
  BY DEF ScreenInit, BarTellsTruth
<1>2. ASSUME BarTellsTruth, [MasterHandler]_<<vars, screenVars>>
      PROVE  BarTellsTruth'
  <2> USE DEF BarTellsTruth
  <2>1. ASSUME UNCHANGED <<bar, mode, lastMode, painting>>
        PROVE  BarTellsTruth'
    BY <1>2, <2>1 DEF Bar, ModeList, Highlight, BrushLine
  <2>2. CASE TabHandler
    BY <2>2 DEF TabHandler, Tab, SwitchMode
  <2>3. CASE PickHandler
    BY <2>3 DEF PickHandler, Writes
  <2>4. CASE CallMode
    <3>1. bar' = (IF Writes(mode') THEN Bar' ELSE bar)
      BY <2>4 DEF CallMode
    <3>2. mode' = mode
      BY <2>4 DEF CallMode, ArrowKey, InsertArrow, PanArrow, FreeLineArrow, BrushArrow,
                  InsertType, InsertBackspace, InsertDelete, InsertEnter,
                  FreeLineBackspace, BrushEnter, BrushType, UnusedKey, Mouse,
                  BrushMouse, BrushRelease, UnusedMouse, KeepModes, vars
    <3> QED
      BY <1>2, <3>1, <3>2 DEF Writes
  <2>5. CASE PageHandler
    BY <2>1, <2>5 DEF PageHandler, PageBack, PageForward, KeepModes
  <2>6. CASE ReplaceHandler
    BY <2>1, <2>6 DEF ReplaceHandler, ReadFromFile, TrimCanvas, ReplaceCanvas, screenVars
  <2>7. CASE ResizeHandler
    BY <2>7 DEF ResizeHandler
  <2>8. CASE UNCHANGED <<vars, screenVars>>
    BY <2>1, <2>8 DEF vars, screenVars
  <2> QED
    BY <1>2, <2>2, <2>3, <2>4, <2>5, <2>6, <2>7, <2>8 DEF MasterHandler
<1> QED
  BY <1>1, <1>2, PTL DEF ScreenSpec
=============================================================================
