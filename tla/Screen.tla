------------------------------- MODULE Screen -------------------------------
(***************************************************************************)
(* The status lines under the canvas of one editor (src/src/frontend.c):   *)
(* info_win, which shows the mode, the cursor's place on the canvas and    *)
(* the canvas' size, and mode_win, which the picker and the brush write    *)
(* to.  Each step of Editor is a key or a mouse event; here it also does   *)
(* to the two lines what its handler in src/src/fe_modes.c does.           *)
(*                                                                         *)
(* A new terminal size destroys the status windows and creates empty ones. *)
(***************************************************************************)
EXTENDS Editor

CONSTANTS
  MaxDrift,  \* bound: how far cursor, anchor and view may get from 0
  Astray     \* the same bound once steady is FALSE (WithinDrift)

VARIABLES
  info,      \* what info_win shows, or None when it is empty
  bar        \* what mode_win shows, or None when it is empty

screenVars == <<info, bar>>

(* update_info_win_state() *)
Info == [mode |-> mode, at |-> Plus(view, cursor), size |-> size]

(* mode_picker(): the modes by name, and the one it calls the current canvas *)
(* mode in reverse video, or none when it is not in the list                 *)
Highlight == IF lastMode \in Modes \ {Picker} THEN lastMode ELSE None
ModeList == [list |-> TRUE, on |-> Highlight]

(* mode_brush(): "state: ON" or "state: OFF" *)
BrushLine == [list |-> FALSE, on |-> painting]

(* Two modes write to mode_win, each time they are called. *)
Writes(m) == m \in {Picker, Brush}
Bar == IF mode = Picker THEN ModeList ELSE BrushLine

ScreenInit == Init /\ info = Info /\ bar = None

(* Mutated: TAB in the picker changes the mode it highlights, and draws     *)
(* nothing.                                                                 *)
MutTabHandler ==
  /\ \E n \in {1, -1} : Tab(n)
  /\ info' = Info'
  /\ bar' = IF mode' = mode THEN bar ELSE Bar'

(* TAB and SHIFT-TAB end in the picker. *)
TabHandler ==
  /\ \E n \in {1, -1} : Tab(n)
  /\ info' = Info'
  /\ bar' = Bar'

(* switch_mode() clears mode_win before it starts the new mode. *)
PickHandler ==
  /\ (\E m \in Modes : PickMode(m)) \/ PickLast
  /\ info' = Info'
  /\ bar' = IF Writes(mode') THEN Bar' ELSE None

(* call_mode(): the mode takes the key, and info_win is written after it.   *)
CallMode ==
  /\ \/ \E a \in Arrows : ArrowKey(a)
     \/ InsertType \/ InsertBackspace \/ InsertDelete \/ InsertEnter
     \/ FreeLineBackspace
     \/ BrushEnter \/ BrushType \/ Mouse
     \/ UnusedKey
  /\ info' = Info'
  /\ bar' = IF Writes(mode') THEN Bar' ELSE bar

(* Mutated: the view is shifted, and update_info_win_state() not called. *)
MutPageHandler ==
  /\ \E d \in Axes : PageBack(d) \/ PageForward(d)
  /\ UNCHANGED screenVars

PageHandler ==
  /\ \E d \in Axes : PageBack(d) \/ PageForward(d)
  /\ info' = Info'
  /\ UNCHANGED bar

(* CTRL-R and CTRL-T call neither a mode nor update_info_win_state(). *)
ReplaceHandler ==
  /\ ReadFromFile \/ TrimCanvas
  /\ UNCHANGED screenVars

(* update_screen_size(): destroy_status_interface(), create_status_interface() *)
ResizeHandler ==
  /\ \E w \in Windows : Resize(w)
  /\ info' = None
  /\ bar' = None

MasterHandler ==
  \/ TabHandler \/ PickHandler \/ CallMode
  \/ PageHandler \/ ReplaceHandler \/ ResizeHandler

ScreenSpec == ScreenInit /\ [][MasterHandler]_<<vars, screenVars>>

(* None of them is bounded in the code: ENTER and LEFT take the cursor away  *)
(* to the left, scrolling back and forth in different modes the anchor, and  *)
(* view_move_up() a view that is negative already.                           *)
WithinDrift ==
  LET far == IF steady' THEN MaxDrift ELSE Astray IN
  /\ view' \in [Axes -> -far .. far]
  /\ cursor' \in [Axes -> -far .. far]
  /\ anchor' \in IF steady' THEN [Axes -> -far .. far] \cup {None} ELSE {cursor', Zero, None}

BoundedNext == MasterHandler /\ WithinDrift

(* What TLC checks *)
BoundedSpec == ScreenInit /\ [][BoundedNext]_<<vars, screenVars>>

-----------------------------------------------------------------------------
(* Properties *)

(* fe_modes.c:94, "This makes sure info_win is always updated": whatever was *)
(* pressed, the line is empty or names the mode that takes the next key and *)
(* the cell of the canvas it acts on.  (The size in it may be an old one:    *)
(* CTRL-R and CTRL-T do not write the line.)                                *)
InfoTellsPlace == info # None => info.mode = mode /\ info.at = Plus(view, cursor)

(* The line for the modes is empty or right: in the picker the mode in      *)
(* reverse video is the one ENTER leads to, after any TABs, and in brush    *)
(* mode the line says whether the brush paints; no other mode shows the     *)
(* line of a mode left.                                                     *)
BarTellsTruth == bar # None => mode \in {Picker, Brush} /\ bar = Bar

(* frontend.c:720, "Prints the current mode, cursor coordinates, and canvas *)
(* dimensions": the whole of the line is right.                             *)
InfoTellsTruth == info # None => info = Info
=============================================================================
