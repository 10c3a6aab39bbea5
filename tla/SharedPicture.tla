---------------------------- MODULE SharedPicture ---------------------------
(***************************************************************************)
(* What a session promises of the cells that one user each draws in,       *)
(* without server threads, streams and buffers: an author's strokes in a   *)
(* cell are numbered, the master has one of them, every viewer shows one,  *)
(* and each of the three only goes forward, the viewers behind the master  *)
(* and the master behind the author.                                       *)
(***************************************************************************)
EXTENDS Naturals

CONSTANTS
  Viewers,
  Cells,
  Author,   \* who draws in each cell, one of the viewers
  None

VARIABLES
  drawn,    \* the last stroke of each cell's author
  stored,   \* the stroke the master copy has
  shown     \* the strokes each viewer shows of the others' cells, or None if away

vars == <<drawn, stored, shown>>

Others(c) == {k \in Cells : Author[k] # c}

Init ==
  /\ drawn = [k \in Cells |-> 0]
  /\ stored = [k \in Cells |-> 0]
  /\ shown = [c \in Viewers |-> shown[c]]
  /\ \A c \in Viewers : shown[c] \in [Others(c) -> {0}] \cup {None}

Draw == \E k \in Cells :
  /\ drawn'[k] \in Nat /\ drawn'[k] > drawn[k]
  /\ drawn' = [drawn EXCEPT ![k] = drawn'[k]]
  /\ UNCHANGED <<stored, shown>>

Store == \E k \in Cells :
  /\ stored'[k] \in stored[k] + 1 .. drawn[k]
  /\ stored' = [stored EXCEPT ![k] = stored'[k]]
  /\ UNCHANGED <<drawn, shown>>

Show == \E c \in Viewers : \E k \in Others(c) :
  /\ shown[c] # None /\ shown'[c] # None
  /\ shown'[c][k] \in shown[c][k] + 1 .. stored[k]
  /\ shown' = [shown EXCEPT ![c][k] = shown'[c][k]]
  /\ UNCHANGED <<drawn, stored>>

Enter == \E c \in Viewers :
  /\ shown[c] = None
  /\ shown'[c] \in [Others(c) -> Nat]
  /\ \A k \in Others(c) : shown'[c][k] <= stored[k]
  /\ shown' = [shown EXCEPT ![c] = shown'[c]]
  /\ UNCHANGED <<drawn, stored>>

Leave == \E c \in Viewers :
  /\ shown[c] # None
  /\ shown' = [shown EXCEPT ![c] = None]
  /\ UNCHANGED <<drawn, stored>>

Next == Draw \/ Store \/ Show \/ Enter \/ Leave

Spec == Init /\ [][Next]_vars

-----------------------------------------------------------------------------
(* What is drawn is stored and shown in that order: the master is behind    *)
(* the author and ahead of everyone who looks on.                           *)
InOrder ==
  /\ \A k \in Cells : stored[k] <= drawn[k]
  /\ \A c \in Viewers : shown[c] # None => \A k \in Others(c) : shown[c][k] <= stored[k]

(* Nobody who stays sees a cell fall back.                                  *)
Forward ==
  [][/\ \A k \in Cells : drawn'[k] >= drawn[k] /\ stored'[k] >= stored[k]
     /\ \A c \in Viewers : shown[c] # None /\ shown'[c] # None =>
          \A k \in Others(c) : shown'[c][k] >= shown[c][k]]_vars
=============================================================================
