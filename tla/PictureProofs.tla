---------------------------- MODULE PictureProofs ---------------------------
(***************************************************************************)
(* The promise of SharedPicture, for any viewers and cells: strokes are     *)
(* seen in the order author, master, viewer, and never taken back.         *)
(***************************************************************************)
EXTENDS SharedPicture, TLAPS

PictureTypeOK ==
  /\ drawn \in [Cells -> Nat]
  /\ stored \in [Cells -> Nat]
  /\ shown = [c \in Viewers |-> shown[c]]
  /\ \A c \in Viewers : shown[c] # None => shown[c] \in [Others(c) -> Nat]

PInv == PictureTypeOK /\ InOrder

(* No stroke is taken back. *)
Ahead ==
  /\ \A k \in Cells : drawn'[k] >= drawn[k] /\ stored'[k] >= stored[k]
  /\ \A c \in Viewers : shown[c] # None /\ shown'[c] # None =>
       \A k \in Others(c) : shown'[c][k] >= shown[c][k]

(* One step of the picture keeps the order, and takes no stroke back.       *)
LEMMA PictureStep ==
  ASSUME PInv, Next
  PROVE  PInv' /\ Ahead
<1> DEFINE Seen(c, k) == shown[c][k] \in Nat /\ shown[c][k] <= stored[k] /\ k \in Cells
<1>1. /\ drawn \in [Cells -> Nat] /\ stored \in [Cells -> Nat]
      /\ shown = [c \in Viewers |-> shown[c]]
      /\ \A k \in Cells : drawn[k] \in Nat /\ stored[k] \in Nat /\ stored[k] <= drawn[k]
  BY DEF PInv, PictureTypeOK, InOrder
<1>2. \A c \in Viewers : shown[c] # None =>
        shown[c] \in [Others(c) -> Nat] /\ \A k \in Others(c) : Seen(c, k)
  BY DEF PInv, PictureTypeOK, InOrder, Others
<1>3. ASSUME drawn' \in [Cells -> Nat], stored' \in [Cells -> Nat],
             shown' = [c \in Viewers |-> shown'[c]],
             \A k \in Cells : /\ drawn'[k] >= drawn[k] /\ stored'[k] >= stored[k]
                              /\ stored'[k] <= drawn'[k],
             \A c \in Viewers : shown'[c] # None =>
               /\ shown'[c] \in [Others(c) -> Nat]
               /\ \A k \in Others(c) : shown'[c][k] <= stored'[k],
             \A c \in Viewers : shown[c] # None /\ shown'[c] # None =>
               \A k \in Others(c) : shown'[c][k] >= shown[c][k]
      PROVE  PInv' /\ Ahead
  BY <1>3 DEF PInv, PictureTypeOK, InOrder, Others, Ahead
<1>4. CASE Draw
  <2>1. PICK k \in Cells : /\ drawn'[k] \in Nat /\ drawn'[k] > drawn[k]
                           /\ drawn' = [drawn EXCEPT ![k] = drawn'[k]]
                           /\ UNCHANGED <<stored, shown>>
    BY <1>4 DEF Draw
  <2>2. drawn' \in [Cells -> Nat]
    BY <1>1, <2>1
  <2>3. \A x \in Cells : drawn'[x] >= drawn[x] /\ stored[x] <= drawn'[x]
    BY <1>1, <2>1
  <2> HIDE DEF Seen
  <2>4. \A c \in Viewers : shown[c] # None => \A x \in Others(c) : shown[c][x] >= shown[c][x]
    BY <1>2 DEF Seen
  <2> QED
    BY <1>1, <1>2, <1>3, <2>1, <2>2, <2>3, <2>4 DEF Seen
<1>5. CASE Store
  <2>1. PICK k \in Cells : /\ stored'[k] \in stored[k] + 1 .. drawn[k]
                           /\ stored' = [stored EXCEPT ![k] = stored'[k]]
                           /\ UNCHANGED <<drawn, shown>>
    BY <1>5 DEF Store
  <2>2. stored' \in [Cells -> Nat]
    BY <1>1, <2>1
  <2>3. \A x \in Cells : /\ stored'[x] \in Nat /\ stored'[x] >= stored[x]
                         /\ stored'[x] <= drawn[x] /\ drawn[x] >= drawn[x]
    BY <1>1, <2>1
  <2>4. \A c \in Viewers : shown[c] # None =>
          \A x \in Others(c) : shown[c][x] <= stored'[x] /\ shown[c][x] >= shown[c][x]
    BY <1>1, <1>2, <2>3
  <2> QED
    BY <1>1, <1>2, <1>3, <2>1, <2>2, <2>3, <2>4
<1>6. CASE Show
  <2>1. PICK c \in Viewers : \E k \in Others(c) :
          /\ shown[c] # None /\ shown'[c] # None
          /\ shown'[c][k] \in shown[c][k] + 1 .. stored[k]
          /\ shown' = [shown EXCEPT ![c][k] = shown'[c][k]]
          /\ UNCHANGED <<drawn, stored>>
    BY <1>6 DEF Show
  <2>2. PICK k \in Others(c) :
          /\ shown[c] # None /\ shown'[c] # None
          /\ shown'[c][k] \in shown[c][k] + 1 .. stored[k]
          /\ shown' = [shown EXCEPT ![c][k] = shown'[c][k]]
          /\ UNCHANGED <<drawn, stored>>
    BY <2>1
  <2> DEFINE n == shown'[c][k]
  <2>3. Seen(c, k)
    BY <1>2, <2>2
  <2>4. n \in Nat /\ n >= shown[c][k] /\ n <= stored[k]
    BY <1>1, <2>2, <2>3
  <2> HIDE DEF n
  <2>5. shown' = [d \in Viewers |-> IF d = c THEN [shown[c] EXCEPT ![k] = n] ELSE shown[d]]
    BY <1>1, <2>2 DEF n
  <2>6. shown'[c] = [shown[c] EXCEPT ![k] = n] /\ shown'[c] \in [Others(c) -> Nat]
    BY <1>2, <2>2, <2>4, <2>5
  <2>7. \A d \in Viewers : d # c => shown'[d] = shown[d]
    BY <2>5
  <2>8. \A x \in Others(c) : shown'[c][x] >= shown[c][x] /\ shown'[c][x] <= stored[x]
    BY <1>2, <2>2, <2>4, <2>6
  <2>9. /\ shown' = [d \in Viewers |-> shown'[d]]
        /\ drawn' = drawn /\ stored' = stored
        /\ \A x \in Cells : drawn[x] >= drawn[x] /\ stored[x] >= stored[x]
    BY <1>1, <2>2, <2>5
  <2>10. \A d \in Viewers : shown'[d] # None =>
           /\ shown'[d] \in [Others(d) -> Nat]
           /\ \A x \in Others(d) : shown'[d][x] <= stored'[x]
    BY <1>2, <2>6, <2>7, <2>8, <2>9
  <2>11. \A d \in Viewers : shown[d] # None /\ shown'[d] # None =>
           \A x \in Others(d) : shown'[d][x] >= shown[d][x]
    BY <1>2, <2>7, <2>8
  <2> QED
    BY <1>1, <1>3, <2>9, <2>10, <2>11
<1>7. CASE Enter \/ Leave
  <2>1. PICK c \in Viewers :
          /\ shown' = [shown EXCEPT ![c] = shown'[c]]
          /\ shown[c] = None \/ shown'[c] = None
          /\ shown'[c] # None => /\ shown'[c] \in [Others(c) -> Nat]
                                 /\ \A k \in Others(c) : shown'[c][k] <= stored[k]
          /\ UNCHANGED <<drawn, stored>>
    <3>1. CASE Enter
      BY <3>1 DEF Enter
    <3>2. CASE Leave
      <4>1. PICK c \in Viewers : /\ shown' = [shown EXCEPT ![c] = None]
                                 /\ UNCHANGED <<drawn, stored>>
        BY <3>2 DEF Leave
      <4>2. shown'[c] = None
        BY <1>1, <4>1
      <4> QED
        BY <4>1, <4>2
    <3> QED
      BY <1>7, <3>1, <3>2
  <2>2. \A d \in Viewers : d # c => shown'[d] = shown[d]
    BY <1>1, <2>1
  <2>3. /\ shown' = [d \in Viewers |-> shown'[d]]
        /\ drawn' = drawn /\ stored' = stored
        /\ \A x \in Cells : drawn[x] >= drawn[x] /\ stored[x] >= stored[x]
    BY <1>1, <2>1
  <2>4. \A d \in Viewers : shown'[d] # None =>
          /\ shown'[d] \in [Others(d) -> Nat]
          /\ \A x \in Others(d) : shown'[d][x] <= stored'[x]
    BY <1>2, <2>1, <2>2
  <2>5. \A d \in Viewers : shown[d] # None /\ shown'[d] # None =>
          \A x \in Others(d) : shown'[d][x] >= shown[d][x]
    BY <1>2, <2>1, <2>2
  <2> QED
    BY <1>1, <1>3, <2>3, <2>4, <2>5
<1> QED
  BY <1>4, <1>5, <1>6, <1>7 DEF Next

(* Before the first stroke all copies are alike.                            *)
LEMMA PictureInit == Init => PInv
<1> SUFFICES ASSUME Init PROVE PInv
  OBVIOUS
<1>1. drawn \in [Cells -> Nat] /\ stored \in [Cells -> Nat]
  BY DEF Init
<1>2. \A c \in Viewers : shown[c] # None => shown[c] \in [Others(c) -> {0}]
  BY DEF Init
<1>3. \A c \in Viewers : shown[c] # None =>
        \A k \in Others(c) : shown[c][k] = 0 /\ k \in Cells
  BY <1>2 DEF Others
<1>4. \A k \in Cells : stored[k] = 0 /\ drawn[k] = 0
  BY DEF Init
<1>5. InOrder
  BY <1>3, <1>4 DEF InOrder
<1>6. \A c \in Viewers : shown[c] # None => shown[c] \in [Others(c) -> Nat]
  BY <1>2
<1> QED
  BY <1>1, <1>5, <1>6 DEF Init, PInv, PictureTypeOK

(* The order holds in every state.                                          *)
THEOREM PictureInOrder == Spec => []InOrder
<1>1. PInv /\ [Next]_vars => PInv'
  <2>1. CASE Next
    BY <2>1, PictureStep
  <2>2. CASE UNCHANGED vars
    BY <2>2 DEF vars, PInv, PictureTypeOK, InOrder
  <2> QED
    BY <2>1, <2>2
<1>2. PInv => InOrder
  BY DEF PInv
<1> QED
  BY PictureInit, <1>1, <1>2, PTL DEF Spec

(* No step takes a stroke back.                                             *)
THEOREM PictureForward == Spec => Forward
<1>1. PInv /\ [Next]_vars => PInv' /\ [Ahead]_vars
  <2>1. CASE Next
    BY <2>1, PictureStep
  <2>2. CASE UNCHANGED vars
    BY <2>2 DEF vars, PInv, PictureTypeOK, InOrder
  <2> QED
    BY <2>1, <2>2
<1>2. [][Ahead]_vars => Forward
  BY PTL DEF Forward, Ahead
<1> QED
  BY PictureInit, <1>1, <1>2, PTL DEF Spec
=============================================================================
