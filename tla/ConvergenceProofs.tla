------------------------- MODULE ConvergenceProofs -------------------------
(***************************************************************************)
(* What a session comes to, for any clients, cells, edits and socket       *)
(* sizes: its threads, streams and buffers implement the SharedPicture,    *)
(* and where every command is read by itself, all clients show the         *)
(* master's picture once the streams are empty.                            *)
(***************************************************************************)
EXTENDS SessionProofs

-----------------------------------------------------------------------------
(* The picture that a state of the session stands for *)

Drew == [k \in Authored |-> local[AuthorOf[k]][k]]
Stored == [k \in Authored |-> canvas[k]]
OfOthers(c) == {k \in Authored : AuthorOf[k] # c}
Shows(c) == IF Online(c) THEN [k \in OfOthers(c) |-> local[c][k]] ELSE None
Shown == [c \in Clients |-> Shows(c)]

LEMMA Authors ==
  /\ Authored \subseteq SingleAuthor /\ Authored \subseteq Cells
  /\ \A k \in Authored : AuthorOf[k] \in Clients /\ k \in Writes[AuthorOf[k]]
  /\ \A k \in Authored, c \in Clients : k \in Writes[c] => AuthorOf[k] = c
BY DEF Authored, AuthorOf, SingleAuthor

(* A client that is not in is told apart from what one that is in shows.    *)
LEMMA Present ==
  ASSUME Kept, NEW c \in Clients
  PROVE  /\ Shows(c) # None <=> Online(c)
         /\ Online(c) => Shows(c) \in [OfOthers(c) -> Nat]
<1>1. OfOthers(c) \subseteq Cells
  BY Authors DEF OfOthers
<1>2. \A k \in Cells : local[c][k] \in Nat
  BY SessionAssumption DEF Kept, TypeOK, Canvases, Values
<1>3. [k \in OfOthers(c) |-> local[c][k]] \in [OfOthers(c) -> Nat]
  BY <1>1, <1>2
<1>4. None \notin [OfOthers(c) -> Nat]
  BY <1>1, SessionAssumption
<1> QED
  BY <1>3, <1>4 DEF Shows

LEMMA DrawMaps ==
  ASSUME NEW k \in Authored, Drew'[k] \in Nat, Drew'[k] > Drew[k],
         Drew' = [Drew EXCEPT ![k] = Drew'[k]], UNCHANGED <<Stored, Shown>>
  PROVE  Picture!Next
BY DEF Picture!Next, Picture!Draw, Drew, Stored, Shown, Shows, OfOthers

LEMMA StoreMaps ==
  ASSUME NEW k \in Authored, Stored'[k] \in Stored[k] + 1 .. Drew[k],
         Stored' = [Stored EXCEPT ![k] = Stored'[k]], UNCHANGED <<Drew, Shown>>
  PROVE  Picture!Next
BY DEF Picture!Next, Picture!Store, Drew, Stored, Shown, Shows, OfOthers

LEMMA ShowMaps ==
  ASSUME NEW c \in Clients, NEW k \in OfOthers(c), Shown[c] # None, Shown'[c] # None,
         Shown'[c][k] \in Shown[c][k] + 1 .. Stored[k],
         Shown' = [Shown EXCEPT ![c][k] = Shown'[c][k]], UNCHANGED <<Drew, Stored>>
  PROVE  Picture!Next
BY DEF Picture!Next, Picture!Show, Picture!Others, Drew, Stored, Shown, Shows, OfOthers

LEMMA EnterMaps ==
  ASSUME NEW c \in Clients, Shown[c] = None, Shown'[c] \in [OfOthers(c) -> Nat],
         \A k \in OfOthers(c) : Shown'[c][k] <= Stored[k],
         Shown' = [Shown EXCEPT ![c] = Shown'[c]], UNCHANGED <<Drew, Stored>>
  PROVE  Picture!Next
BY DEF Picture!Next, Picture!Enter, Picture!Others, Drew, Stored, Shown, Shows, OfOthers

LEMMA LeaveMaps ==
  ASSUME NEW c \in Clients, Shown[c] # None,
         Shown' = [Shown EXCEPT ![c] = None], UNCHANGED <<Drew, Stored>>
  PROVE  Picture!Next
BY DEF Picture!Next, Picture!Leave, Drew, Stored, Shown, Shows, OfOthers

LEMMA StutterMaps ==
  ASSUME UNCHANGED <<Drew, Stored, Shown>>
  PROVE  UNCHANGED Picture!vars
BY DEF Picture!vars, Drew, Stored, Shown, Shows, OfOthers

(* Only what client c draws, shows, or whether it is in, has changed.       *)
LEMMA OneMoves ==
  ASSUME NEW c \in Clients,
         \A d \in Clients : d # c => (Online(d)' <=> Online(d)) /\ local'[d] = local[d]
  PROVE  /\ Shown' = [Shown EXCEPT ![c] = Shows(c)']
         /\ (\A k \in Authored : AuthorOf[k] = c => local'[c][k] = local[c][k])
              => Drew' = Drew
         /\ (Online(c)' <=> Online(c))
              /\ (\A k \in OfOthers(c) : local'[c][k] = local[c][k]) => Shown' = Shown
<1>1. \A d \in Clients : d # c => Shows(d)' = Shows(d)
  BY DEF Shows, OfOthers
<1>2. Shown' = [Shown EXCEPT ![c] = Shows(c)']
  BY <1>1 DEF Shown
<1>3. \A k \in Authored : AuthorOf[k] # c => local'[AuthorOf[k]] = local[AuthorOf[k]]
  BY Authors
<1>4. ASSUME \A k \in Authored : AuthorOf[k] = c => local'[c][k] = local[c][k]
      PROVE  Drew' = Drew
  BY <1>3, <1>4 DEF Drew
<1>5. ASSUME Online(c)' <=> Online(c), \A k \in OfOthers(c) : local'[c][k] = local[c][k]
      PROVE  Shown' = Shown
  <2>1. Shows(c)' = Shows(c)
    BY <1>5 DEF Shows, OfOthers
  <2> QED
    BY <1>1, <2>1 DEF Shown
<1> QED
  BY <1>2, <1>4, <1>5

(* A step at which at most one client drops out *)
LEMMA DropMaps ==
  ASSUME Kept, NEW c \in Clients, Online(c)' => Online(c),
         \A d \in Clients : d # c => (Online(d)' <=> Online(d)), UNCHANGED <<canvas, local>>
  PROVE  Picture!Next \/ UNCHANGED Picture!vars
<1>1. UNCHANGED <<Drew, Stored>>
  BY OneMoves DEF Stored
<1>2. CASE Online(c)' <=> Online(c)
  BY <1>1, <1>2, OneMoves, StutterMaps
<1>3. CASE Online(c) /\ ~Online(c)'
  <2>1. Shown[c] # None
    BY <1>3, Present DEF Shown
  <2>2. Shown' = [Shown EXCEPT ![c] = None]
    BY <1>3, OneMoves DEF Shows
  <2> QED
    BY <1>1, <2>1, <2>2, LeaveMaps
<1> QED
  BY <1>2, <1>3

(* What a client loads has nothing of its own cells. *)
LEMMA OwnCellsLoaded ==
  ASSUME SInv, NEW c \in Clients, Starting(c), NEW k \in SingleAuthor, k \in Writes[c],
         NEW t \in Tokens, t.kind = "cells", Mark(t, k) \subseteq Marks(Stream(c), k)
  PROVE  t.cells[k] = 0 /\ local[c][k] = 0 /\ canvas[k] = 0
<1>1. Kept /\ k \in Cells
  BY DEF SInv, SingleAuthor
<1>2. canvas[k] = 0 /\ local[c][k] = 0
  BY DEF SInv, InOrderAt, Drawn
<1>3. t.cells[k] \in Mark(t, k)
  BY <1>1, TokenKinds DEF Mark, Canvases
<1>4. t.cells[k] \in Nat /\ t.cells[k] <= canvas[k]
  BY <1>1, <1>3, Numbers DEF SInv, InOrderAt, OnTheWayDown
<1> QED
  BY <1>2, <1>4

(* A step at which a client has loaded the canvas and comes in: it brings   *)
(* no stroke of its own, and none that the master has not had.              *)
LEMMA EntranceMaps ==
  ASSUME SInv, SInv', Next, NEW c \in Clients, Online(c)', ~Online(c)
  PROVE  Picture!Next
<1>1. Kept /\ Kept'
  BY DEF SInv
<1> DEFINE t == Line(c)
<1>0. /\ t \in Tokens /\ t.kind = "cells" /\ local' = [local EXCEPT ![c] = t.cells]
      /\ \A k : Mark(t, k) \subseteq Marks(Stream(c), k)
  BY <1>1, Entering DEF Marks
<1>2. /\ Starting(c) /\ local'[c] = t.cells /\ UNCHANGED canvas
      /\ \A d \in Clients : d # c => (Online(d)' <=> Online(d)) /\ local'[d] = local[d]
  <2>1. /\ cpc[c] \in {"await_vok", "await_cs", "await_canvas"}
        /\ \E label : cpc' = [cpc EXCEPT ![c] = label]
        /\ \A d \in Clients : d # c => (d \in garbled' <=> d \in garbled)
        /\ UNCHANGED canvas
    BY <1>1, Entering DEF ReadCanvas, HandshakeEnds, Deserialize, CGoto, serverVars
  <2>2. \A d \in Clients : d # c => cpc'[d] = cpc[d]
    BY <1>1, <2>1 DEF Kept, TypeOK
  <2> QED
    BY <1>0, <1>1, <2>1, <2>2 DEF Online, Networked, Starting, Kept, TypeOK
<1> HIDE DEF t
<1>3. ASSUME NEW k \in Authored, AuthorOf[k] = c PROVE local'[c][k] = local[c][k]
  BY <1>0, <1>2, <1>3, Authors, OwnCellsLoaded
<1>4. UNCHANGED <<Drew, Stored>>
  BY <1>2, <1>3, OneMoves DEF Stored
<1>5. Shown[c] = None /\ Shown'[c] = Shows(c)' /\ Shown' = [Shown EXCEPT ![c] = Shown'[c]]
  BY <1>2, OneMoves DEF Shown, Shows
<1>6. Shown'[c] \in [OfOthers(c) -> Nat]
  <2>1. OfOthers(c) \subseteq Cells /\ t.cells \in Canvases
    BY <1>0, Authors, TokenKinds DEF OfOthers
  <2>2. \A k \in Cells : local'[c][k] \in Nat
    BY <1>2, <2>1, SessionAssumption DEF Canvases, Values
  <2>3. Shows(c)' = [k \in OfOthers(c) |-> local'[c][k]]
    BY <1>2 DEF Shows, OfOthers
  <2> QED
    BY <1>5, <2>1, <2>2, <2>3
<1>7. ASSUME NEW k \in OfOthers(c) PROVE Shown'[c][k] <= Stored[k]
  <2>1. k \in Authored /\ k \in SingleAuthor /\ k \notin Writes[c]
    BY Authors DEF OfOthers
  <2>2. local'[c][k] <= canvas'[k]
    BY <1>2, <2>1 DEF SInv, InOrderAt, Viewed
  <2>3. Shown'[c][k] = local'[c][k]
    BY <1>2, <1>5 DEF Shows, OfOthers
  <2> QED
    BY <1>2, <2>1, <2>2, <2>3 DEF Stored
<1> QED
  BY <1>4, <1>5, <1>6, <1>7, EnterMaps

(* The thread's write to the master canvas: a stroke of the cell's author,  *)
(* no older than the one there.                                             *)
LEMMA StoredMaps ==
  ASSUME SInv, NEW c \in Clients, ReadSet(c)
  PROVE  Picture!Next \/ UNCHANGED Picture!vars
<1>1. Kept
  BY DEF SInv
<1>2. PICK n \in 1 .. Len(up[c]), x \in Cells, v \in Values :
             /\ up[c] \in Seq(Updates) /\ up[c][1] = Update(x, v)
             /\ canvas' = [canvas EXCEPT ![x] = v]
  BY <1>1, FirstUpdate
<1>3. UNCHANGED <<local, cpc, garbled>>
  BY DEF ReadSet, clientVars
<1>4. UNCHANGED <<Drew, Shown>>
  BY <1>3 DEF Drew, Shown, Shows, OfOthers, Online, Networked
<1>5. \A k \in Authored : k \in Cells /\ Stored[k] = canvas[k]
                          /\ Stored'[k] = IF k = x THEN v ELSE canvas[k]
  BY <1>1, <1>2, Authors DEF Stored, Kept, TypeOK, Canvases
<1>6. CASE x \in Authored /\ v # canvas[x]
  <2>1. x \in SingleAuthor
    BY <1>6, Authors
  <2>2. v \in Strokes(up[c], x)
    <3>1. 1 \in DOMAIN up[c]
      BY <1>2, LenProperties
    <3>2. v \in Stroke(up[c][1], x)
      BY <1>2 DEF Stroke, Update
    <3> QED
      BY <3>1, <3>2 DEF Strokes
  <2>3. x \in Writes[c] /\ canvas[x] <= v /\ v <= local[c][x]
    BY <2>1, <2>2 DEF SInv, InOrderAt, OnTheWayUp
  <2>4. AuthorOf[x] = c
    BY <1>6, <2>3, Authors
  <2>5. /\ canvas[x] \in Nat /\ v \in Nat /\ local[c][x] \in Nat
    BY <1>1, <1>2, <2>1, Numbers, SessionAssumption DEF Values
  <2>6. v \in canvas[x] + 1 .. local[c][x]
    BY <1>6, <2>3, <2>5
  <2>7. Stored'[x] \in Stored[x] + 1 .. Drew[x]
    BY <1>5, <1>6, <2>4, <2>6 DEF Drew
  <2>8. Stored' = [Stored EXCEPT ![x] = Stored'[x]]
    BY <1>5, <1>6 DEF Stored
  <2> QED
    BY <1>4, <1>6, <2>7, <2>8, StoreMaps
<1>7. CASE ~(x \in Authored /\ v # canvas[x])
  <2>1. Stored' = Stored
    BY <1>5, <1>7 DEF Stored
  <2> QED
    BY <1>4, <2>1, StutterMaps
<1> QED
  BY <1>6, <1>7

(* The editor's own stroke *)
LEMMA DrawnMaps ==
  ASSUME SInv, NEW c \in Clients, NEW x \in Writes[c], Edit(c, x)
  PROVE  Picture!Next \/ UNCHANGED Picture!vars
<1>1. Kept
  BY DEF SInv
<1>2. /\ edits' = edits + 1 /\ local' = [local EXCEPT ![c][x] = edits']
      /\ UNCHANGED canvas /\ x \in Cells
      /\ \A d \in Clients : Online(d)' <=> Online(d)
  BY <1>1, SessionAssumption DEF Edit, CGoto, serverVars, Online, Networked, Kept, TypeOK
<1>3. \A d \in Clients : d # c => local'[d] = local[d]
  BY <1>2 DEF Kept, TypeOK
<1>4. \A k \in Cells : local'[c][k] = IF k = x THEN edits + 1 ELSE local[c][k]
  BY <1>1, <1>2 DEF Kept, TypeOK, Canvases
<1>5. \A k \in OfOthers(c) : k # x /\ k \in Cells
  BY Authors DEF OfOthers
<1>6. UNCHANGED <<Stored, Shown>>
  BY <1>2, <1>3, <1>4, <1>5, OneMoves DEF Stored
<1>7. CASE x \in Authored
  <2>1. x \in SingleAuthor /\ AuthorOf[x] = c
    BY <1>7, Authors
  <2>2. edits \in Nat /\ local[c][x] \in Nat /\ local[c][x] <= edits
    BY <1>1, <2>1, Numbers DEF SInv, InOrderAt, Drawn
  <2>3. \A k \in Authored : Drew'[k] = IF k = x THEN edits + 1 ELSE Drew[k]
    BY <1>2, <1>3, <1>4, <2>1, Authors DEF Drew
  <2>4. Drew' = [Drew EXCEPT ![x] = Drew'[x]]
    BY <2>3 DEF Drew
  <2>5. Drew'[x] \in Nat /\ Drew'[x] > Drew[x]
    BY <1>7, <2>1, <2>2, <2>3 DEF Drew
  <2> QED
    BY <1>6, <1>7, <2>4, <2>5, DrawMaps
<1>8. CASE x \notin Authored
  <2>1. Drew' = Drew
    BY <1>2, <1>3, <1>4, <1>8, Authors, OneMoves
  <2> QED
    BY <1>6, <2>1, StutterMaps
<1> QED
  BY <1>7, <1>8

(* An update that net_handler() shows: a stroke of another's, which the     *)
(* master has had, no older than the one on the screen.                     *)
LEMMA ShownMaps ==
  ASSUME SInv, NEW c \in Clients, Receive(c), SetCell(c, Line(c)), Online(c)
  PROVE  Picture!Next \/ UNCHANGED Picture!vars
<1>1. Kept
  BY DEF SInv
<1>2. PICK x \in Cells, v \in Values :
             Line(c) = Update(x, v) /\ local' = [local EXCEPT ![c][x] = v]
  <2>1. Line(c) \in Tokens
    BY <1>1, GetlineStream DEF Receive, Kept
  <2> QED
    BY <1>1, <2>1, CellSet
<1>3. cpc' = [cpc EXCEPT ![c] = "online"] /\ UNCHANGED <<canvas, garbled>>
  BY DEF Receive, SetCell, CGoto, serverVars
<1>4. \A d \in Clients : (Online(d)' <=> Online(d)) /\ (d # c => local'[d] = local[d])
  BY <1>1, <1>2, <1>3 DEF Online, Networked, Kept, TypeOK
<1>5. \A k \in Cells : local'[c][k] = IF k = x THEN v ELSE local[c][k]
  BY <1>1, <1>2 DEF Kept, TypeOK, Canvases
<1>6. x \in SingleAuthor => /\ x \notin Writes[c] /\ v \in Marks(Stream(c), x)
                            /\ local[c][x] <= v
  <2>1. Line(c) = Stream(c)[1] /\ 1 \in DOMAIN Stream(c)
    BY <1>1, GetlineStream DEF Kept, Receive
  <2>2. v \in Stroke(Line(c), x)
    BY <1>2 DEF Update, Stroke
  <2>3. v \in Strokes(Stream(c), x)
    BY <2>1, <2>2 DEF Strokes
  <2> QED
    BY <1>1, <1>3, <2>3, Numbers DEF SInv, InOrderAt, OnTheWayDown, Viewed
<1>7. UNCHANGED <<Drew, Stored>>
  <2>1. \A k \in Authored : AuthorOf[k] = c => local'[c][k] = local[c][k]
    BY <1>5, <1>6, Authors
  <2> QED
    BY <1>3, <1>4, <2>1, OneMoves DEF Stored
<1>8. CASE x \in Authored /\ v # local[c][x]
  <2>1. x \in SingleAuthor /\ x \in OfOthers(c)
    BY <1>6, <1>8, Authors DEF OfOthers
  <2>2. /\ local[c][x] \in Nat /\ canvas[x] \in Nat /\ v \in Nat
        /\ local[c][x] <= v /\ v <= canvas[x]
    BY <1>1, <1>6, <2>1, Numbers DEF SInv, InOrderAt, OnTheWayDown
  <2>3. Shown[c] = [k \in OfOthers(c) |-> local[c][k]]
        /\ Shown'[c] = [k \in OfOthers(c) |-> local'[c][k]]
    BY <1>3, <1>4 DEF Shown, Shows, OfOthers
  <2>4. Shown[c] # None /\ Shown'[c] # None
    <3>1. OfOthers(c) \subseteq Cells
      BY Authors DEF OfOthers
    <3>2. \A k \in Cells : local[c][k] \in Nat /\ local'[c][k] \in Nat
      BY <1>1, <1>2, <1>5, SessionAssumption DEF Kept, TypeOK, Canvases, Values
    <3>3. Shown[c] \in [OfOthers(c) -> Nat] /\ Shown'[c] \in [OfOthers(c) -> Nat]
      BY <2>3, <3>1, <3>2
    <3> QED
      BY <3>1, <3>3, SessionAssumption
  <2>5. v \in local[c][x] + 1 .. canvas[x]
    BY <1>8, <2>2
  <2>6. Shown'[c][x] \in Shown[c][x] + 1 .. Stored[x]
    BY <1>2, <1>5, <1>8, <2>1, <2>3, <2>5 DEF Stored
  <2>7. Shown' = [Shown EXCEPT ![c][x] = Shown'[c][x]]
    <3>1. OfOthers(c) \subseteq Cells
      BY Authors DEF OfOthers
    <3>2. Shown'[c] = [Shown[c] EXCEPT ![x] = Shown'[c][x]]
      BY <1>5, <2>3, <3>1
    <3>3. Shown' = [Shown EXCEPT ![c] = Shown'[c]]
      BY <1>4, OneMoves DEF Shown
    <3> QED
      BY <3>2, <3>3
  <2> QED
    BY <1>7, <2>1, <2>4, <2>6, <2>7, ShowMaps
<1>9. CASE ~(x \in Authored /\ v # local[c][x])
  <2>1. \A k \in OfOthers(c) : local'[c][k] = local[c][k]
    BY <1>5, <1>9, Authors DEF OfOthers
  <2>2. Shown' = Shown
    BY <1>4, <2>1, OneMoves
  <2> QED
    BY <1>7, <2>2, StutterMaps
<1> QED
  BY <1>8, <1>9

(* net_handler() on any other line, or of a client that is not shown        *)
LEMMA HandledMaps ==
  ASSUME SInv, NEW c \in Clients, Receive(c) \/ ReceiveEnd(c),
         ~(Receive(c) /\ SetCell(c, Line(c)) /\ Online(c))
  PROVE  Picture!Next \/ UNCHANGED Picture!vars
<1>1. Kept
  BY DEF SInv
<1>2. PICK line \in Tokens \cup {msgBuf[c]} :
        /\ NetHandler(c, line)
        /\ \/ line = msgBuf[c] /\ (line.kind = "s" => c \in garbled)
           \/ line = Line(c) /\ HasLine(c) /\ Getline(c)
           \/ line.kind = "cells"
  BY <1>1, ReceivedLine
<1>3. /\ SetCell(c, line) \/ UNCHANGED local
      /\ \E label \in {"online", "offline", "dead"} : cpc' = [cpc EXCEPT ![c] = label]
      /\ garbled' = garbled \/ garbled' = garbled \cup {c}
      /\ Networked(c) /\ UNCHANGED canvas
  BY <1>1, <1>2, HandledLine, ReceivedLine DEF Receive, ReceiveEnd, serverVars
<1>4. /\ Online(c)' => Online(c)
      /\ \A d \in Clients : d # c => (Online(d)' <=> Online(d))
  BY <1>1, <1>3 DEF Online, Networked, Kept, TypeOK
<1>5. CASE UNCHANGED local
  BY <1>1, <1>3, <1>4, <1>5, DropMaps
<1>6. CASE SetCell(c, line)
  <2>1. line.kind = "s" /\ UNCHANGED garbled
    BY <1>6 DEF SetCell
  <2>2. ~Online(c)
    <3>1. CASE line = Line(c) /\ HasLine(c)
      BY <1>6, <3>1 DEF ReceiveEnd
    <3> QED
      BY <1>2, <2>1, <3>1 DEF Online
  <2>3. \A d \in Clients : d # c => local'[d] = local[d]
    BY <1>1, <1>6 DEF SetCell, Kept, TypeOK
  <2>4. \A k \in Authored : AuthorOf[k] = c => local'[c][k] = local[c][k]
    BY <1>1, OwnCellsKept, Authors DEF SInv
  <2>5. Drew' = Drew /\ Shown' = [Shown EXCEPT ![c] = Shows(c)']
    BY <1>4, <2>3, <2>4, OneMoves
  <2>6. Shown' = Shown
    BY <1>4, <2>2, <2>5 DEF Shows, Shown
  <2> QED
    BY <1>3, <2>5, <2>6, StutterMaps DEF Stored
<1> QED
  BY <1>3, <1>5, <1>6

LEMMA PictureStep ==
  ASSUME SInv, SInv', Next
  PROVE  Picture!Next \/ UNCHANGED Picture!vars
<1> DEFINE Maps == Picture!Next \/ UNCHANGED Picture!vars
<1> USE DEF bufVars, sendVars, clientVars, serverVars, ServerEnds, CGoto, SGoto, SAt
<1>1. Kept
  BY DEF SInv
<1> HIDE DEF Maps
<1>2. ASSUME UNCHANGED <<canvas, local, cpc, garbled>> PROVE Maps
  <2>1. UNCHANGED <<Drew, Stored, Shown>>
    BY <1>2 DEF Drew, Stored, Shown, Shows, OfOthers, Online, Networked
  <2> QED
    BY <2>1, StutterMaps DEF Maps
<1>3. ASSUME NEW c \in Clients, NEW label, cpc' = [cpc EXCEPT ![c] = label],
             label \in {"online", "reading", "writing"} => Networked(c),
             UNCHANGED <<canvas, local, garbled>>
      PROVE  Maps
  <2>1. Online(c)' => Online(c)
    BY <1>1, <1>3 DEF Online, Networked, Kept, TypeOK
  <2>2. \A d \in Clients : d # c => (Online(d)' <=> Online(d))
    BY <1>1, <1>3 DEF Online, Networked, Kept, TypeOK
  <2> QED
    BY <1>1, <1>3, <2>1, <2>2, DropMaps DEF Maps
<1>4. ASSUME NEW c \in Clients, ThreadStep(c) PROVE Maps
  <2>1. CASE ReadSet(c)
    BY <2>1, StoredMaps DEF Maps
  <2>2. CASE ~ReadSet(c)
    <3>1. UNCHANGED <<canvas, local, cpc, garbled>>
      BY <1>4, <2>2 DEF ThreadStep, SendVok, SendSize, LoadCell, StoreCell, SendCells,
            SendNewline, WriteSelf, SendLock, SendTo, LoopWrite, SendUnlock, EndThread
    <3> QED
      BY <1>2, <3>1
  <2> QED
    BY <2>1, <2>2
<1>5. ASSUME NEW c \in Clients, ReadVok(c) \/ ReadSize(c) PROVE Maps
  <2>1. \E label \in {"await_cs", "await_canvas", "dead"} : cpc' = [cpc EXCEPT ![c] = label]
    BY <1>5 DEF ReadVok, ReadSize, Expect
  <2>2. UNCHANGED <<canvas, local, garbled>>
    BY <1>5 DEF ReadVok, ReadSize, Expect
  <2> QED
    BY <1>3, <2>1, <2>2
<1>6. ASSUME NEW c \in Clients, ReadCanvas(c) \/ HandshakeEnds(c) PROVE Maps
  <2>1. CASE Online(c)' /\ ~Online(c)
    BY <2>1, EntranceMaps DEF Maps
  <2>2. CASE cpc' = [cpc EXCEPT ![c] = "dead"] /\ UNCHANGED <<local, garbled>>
    <3>1. UNCHANGED canvas
      BY <1>6 DEF ReadCanvas, HandshakeEnds
    <3> QED
      BY <1>3, <2>2, <3>1
  <2>3. CASE ~Online(c)' /\ \E line : Deserialize(c, line) /\ line.kind # "cells"
    <3>1. /\ UNCHANGED <<canvas, local>> /\ cpc' = [cpc EXCEPT ![c] = "online"]
          /\ garbled' = garbled \cup {c}
      BY <1>6, <2>3 DEF ReadCanvas, HandshakeEnds, Deserialize
    <3>2. \A d \in Clients : d # c => (Online(d)' <=> Online(d))
      BY <1>1, <3>1 DEF Online, Networked, Kept, TypeOK
    <3> QED
      BY <1>1, <2>3, <3>1, <3>2, DropMaps DEF Maps
  <2>4. ~Online(c)
    BY <1>6 DEF ReadCanvas, HandshakeEnds, Online, Networked
  <2>5. ASSUME ~Online(c)', NEW line \in Tokens, Deserialize(c, line), line.kind = "cells",
               cpc[c] = "await_canvas", \A k : Mark(line, k) \subseteq Marks(Stream(c), k)
        PROVE  Maps
    <3>1. /\ cpc' = [cpc EXCEPT ![c] = "online"] /\ UNCHANGED <<canvas, garbled>>
          /\ local' = [local EXCEPT ![c] = line.cells]
      BY <1>6, <2>5 DEF ReadCanvas, HandshakeEnds, Deserialize
    <3>2. /\ \A d \in Clients : d # c => (Online(d)' <=> Online(d)) /\ local'[d] = local[d]
          /\ local'[c] = line.cells
      BY <1>1, <3>1 DEF Online, Networked, Kept, TypeOK
    <3>3. \A k \in Authored : AuthorOf[k] = c => local'[c][k] = local[c][k]
      BY <2>5, <3>2, Authors, OwnCellsLoaded DEF Starting
    <3>4. Drew' = Drew /\ Shown' = [Shown EXCEPT ![c] = Shows(c)']
      BY <3>2, <3>3, OneMoves
    <3>5. Shown' = Shown
      BY <2>4, <2>5, <3>4 DEF Shows, Shown
    <3> QED
      BY <3>1, <3>4, <3>5, StutterMaps DEF Stored, Maps
  <2>6. \/ cpc' = [cpc EXCEPT ![c] = "dead"] /\ UNCHANGED <<local, garbled>>
        \/ \E line \in Tokens :
             /\ cpc[c] = "await_canvas" /\ Deserialize(c, line)
             /\ line.kind = "cells" => \A k : Mark(line, k) \subseteq Marks(Stream(c), k)
    <3>1. CASE ReadCanvas(c)
      BY <1>1, <3>1, GetlineStream DEF ReadCanvas, Kept, Marks
    <3>2. Plain("cs") \in Tokens /\ Plain("cs").kind # "cells"
      BY TokenKinds DEF Plain
    <3>3. CASE HandshakeEnds(c)
      BY <1>1, <3>2, <3>3, UnendedLine DEF HandshakeEnds, LastLine, Kept, Marks
    <3> QED
      BY <1>6, <3>1, <3>3
  <2> QED
    BY <2>1, <2>2, <2>3, <2>4, <2>5, <2>6
<1>8. ASSUME NEW c \in Clients, Receive(c) \/ ReceiveEnd(c) PROVE Maps
  <2>1. CASE Receive(c) /\ SetCell(c, Line(c)) /\ Online(c)
    BY <2>1, ShownMaps DEF Maps
  <2>2. CASE ~(Receive(c) /\ SetCell(c, Line(c)) /\ Online(c))
    BY <1>8, <2>2, HandledMaps DEF Maps
  <2> QED
    BY <2>1, <2>2
<1>9. ASSUME NEW c \in Clients, AwaitRest(c) \/ Written(c) \/ ResizeTerminal(c)
      PROVE  Maps
  <2>1. /\ \E label \in {"online", "reading", "dead"} : cpc' = [cpc EXCEPT ![c] = label]
        /\ UNCHANGED <<canvas, local, garbled>> /\ Networked(c)
    BY <1>9 DEF AwaitRest, Written, ResizeTerminal, Networked
  <2> QED
    BY <1>3, <2>1
<1>10. ASSUME NEW c \in Clients, Leave(c) \/ Join(c) PROVE Maps
  <2>1. /\ \E label \in {"dead", "await_vok"} : cpc' = [cpc EXCEPT ![c] = label]
        /\ UNCHANGED <<canvas, local, garbled>>
    BY <1>10 DEF Leave, Join
  <2> QED
    BY <1>3, <2>1
<1>11. ASSUME NEW c \in Clients, NEW x \in Writes[c], Edit(c, x) PROVE Maps
  BY <1>11, DrawnMaps DEF Maps
<1>12. ASSUME Interrupt \/ HandlerStep \/ Halt PROVE Maps
  <2>1. UNCHANGED <<canvas, local, cpc, garbled>>
    BY <1>12 DEF Interrupt, HandlerStep, FinishTo, LoopWrite, Exit, Halt, vars
  <2> QED
    BY <1>2, <2>1
<1> QED
  BY <1>4, <1>5, <1>6, <1>8, <1>9, <1>10, <1>11, <1>12 DEF Next, ClientRead, Maps

LEMMA PictureInit == Init => Picture!Init
<1> SUFFICES ASSUME Init PROVE Picture!Init
  OBVIOUS
<1>1. \A k \in Authored : k \in Cells /\ AuthorOf[k] \in Clients
  BY Authors
<1>2. \A c \in Clients, k \in Authored : local[c][k] = 0 /\ canvas[k] = 0
  BY <1>1 DEF Init
<1>3. Drew = [k \in Authored |-> 0] /\ Stored = [k \in Authored |-> 0]
  BY <1>1, <1>2 DEF Drew, Stored
<1>4. \A c \in Clients : Shown[c] \in [OfOthers(c) -> {0}] \cup {None}
  BY <1>2 DEF Shown, Shows, OfOthers
<1>5. Shown = [c \in Clients |-> Shown[c]]
  BY DEF Shown
<1> QED
  BY <1>3, <1>4, <1>5 DEF Picture!Init, Picture!Others, Drew, Stored, Shown, Shows, OfOthers

(* Threads, streams and buffers, and clients that join, leave, are cut off  *)
(* or draw in any order, come to no more than the SharedPicture: an         *)
(* author's strokes reach the master and then the viewers, one at a time    *)
(* and in the order drawn.                                                  *)
THEOREM SessionImplementsPicture == Spec => ImplementsPicture
<1>1. SInv /\ SInv' /\ [Next]_vars => Picture!Next \/ UNCHANGED Picture!vars
  <2>1. UNCHANGED vars => UNCHANGED <<Drew, Stored, Shown>>
    BY DEF vars, Drew, Stored, Shown, Shows, OfOthers, Online, Networked
  <2> QED
    BY <2>1, PictureStep, StutterMaps
<1>2. SInv /\ SInv' /\ [Next]_vars => [Picture!Next]_(Picture!vars)
  BY <1>1
<1>3. Spec => Picture!Spec
  BY <1>2, PictureInit, SessionOrder, PTL DEF Spec, Picture!Spec
<1> QED
  BY <1>3 DEF ImplementsPicture

-----------------------------------------------------------------------------
(* What a client has yet to be told, while the server runs *)

In(s) == {s[i] : i \in DOMAIN s}

Awaits(c) == cpc[c] \in {"await_vok", "await_cs", "await_canvas"}
Reads(c) == Online(c) \/ Awaits(c)

(* The master's stroke is on its way to c: in its stream, or with a thread  *)
(* that has yet to write to it.                                             *)
Sending(d, c) == spc[d] = "lock" \/ (spc[d] = "send" /\ c \in todo)
Coming(c, k) == \/ canvas[k] \in Strokes(Stream(c), k)
                \/ \E d \in Clients : Sending(d, c) /\ Mark(pending[d], k) # {}

(* It will read the newline of the canvas on its own, and crash. *)
Breaks(c) == spc[c] = "nl" \/ \E t \in In(Stream(c)) : t.kind = "nl"

(* Who is not closed gets what is sent to all; nobody is written to before  *)
(* he is in the table.                                                      *)
Enrolled(c) == ~Closed(c) => c \in registered
Unheard(c) == cpc[c] = "absent" => Stream(c) = <<>>

(* Its thread has not yet copied anything before it starts to.              *)
Fresh(c) == spc[c] \in {"absent", "vok", "cs"} => left[c] = Cells

(* What the canvas that its thread is copying will show.                    *)
Copy(c, k) == IF k \in DOMAIN held[c].cells THEN held[c].cells[k] ELSE canvasBuf[k]

(* A canvas on its way is followed by its newline, if not directly.         *)
Ended(s) == \A i \in DOMAIN s :
              s[i].kind = "cells" => \E j \in DOMAIN s : j > i /\ s[j].kind = "nl"
EndedAt(c) == Awaits(c) => spc[c] = "nl" \/ Ended(Stream(c))

(* A viewer has the master's stroke, or it is coming, or the client is      *)
(* about to break; so has the canvas that a joining one will load, unless   *)
(* another thread put an older stroke back into the buffer.                 *)
CurrentAt(c, k) == c \notin missed /\ k \notin Writes[c] /\ <<c, k>> \notin clobbered =>
  /\ Online(c) => local[c][k] = canvas[k] \/ Coming(c, k) \/ Breaks(c)
  /\ Awaits(c) =>
       /\ spc[c] = "serialize" /\ k \notin left[c] => Copy(c, k) = canvas[k] \/ Coming(c, k)
       /\ \A t \in In(Stream(c)) :
            t.kind = "cells" => t.cells[k] = canvas[k] \/ Coming(c, k)

Current(c) == /\ Enrolled(c) /\ Unheard(c) /\ Fresh(c) /\ EndedAt(c)
              /\ \A k \in SingleAuthor : CurrentAt(c, k)

CInv == SInv /\ AInv /\ (serverUp => \A c \in Clients : Current(c))

LEMMA InStrokes ==
  ASSUME NEW s, NEW k
  PROVE  Strokes(s, k) = UNION {Stroke(t, k) : t \in In(s)}
BY DEF Strokes, In

LEMMA SameStrokes ==
  ASSUME NEW s, NEW u, NEW A, NEW k, In(s) = A \cup In(u), \A t \in A : Stroke(t, k) = {}
  PROVE  Strokes(s, k) = Strokes(u, k)
BY InStrokes

LEMMA InAppend ==
  ASSUME NEW S, NEW s \in Seq(S), NEW t \in S
  PROVE  /\ In(Append(s, t)) = In(s) \cup {t}
         /\ Ended(s) /\ t.kind # "cells" => Ended(Append(s, t))
         /\ t.kind = "nl" => Ended(Append(s, t))
<1> DEFINE n == Len(s)
           u == Append(s, t)
<1>1. /\ n \in Nat /\ DOMAIN s = 1 .. n /\ DOMAIN u = 1 .. n + 1 /\ u[n + 1] = t
      /\ \A i \in 1 .. n : u[i] = s[i]
  BY AppendProperties, LenProperties
<1> HIDE DEF n, u
<1>2. In(u) = In(s) \cup {t}
  <2>1. DOMAIN u = DOMAIN s \cup {n + 1} /\ \A i \in DOMAIN s : u[i] = s[i]
    BY <1>1
  <2> QED
    BY <1>1, <2>1 DEF In
<1>3. ASSUME t.kind = "nl" PROVE Ended(u)
  BY <1>1, <1>3 DEF Ended
<1>4. ASSUME Ended(s), t.kind # "cells" PROVE Ended(u)
  <2> SUFFICES ASSUME NEW i \in DOMAIN u, u[i].kind = "cells"
               PROVE  \E j \in DOMAIN u : j > i /\ u[j].kind = "nl"
    BY DEF Ended
  <2>1. i \in DOMAIN s /\ s[i].kind = "cells"
    BY <1>1, <1>4
  <2>2. PICK j \in DOMAIN s : j > i /\ s[j].kind = "nl"
    BY <1>4, <2>1 DEF Ended
  <2> QED
    BY <1>1, <2>2
<1> QED
  BY <1>2, <1>3, <1>4 DEF u

LEMMA InRest ==
  ASSUME NEW S, NEW s \in Seq(S), NEW n \in 1 .. Len(s)
  PROVE  /\ In(s) = {s[i] : i \in 1 .. n} \cup In(Rest(s, n))
         /\ Ended(s) => Ended(Rest(s, n))
<1> DEFINE u == Rest(s, n)
           m == Len(s)
<1>1. /\ m \in Nat /\ DOMAIN s = 1 .. m /\ DOMAIN u = 1 .. m - n
      /\ \A i \in 1 .. m - n : u[i] = s[i + n]
      /\ \A i \in 1 .. m : i > n => u[i - n] = s[i]
  <2>1. n \in 0 .. Len(s)
    BY LenProperties
  <2> QED
    BY <2>1, RestIndex
<1> HIDE DEF u, m
<1>2. \A i \in 1 .. m - n : i + n \in 1 .. m
  BY <1>1
<1>3. \A i \in 1 .. m : i \in 1 .. n \/ (i > n /\ i - n \in 1 .. m - n)
  BY <1>1
<1>4. 1 .. n \subseteq 1 .. m
  BY <1>1 DEF m
<1>5. In(s) = {s[i] : i \in 1 .. n} \cup In(u)
  <2>1. In(u) \subseteq In(s)
    BY <1>1, <1>2 DEF In
  <2>2. {s[i] : i \in 1 .. n} \subseteq In(s)
    BY <1>1, <1>4 DEF In
  <2>3. In(s) \subseteq {s[i] : i \in 1 .. n} \cup In(u)
    <3> SUFFICES ASSUME NEW i \in 1 .. m PROVE s[i] \in {s[j] : j \in 1 .. n} \cup In(u)
      BY <1>1 DEF In
    <3>1. CASE i \in 1 .. n
      BY <3>1
    <3>2. CASE i > n /\ i - n \in 1 .. m - n
      BY <1>1, <3>2 DEF In
    <3> QED
      BY <1>3, <3>1, <3>2
  <2> QED
    BY <2>1, <2>2, <2>3
<1>6. ASSUME Ended(s) PROVE Ended(u)
  <2> SUFFICES ASSUME NEW i \in DOMAIN u, u[i].kind = "cells"
               PROVE  \E j \in DOMAIN u : j > i /\ u[j].kind = "nl"
    BY DEF Ended
  <2>1. i + n \in DOMAIN s /\ s[i + n].kind = "cells"
    BY <1>1, <1>2
  <2>2. PICK j \in DOMAIN s : j > i + n /\ s[j].kind = "nl"
    BY <1>6, <2>1 DEF Ended
  <2>3. j > n /\ j - n > i
    BY <1>1, <2>2
  <2>4. j - n \in DOMAIN u /\ u[j - n] = s[j]
    BY <1>1, <1>3, <2>2, <2>3
  <2> QED
    BY <2>2, <2>3, <2>4
<1> QED
  BY <1>5, <1>6 DEF u

-----------------------------------------------------------------------------
(* The steps that leave a client current: nothing is taken from its stream, *)
(* and the master's strokes stay as they were.                              *)

Keeps(c) ==
  /\ EndedAt(c) => EndedAt(c)'
  /\ c \in missed => c \in missed'
  /\ clobbered \subseteq clobbered'
  /\ \A k \in Cells \ Writes[c] : local'[c][k] = local[c][k]
  /\ In(Stream(c)) \subseteq In(Stream(c)')
  /\ \A t \in In(Stream(c)') : t.kind = "cells" =>
       \/ t \in In(Stream(c))
       \/ spc[c] = "serialize" /\ left[c] = {} /\ \A k \in Cells : t.cells[k] = Copy(c, k)
  /\ \A k \in SingleAuthor \ Writes[c] :
       spc'[c] = "serialize" /\ k \notin left'[c] /\ <<c, k>> \notin clobbered' =>
         \/ Copy(c, k)' = canvas[k]
         \/ spc[c] = "serialize" /\ k \notin left[c] /\ Copy(c, k) # canvas[k]
  /\ spc[c] = "nl" => spc'[c] = "nl" \/ \E t \in In(Stream(c)') : t.kind = "nl"
  /\ c \notin missed' => \A d \in Clients \ {c} : Sending(d, c) =>
       \/ Sending(d, c)' /\ pending'[d] = pending[d]
       \/ pending[d] \in In(Stream(c)')

Calm(c) ==
  /\ canvas' = canvas
  /\ Enrolled(c) => Enrolled(c)'
  /\ Unheard(c) => Unheard(c)'
  /\ Fresh(c) => Fresh(c)'
  /\ Online(c)' => Online(c)
  /\ Awaits(c)' => Awaits(c)
  /\ Reads(c)' => Keeps(c)

LEMMA CalmCurrent ==
  ASSUME SInv, NEW c \in Clients, Current(c), Calm(c)
  PROVE  Current(c)'
<1>1. Enrolled(c)' /\ Unheard(c)' /\ Fresh(c)'
  BY DEF Current, Calm
<1>2. EndedAt(c)'
  <2>1. CASE Reads(c)'
    BY <2>1 DEF Current, Calm, Keeps
  <2>2. CASE ~Reads(c)'
    BY <2>2 DEF Reads, EndedAt, Awaits
  <2> QED
    BY <2>1, <2>2
<1>3. ASSUME NEW k \in SingleAuthor PROVE CurrentAt(c, k)'
  <2> DEFINE Owed == c \notin missed' /\ k \notin Writes[c] /\ <<c, k>> \notin clobbered'
  <2>1. CASE ~(Reads(c)' /\ Owed)
    BY <2>1 DEF CurrentAt, Reads
  <2>2. CASE Reads(c)' /\ Owed
    <3>1. /\ Keeps(c) /\ k \in Cells /\ canvas' = canvas /\ local'[c][k] = local[c][k]
          /\ c \notin missed /\ <<c, k>> \notin clobbered
      BY <2>2 DEF Calm, Keeps, SingleAuthor
    <3>2. Coming(c, k) => Coming(c, k)'
      <4>1. Strokes(Stream(c), k) \subseteq Strokes(Stream(c)', k)
        BY <3>1, InStrokes DEF Keeps
      <4>2. ASSUME NEW d \in Clients, Sending(d, c), Mark(pending[d], k) # {}
            PROVE  Coming(c, k)'
        <5>1. k \in Writes[d] /\ Mark(pending[d], k) = {canvas[k]}
          BY <4>2 DEF SInv, InOrderAt, PassedOn
        <5>2. d # c
          BY <2>2, <5>1
        <5>3. CASE Sending(d, c)' /\ pending'[d] = pending[d]
          BY <4>2, <5>3 DEF Coming, Sending
        <5>4. CASE pending[d] \in In(Stream(c)')
          <6>1. pending[d] \in Updates
            BY <4>2 DEF Sending, SInv, Kept, Places
          <6>2. Stroke(pending[d], k) = {canvas[k]}
            BY <5>1, <6>1, TokenMarks
          <6>3. canvas[k] \in Strokes(Stream(c)', k)
            BY <5>4, <6>2, InStrokes
          <6> QED
            BY <3>1, <6>3 DEF Coming
        <5> QED
          BY <2>2, <3>1, <4>2, <5>2, <5>3, <5>4 DEF Keeps
      <4> QED
        BY <3>1, <4>1, <4>2 DEF Coming
    <3>3. Breaks(c) => Breaks(c)'
      BY <3>1 DEF Keeps, Breaks
    <3>4. CurrentAt(c, k)
      BY DEF Current
    <3> HIDE DEF Coming, Breaks
    <3>5. Online(c)' => local'[c][k] = canvas'[k] \/ Coming(c, k)' \/ Breaks(c)'
      BY <2>2, <3>1, <3>2, <3>3, <3>4 DEF CurrentAt, Calm
    <3>6. ASSUME Awaits(c)', spc'[c] = "serialize", k \notin left'[c]
          PROVE  Copy(c, k)' = canvas'[k] \/ Coming(c, k)'
      BY <2>2, <3>1, <3>2, <3>4, <3>6 DEF CurrentAt, Calm, Keeps
    <3>7. ASSUME Awaits(c)', NEW t \in In(Stream(c)'), t.kind = "cells"
          PROVE  t.cells[k] = canvas'[k] \/ Coming(c, k)'
      <4>1. CASE t \in In(Stream(c))
        BY <2>2, <3>1, <3>2, <3>4, <3>7, <4>1 DEF CurrentAt, Calm
      <4>2. CASE spc[c] = "serialize" /\ left[c] = {} /\ t.cells[k] = Copy(c, k)
        BY <2>2, <3>1, <3>2, <3>4, <3>7, <4>2 DEF CurrentAt, Calm
      <4> QED
        BY <3>1, <3>7, <4>1, <4>2 DEF Keeps
    <3> QED
      BY <3>5, <3>6, <3>7 DEF CurrentAt, In
  <2> QED
    BY <2>1, <2>2
<1> QED
  BY <1>1, <1>2, <1>3 DEF Current, SingleAuthor

(* A step that leaves the server and the client's stream as they are        *)
LEMMA StillCalm ==
  ASSUME NEW c \in Clients, UNCHANGED <<canvas, bufVars, todo, pending, missed>>,
         spc'[c] = spc[c],
         \A d \in Clients : spc[d] \in {"lock", "send"} => spc'[d] = spc[d],
         Stream(c)' = Stream(c), registered \subseteq registered',
         cpc'[c] = "absent" => cpc[c] = "absent", Closed(c) => Closed(c)',
         Online(c)' => Online(c), Awaits(c)' => Awaits(c),
         \A k \in Cells \ Writes[c] : local'[c][k] = local[c][k]
  PROVE  Calm(c)
<1> USE DEF bufVars
<1>1. EndedAt(c) => EndedAt(c)'
  BY DEF EndedAt, Ended
<1>2. Keeps(c)
  <2>1. \A d \in Clients : Sending(d, c) => Sending(d, c)'
    BY DEF Sending
  <2>2. In(Stream(c)') = In(Stream(c))
    OBVIOUS
  <2>3. \A k : Copy(c, k)' = Copy(c, k)
    BY DEF Copy
  <2> QED
    BY <1>1, <2>1, <2>2, <2>3 DEF Keeps
<1>3. /\ Enrolled(c) => Enrolled(c)'
      /\ Unheard(c) => Unheard(c)'
      /\ Fresh(c) => Fresh(c)'
  BY DEF Enrolled, Unheard, Fresh
<1> QED
  BY <1>2, <1>3 DEF Calm

(* The greeting's writes: they end up behind all else, and a canvas is      *)
(* followed by its newline.                                                 *)
LEMMA GreetingCalm ==
  ASSUME SInv, NEW d \in Clients, NEW from, NEW token \in Tokens, NEW to,
         WriteSelf(d, from, token, to), serverUp', NEW c \in Clients, Fresh(c),
         from \notin {"absent", "lock", "send"},
         to \notin {"absent", "vok", "lock", "send"},
         to = "cs" => from = "vok", to = "serialize" => from = "cs",
         token.kind = "cells" => /\ from = "serialize" /\ to = "nl" /\ left[d] = {}
                                 /\ \A k \in Cells : token.cells[k] = Copy(d, k),
         from = "nl" => token.kind = "nl"
  PROVE  Calm(c)
<1> USE DEF bufVars, sendVars, clientVars, ServerEnds, SAt, SGoto
<1>1. /\ Kept /\ Streams /\ spc[d] = from /\ spc' = [spc EXCEPT ![d] = to]
      /\ Deliver(d, token)
      /\ UNCHANGED <<canvas, bufVars, registered, mutex, todo, pending, cpc, inbuf, local,
                     garbled, missed>>
  BY DEF SInv, Kept, WriteSelf
<1>2. /\ \A e \in Clients : e # d => Stream(e)' = Stream(e)
      /\ Stream(d)' = IF Closed(d) THEN Stream(d) ELSE Append(Stream(d), token)
  BY <1>1, DeliverStream
<1>3. \A e \in Clients : spc'[e] = IF e = d THEN to ELSE spc[e]
  BY <1>1 DEF Kept, TypeOK
<1>4. \A e \in Clients : Sending(e, c) => Sending(e, c)'
  BY <1>1, <1>3 DEF Sending
<1>5. /\ Online(c)' <=> Online(c)
      /\ Awaits(c)' <=> Awaits(c)
      /\ Closed(c)' <=> Closed(c)
      /\ cpc'[c] = cpc[c]
  BY <1>1 DEF Online, Networked, Awaits, Closed
<1>6. /\ Unheard(c) => Unheard(c)'
      /\ Fresh(c)'
      /\ spc'[c] = "serialize" => spc[c] = "serialize" \/ left'[c] = Cells
  BY <1>1, <1>2, <1>3, <1>5 DEF Unheard, Closed, Fresh
<1>7. Enrolled(c) => Enrolled(c)'
  BY <1>1, <1>5 DEF Enrolled
<1>8. \A k \in SingleAuthor : spc'[c] = "serialize" /\ k \notin left'[c] =>
         \/ Copy(c, k)' = canvas[k]
         \/ spc[c] = "serialize" /\ k \notin left[c] /\ Copy(c, k) # canvas[k]
  BY <1>1, <1>6 DEF Copy, SingleAuthor
<1>9. ASSUME Reads(c) PROVE Keeps(c)
  <2>1. CASE c # d
    <3>1. Stream(c)' = Stream(c) /\ spc'[c] = spc[c]
      BY <1>2, <1>3, <2>1
    <3>2. EndedAt(c) => EndedAt(c)'
      BY <1>5, <3>1 DEF EndedAt, Ended
    <3> QED
      BY <1>1, <1>4, <1>8, <3>1, <3>2 DEF Keeps
  <2>2. CASE c = d
    <3>1. ~Closed(c)
      BY <1>9 DEF Reads, Online, Networked, Awaits, Closed
    <3>2. Stream(c)' = Append(Stream(c), token) /\ spc[c] = from /\ spc'[c] = to
      BY <1>1, <1>2, <1>3, <2>2, <3>1
    <3>3. Stream(c) \in Seq(Tokens)
      BY <1>1, StreamSeq
    <3>4. In(Stream(c)') = In(Stream(c)) \cup {token}
      BY <3>2, <3>3, InAppend
    <3>5. EndedAt(c) => EndedAt(c)'
      <4>1. CASE token.kind = "cells"
        BY <3>2, <4>1 DEF EndedAt
      <4>2. CASE token.kind # "cells" /\ from # "nl"
        <5>1. Ended(Stream(c)) => Ended(Stream(c)')
          BY <3>2, <3>3, <4>2, InAppend
        <5> QED
          BY <1>5, <3>2, <4>2, <5>1 DEF EndedAt, Ended
      <4>3. CASE from = "nl"
        <5>1. Ended(Stream(c)')
          BY <3>2, <3>3, <4>3, InAppend
        <5> QED
          BY <5>1 DEF EndedAt, Ended
      <4> QED
        BY <4>1, <4>2, <4>3
    <3> QED
      BY <1>1, <1>4, <1>8, <2>2, <3>2, <3>4, <3>5 DEF Keeps
  <2> QED
    BY <2>1, <2>2
<1> QED
  BY <1>1, <1>5, <1>6, <1>7, <1>9 DEF Calm, Reads

(* One write of a loop over the table, by a thread or the handler           *)
LEMMA LoopCalm ==
  ASSUME SInv, NEW e \in Clients, NEW token \in Tokens, token.kind # "cells",
         LoopWrite(e, token), NEW c \in Clients,
         \A d \in Clients : spc[d] = "send" => pending[d] = token
  PROVE  Calm(c)
<1> USE DEF bufVars, clientVars
<1>1. /\ Kept /\ Streams
      /\ UNCHANGED <<canvas, bufVars, registered, spc, pending, cpc, inbuf, local, garbled>>
      /\ \/ Deliver(e, token) /\ todo' = todo \ {e} /\ UNCHANGED missed
         \/ /\ todo' = {} /\ UNCHANGED down
            /\ missed' = missed \cup {d \in todo : ~Closed(d)}
  BY DEF SInv, Kept, LoopWrite
<1>2. /\ Online(c)' <=> Online(c)
      /\ Awaits(c)' <=> Awaits(c)
      /\ Closed(c)' <=> Closed(c)
      /\ cpc'[c] = cpc[c]
  BY <1>1 DEF Online, Networked, Awaits, Closed
<1>3. Stream(c)' = Stream(c) \/ (~Closed(c) /\ Stream(c)' = Append(Stream(c), token))
  <2>1. CASE Deliver(e, token)
    BY <1>1, <2>1, DeliverStream
  <2>2. CASE UNCHANGED down
    BY <1>1, <2>2 DEF Stream
  <2> QED
    BY <1>1, <2>1, <2>2
<1>4. Unheard(c) => Unheard(c)'
  BY <1>2, <1>3 DEF Unheard, Closed
<1>5. (Enrolled(c) => Enrolled(c)') /\ (Fresh(c) => Fresh(c)')
  BY <1>1, <1>2 DEF Enrolled, Fresh
<1>6. ASSUME Reads(c) PROVE Keeps(c)
  <2>1. Stream(c) \in Seq(Tokens) /\ ~Closed(c)
    BY <1>1, <1>6, StreamSeq DEF Reads, Online, Networked, Awaits, Closed
  <2>2. /\ In(Append(Stream(c), token)) = In(Stream(c)) \cup {token}
        /\ Ended(Stream(c)) => Ended(Append(Stream(c), token))
    BY <2>1, InAppend
  <2>3. /\ In(Stream(c)') = In(Stream(c)) \/ In(Stream(c)') = In(Stream(c)) \cup {token}
        /\ Ended(Stream(c)) => Ended(Stream(c)')
    BY <1>3, <2>2
  <2>4. EndedAt(c) => EndedAt(c)'
    BY <1>1, <1>2, <2>3 DEF EndedAt, Ended
  <2>5. ASSUME c \notin missed', NEW d \in Clients, Sending(d, c)
        PROVE  \/ Sending(d, c)' /\ pending'[d] = pending[d]
               \/ pending[d] \in In(Stream(c)')
    <3>1. CASE spc[d] = "lock"
      BY <1>1, <3>1 DEF Sending
    <3>2. CASE spc[d] = "send" /\ c \in todo
      <4>1. Deliver(e, token) /\ todo' = todo \ {e}
        BY <1>1, <2>1, <2>5, <3>2
      <4>2. CASE c # e
        BY <1>1, <3>2, <4>1, <4>2 DEF Sending
      <4>3. CASE c = e
        <5>1. Stream(c)' = Append(Stream(c), token)
          BY <1>1, <2>1, <4>1, <4>3, DeliverStream
        <5>2. token \in In(Stream(c)')
          BY <2>1, <5>1, InAppend
        <5> QED
          BY <3>2, <5>2
      <4> QED
        BY <4>2, <4>3
    <3> QED
      BY <2>5, <3>1, <3>2 DEF Sending
  <2>6. \A k : Copy(c, k)' = Copy(c, k)
    BY <1>1 DEF Copy
  <2>7. \A t \in In(Stream(c)') : t.kind = "cells" => t \in In(Stream(c))
    BY <2>3
  <2>8. In(Stream(c)) \subseteq In(Stream(c)')
    BY <2>3
  <2>9. clobbered \subseteq clobbered' /\ (c \in missed => c \in missed')
    BY <1>1
  <2> QED
    BY <1>1, <2>4, <2>5, <2>6, <2>7, <2>8, <2>9 DEF Keeps
<1> QED
  BY <1>1, <1>2, <1>4, <1>5, <1>6 DEF Calm, Reads

(* A cell that is copied is the master's; what another thread writes over   *)
(* it is newer, or the client is marked.                                    *)
LEMMA CopyCalm ==
  ASSUME SInv, NEW d \in Clients, (\E x \in Cells : LoadCell(d, x)) \/ StoreCell(d),
         NEW c \in Clients
  PROVE  Calm(c)
<1> USE DEF sendVars, clientVars, SAt
<1>1. Kept
  BY DEF SInv
<1>2. /\ UNCHANGED <<canvas, registered, todo, spc, pending, cpc, inbuf, down, local, garbled,
                     missed>>
      /\ spc[d] = "serialize" /\ serverUp
  BY DEF LoadCell, StoreCell
<1>3. Stream(c)' = Stream(c)
  BY <1>2 DEF Stream
<1>4. /\ Online(c)' <=> Online(c)
      /\ Awaits(c)' <=> Awaits(c)
      /\ Closed(c)' <=> Closed(c)
      /\ EndedAt(c)' <=> EndedAt(c)
      /\ Unheard(c)' <=> Unheard(c)
      /\ Enrolled(c)' <=> Enrolled(c)
  BY <1>2, <1>3 DEF Online, Networked, Awaits, Closed, EndedAt, Ended, Unheard, Enrolled
<1>5. Fresh(c) => Fresh(c)'
  BY <1>1, <1>2 DEF LoadCell, StoreCell, Fresh, Kept, TypeOK
<1>6. clobbered \subseteq clobbered'
  BY DEF LoadCell, StoreCell
<1>7. ASSUME NEW k \in SingleAuthor, spc[c] = "serialize", k \notin left'[c],
             <<c, k>> \notin clobbered'
      PROVE  Copy(c, k)' = canvas[k] \/ (k \notin left[c] /\ Copy(c, k) # canvas[k])
  <2>1. /\ k \in Cells /\ canvasBuf[k] <= canvas[k]
        /\ \A v \in Mark(held[d], k) : v <= canvas[k]
    BY <1>7 DEF SingleAuthor, SInv, InOrderAt, PassedOn
  <2>2. /\ left \in [Clients -> SUBSET Cells]
        /\ held \in [Clients -> Updates \cup {Plain("none")}]
        /\ canvas \in Canvases /\ canvasBuf \in Canvases
    BY <1>1 DEF Kept, TypeOK
  <2>3. ASSUME NEW x \in Cells, LoadCell(d, x)
        PROVE  Copy(c, k)' = canvas[k] \/ (k \notin left[c] /\ Copy(c, k)' = Copy(c, k))
    <3>1. /\ left' = [left EXCEPT ![d] = @ \ {x}] /\ canvasBuf' = canvasBuf
          /\ held' = [held EXCEPT ![d] = Update(x, canvas[x])]
          /\ held[d] = Plain("none")
      BY <2>3 DEF LoadCell
    <3>2. CASE c # d
      BY <1>7, <2>2, <3>1, <3>2 DEF Copy
    <3>3. CASE c = d /\ k = x
      <4>1. held'[c] = Update(k, canvas[k])
        BY <2>2, <3>1, <3>3
      <4> QED
        BY <4>1 DEF Copy, Update
    <3>4. CASE c = d /\ k # x
      <4>1. held'[c] = Update(x, canvas[x]) /\ k \notin left[c]
        BY <1>7, <2>2, <3>1, <3>4
      <4>2. k \notin DOMAIN held'[c].cells /\ k \notin DOMAIN held[c].cells
        BY <3>1, <3>4, <4>1 DEF Update, Plain
      <4> QED
        BY <3>1, <4>1, <4>2 DEF Copy
    <3> QED
      BY <3>2, <3>3, <3>4
  <2>4. ASSUME StoreCell(d)
        PROVE  k \notin left[c] /\ (Copy(c, k) = canvas[k] => Copy(c, k)' = canvas[k])
    <3>1. PICK x \in DOMAIN held[d].cells :
            /\ canvasBuf' = [canvasBuf EXCEPT ![x] = held[d].cells[x]]
            /\ clobbered' = IF held[d].cells[x] < canvasBuf[x]
                            THEN clobbered \cup (Copied(x) \X {x}) ELSE clobbered
      BY <2>4 DEF StoreCell
    <3>2. /\ left' = left /\ held' = [held EXCEPT ![d] = Plain("none")]
          /\ held[d] \in Updates
      BY <2>2, <2>4 DEF StoreCell
    <3>3. PICK y \in Cells, v \in Values : held[d] = Update(y, v)
      BY <3>2, TokenKinds
    <3>4. x = y /\ held[d].cells[x] = v /\ DOMAIN held[d].cells = {x}
      BY <3>1, <3>3 DEF Update
    <3>5. k \notin left[c]
      BY <1>7, <3>2
    <3>6. CASE k # x
      <4>1. canvasBuf'[k] = canvasBuf[k]
        BY <2>1, <2>2, <3>1, <3>6 DEF Canvases
      <4>2. CASE c = d
        <5>1. k \notin DOMAIN held'[c].cells /\ k \notin DOMAIN held[c].cells
          BY <2>2, <3>2, <3>4, <3>6, <4>2 DEF Plain
        <5> QED
          BY <3>5, <4>1, <5>1 DEF Copy
      <4>3. CASE c # d
        BY <2>2, <3>2, <3>5, <4>1, <4>3 DEF Copy
      <4> QED
        BY <4>2, <4>3
    <3>7. CASE k = x
      <4>1. canvasBuf'[k] = v
        BY <2>1, <2>2, <3>1, <3>4, <3>7 DEF Canvases
      <4>2. CASE c = d
        <5>1. k \notin DOMAIN held'[c].cells /\ k \in DOMAIN held[c].cells
          BY <2>2, <3>2, <3>4, <3>7, <4>2 DEF Plain
        <5> QED
          BY <3>4, <3>5, <3>7, <4>1, <4>2, <5>1 DEF Copy
      <4>3. CASE c # d /\ k \in DOMAIN held[c].cells
        BY <2>2, <3>2, <3>5, <4>3 DEF Copy
      <4>4. CASE c # d /\ k \notin DOMAIN held[c].cells
        <5>1. c \in Copied(k)
          BY <1>2, <1>7, <3>5, <4>4 DEF Copied
        <5>2. ~(v < canvasBuf[k])
          BY <1>7, <3>1, <3>4, <3>7, <5>1
        <5>3. v <= canvas[k] /\ v \in Nat /\ canvasBuf[k] \in Nat /\ canvas[k] \in Nat
          <6>1. v \in Mark(held[d], k)
            BY <3>4, <3>7 DEF Mark
          <6> QED
            BY <2>1, <2>2, <6>1, Numbers, SessionAssumption DEF Canvases, Values
        <5>4. canvasBuf[k] = canvas[k] => v = canvas[k]
          BY <2>1, <5>2, <5>3
        <5>5. Copy(c, k) = canvasBuf[k] /\ Copy(c, k)' = v
          BY <2>2, <3>2, <4>1, <4>4 DEF Copy
        <5> QED
          BY <3>5, <5>4, <5>5
      <4> QED
        BY <4>2, <4>3, <4>4
    <3> QED
      BY <3>6, <3>7
  <2> QED
    BY <2>3, <2>4
<1>8. \A e \in Clients : Sending(e, c) => Sending(e, c)'
  BY <1>2 DEF Sending
<1>9. Reads(c) => Keeps(c)
  BY <1>2, <1>3, <1>4, <1>6, <1>7, <1>8 DEF Keeps
<1> QED
  BY <1>2, <1>4, <1>5, <1>9 DEF Calm, Reads

LEMMA ThreadCalm ==
  ASSUME SInv, serverUp', NEW d \in Clients, ThreadStep(d), ~ReadSet(d),
         NEW c \in Clients, Enrolled(c), Fresh(c)
  PROVE  Calm(c)
<1> USE DEF bufVars, sendVars, clientVars, SAt, SGoto
<1>1. Kept /\ canvasBuf \in Canvases
  BY DEF SInv, Kept, TypeOK
<1>2. CASE SendVok(d) \/ SendSize(d) \/ SendCells(d) \/ SendNewline(d)
  <2>1. /\ Plain("vok") \in Tokens /\ Plain("cs") \in Tokens /\ Plain("nl") \in Tokens
        /\ Whole(canvasBuf) \in Tokens
    BY <1>1, TokenKinds
  <2>2. \A kind : Plain(kind).kind = kind
    BY DEF Plain
  <2>3. Whole(canvasBuf).cells = canvasBuf /\ Whole(canvasBuf).kind = "cells"
    BY DEF Whole
  <2>4. CASE SendVok(d)
    BY <2>1, <2>2, <2>4, GreetingCalm DEF SendVok
  <2>5. CASE SendSize(d)
    BY <2>1, <2>2, <2>5, GreetingCalm DEF SendSize
  <2>6. CASE SendCells(d)
    <3>1. left[d] = {} /\ held[d] = Plain("none")
      BY <2>6 DEF SendCells
    <3>2. \A k : Copy(d, k) = canvasBuf[k]
      BY <3>1 DEF Copy, Plain
    <3> QED
      BY <2>1, <2>3, <2>6, <3>1, <3>2, GreetingCalm DEF SendCells
  <2>7. CASE SendNewline(d)
    BY <2>1, <2>2, <2>7, GreetingCalm DEF SendNewline
  <2> QED
    BY <1>2, <2>4, <2>5, <2>6, <2>7
<1>3. ASSUME NEW e \in Clients, SendTo(d, e) PROVE Calm(c)
  <2>1. /\ LoopWrite(e, pending[d]) /\ pending[d] \in Updates /\ mutex = d
        /\ \A x \in Clients : spc[x] = "send" => pending[x] = pending[d]
    BY <1>1, <1>3 DEF SendTo, Kept, Places
  <2>2. pending[d] \in Tokens /\ pending[d].kind # "cells"
    BY <2>1, TokenKinds
  <2> QED
    BY <2>1, <2>2, LoopCalm
<1>4. CASE SendLock(d) \/ SendUnlock(d) \/ EndThread(d)
  <2>1. /\ UNCHANGED <<canvas, bufVars, cpc, inbuf, down, local, garbled, missed>>
        /\ Stream(c)' = Stream(c)
    BY <1>4 DEF SendLock, SendUnlock, EndThread, Stream
  <2>2. /\ Online(c)' <=> Online(c)
        /\ Awaits(c)' <=> Awaits(c)
        /\ Closed(c)' <=> Closed(c)
        /\ Unheard(c)' <=> Unheard(c)
    BY <2>1 DEF Online, Networked, Awaits, Closed, Unheard
  <2>3. /\ \A e \in Clients : e # d => spc'[e] = spc[e] /\ pending'[e] = pending[e]
        /\ spc'[d] \in {"send", "serve", "gone"} /\ spc[d] \in {"lock", "send", "serve"}
    BY <1>1, <1>4 DEF SendLock, SendUnlock, EndThread, Kept, TypeOK, Streams
  <2>4. EndedAt(c) => EndedAt(c)'
    BY <2>1, <2>2, <2>3 DEF EndedAt, Ended
  <2>5. Enrolled(c)'
    BY <1>1, <1>4, <2>2 DEF SendLock, SendUnlock, EndThread, Enrolled, Kept, TypeOK
  <2>6. /\ Fresh(c)' /\ \A k : Copy(c, k)' = Copy(c, k)
        /\ spc'[c] \in {"serialize", "nl"} \/ spc[c] \in {"serialize", "nl"} => spc'[c] = spc[c]
    BY <2>1, <2>3 DEF Fresh, Copy
  <2>7. ASSUME Reads(c), NEW e \in Clients \ {c}, Sending(e, c)
        PROVE  Sending(e, c)' /\ pending'[e] = pending[e]
    <3>1. CASE EndThread(d)
      BY <1>1, <2>7, <3>1 DEF EndThread, Sending, Kept, TypeOK
    <3>2. CASE SendLock(d)
      <4>1. /\ mutex = None /\ spc' = [spc EXCEPT ![d] = "send"] /\ UNCHANGED pending
            /\ todo' = registered \ {d}
        BY <3>2 DEF SendLock, Recipients
      <4>2. c \in registered
        BY <2>7 DEF Reads, Online, Networked, Awaits, Closed, Enrolled
      <4>3. spc[e] = "lock"
        BY <1>1, <2>7, <4>1, SessionAssumption DEF Sending, Kept, Places
      <4> QED
        BY <1>1, <2>7, <4>1, <4>2, <4>3 DEF Sending, Kept, TypeOK
    <3>3. CASE SendUnlock(d)
      <4>1. /\ spc[d] = "send" /\ todo = {} /\ spc' = [spc EXCEPT ![d] = "serve"]
            /\ pending' = [pending EXCEPT ![d] = Plain("none")] /\ UNCHANGED todo
        BY <3>3 DEF SendUnlock
      <4>2. spc[e] = "lock" /\ e # d
        BY <2>7, <4>1 DEF Sending
      <4> QED
        BY <1>1, <4>1, <4>2 DEF Sending, Kept, TypeOK, Streams
    <3> QED
      BY <1>4, <3>1, <3>2, <3>3
  <2>8. Reads(c) => Keeps(c)
    BY <2>1, <2>4, <2>6, <2>7 DEF Keeps
  <2> QED
    BY <2>1, <2>2, <2>5, <2>6, <2>8 DEF Calm, Reads
<1>5. CASE (\E k \in Cells : LoadCell(d, k)) \/ StoreCell(d)
  BY <1>5, CopyCalm
<1> QED
  BY <1>2, <1>3, <1>4, <1>5 DEF ThreadStep

(* A stroke that a thread has stored is coming to all others.               *)
LEMMA StoredCurrent ==
  ASSUME SInv, NEW d \in Clients, ReadSet(d), NEW c \in Clients, Current(c)
  PROVE  Current(c)'
<1>1. Kept
  BY DEF SInv
<1>2. PICK x \in Cells, v \in Values :
             /\ canvas' = [canvas EXCEPT ![x] = v]
             /\ pending' = [pending EXCEPT ![d] = Update(x, v)]
  BY <1>1, FirstUpdate
<1>3. /\ UNCHANGED <<bufVars, registered, todo, cpc, inbuf, down, local, garbled, missed>>
      /\ spc[d] = "serve" /\ spc' = [spc EXCEPT ![d] = "lock"]
      /\ Stream(c)' = Stream(c)
  BY DEF ReadSet, sendVars, clientVars, SAt, SGoto, Stream
<1>4. /\ Online(c)' <=> Online(c)
      /\ Awaits(c)' <=> Awaits(c)
      /\ Closed(c)' <=> Closed(c)
  BY <1>3 DEF Online, Networked, Awaits, Closed
<1>5. /\ \A e \in Clients : e # d => spc'[e] = spc[e] /\ pending'[e] = pending[e]
      /\ spc'[d] = "lock" /\ pending'[d] = Update(x, v)
  BY <1>1, <1>2, <1>3 DEF Kept, TypeOK, Streams
<1>6. spc'[c] \in {"serialize", "nl"} \/ spc[c] \in {"serialize", "nl"} => spc'[c] = spc[c]
  BY <1>3, <1>5
<1>7. Enrolled(c)' /\ Unheard(c)' /\ Fresh(c)'
  BY <1>3, <1>4, <1>5 DEF Current, Enrolled, Unheard, Fresh, bufVars
<1>8. EndedAt(c)'
  BY <1>3, <1>4, <1>6 DEF Current, EndedAt, Ended
<1>9. ASSUME NEW k \in SingleAuthor PROVE CurrentAt(c, k)'
  <2>1. k \in Cells /\ CurrentAt(c, k)
    BY DEF SingleAuthor, Current
  <2>2. CASE k = x
    <3>1. Mark(pending'[d], k) = {v}
      BY <1>5, <2>2, TokenMarks
    <3>2. Coming(c, k)'
      BY <1>5, <3>1 DEF Coming, Sending
    <3> QED
      BY <3>2 DEF CurrentAt
  <2>3. CASE k # x
    <3>1. canvas'[k] = canvas[k]
      BY <1>1, <1>2, <2>1, <2>3 DEF Kept, TypeOK, Canvases
    <3>2. \A e \in Clients : Sending(e, c) =>
             Sending(e, c)' /\ pending'[e] = pending[e]
      BY <1>3, <1>5 DEF Sending
    <3>3. Coming(c, k) => Coming(c, k)'
      BY <1>3, <3>1, <3>2 DEF Coming
    <3>4. Breaks(c) => Breaks(c)'
      BY <1>3, <1>6 DEF Breaks, In
    <3>5. left' = left /\ clobbered' = clobbered /\ Copy(c, k)' = Copy(c, k)
      BY <1>3 DEF bufVars, Copy
    <3> HIDE DEF Coming, Breaks
    <3> QED
      BY <1>3, <1>4, <1>6, <2>1, <3>1, <3>3, <3>4, <3>5 DEF CurrentAt, In
  <2> QED
    BY <2>2, <2>3
<1> QED
  BY <1>7, <1>8, <1>9 DEF Current, SingleAuthor

(* A client that has connected has nothing to read yet.                     *)
LEMMA JoinedCurrent ==
  ASSUME SInv, NEW c \in Clients, Join(c), Current(c)
  PROVE  Current(c)'
<1>1. Kept
  BY DEF SInv
<1>2. /\ spc[c] = "absent" /\ cpc[c] = "absent"
      /\ spc' = [spc EXCEPT ![c] = "vok"] /\ cpc' = [cpc EXCEPT ![c] = "await_vok"]
      /\ c \in registered' /\ UNCHANGED <<inbuf, down, left>>
  BY <1>1 DEF Join, SAt, SGoto, Kept, Places, bufVars
<1>3. Stream(c)' = <<>>
  BY <1>2 DEF Current, Unheard, Stream
<1>4. In(Stream(c)') = {} /\ Ended(Stream(c)')
  <2>1. DOMAIN <<>> = {}
    OBVIOUS
  <2> QED
    BY <1>3, <2>1 DEF In, Ended
<1>5. spc'[c] = "vok" /\ cpc'[c] = "await_vok"
  BY <1>1, <1>2 DEF Kept, TypeOK
<1>6. Enrolled(c)' /\ Unheard(c)' /\ Fresh(c)' /\ EndedAt(c)'
  BY <1>2, <1>4, <1>5 DEF Current, Enrolled, Unheard, Fresh, EndedAt, Ended
<1>7. \A k : CurrentAt(c, k)'
  BY <1>4, <1>5 DEF CurrentAt, Online, Networked, In
<1> QED
  BY <1>6, <1>7 DEF Current

(* What other clients do *)
LEMMA OthersCalm ==
  ASSUME SInv, NEW c \in Clients, NEW d \in Clients, c # d,
         \/ ClientRead(d) \/ Leave(d) \/ ResizeTerminal(d) \/ Join(d)
         \/ \E x \in Writes[d] : Edit(d, x)
  PROVE  Calm(c)
<1> USE DEF serverVars, CGoto, SGoto, SAt
<1>1. Kept
  BY DEF SInv
<1>2. /\ UNCHANGED <<canvas, bufVars, todo, pending, missed>>
      /\ registered \subseteq registered'
      /\ spc' = spc \/ (spc[d] = "absent" /\ spc' = [spc EXCEPT ![d] = "vok"])
  BY DEF ClientRead, ReadVok, ReadSize, ReadCanvas, Expect, HandshakeEnds, Receive,
         AwaitRest, ReceiveEnd, Written, Leave, ResizeTerminal, Join, Edit
<1>3. cpc'[c] = cpc[c] /\ local'[c] = local[c] /\ (c \in garbled' <=> c \in garbled)
  <2>1. CASE ClientRead(d)
    <3>1. ASSUME NEW line, Deserialize(d, line) \/ NetHandler(d, line)
          PROVE  /\ \E label : cpc' = [cpc EXCEPT ![d] = label]
                 /\ local'[c] = local[c]
                 /\ garbled' = garbled \/ garbled' = garbled \cup {d}
      <4>1. CASE NetHandler(d, line)
        <5>1. SetCell(d, line) => local'[c] = local[c]
          BY <1>1 DEF SetCell, Kept, TypeOK
        <5> QED
          BY <1>1, <4>1, <5>1, HandledLine
      <4>2. CASE Deserialize(d, line)
        BY <1>1, <4>2 DEF Deserialize, Kept, TypeOK
      <4> QED
        BY <3>1, <4>1, <4>2
    <3>2. CASE ReadCanvas(d) \/ Receive(d) \/ ReceiveEnd(d)
      <4>1. \E line : Deserialize(d, line) \/ NetHandler(d, line)
        BY <3>2 DEF ReadCanvas, Receive, ReceiveEnd
      <4> QED
        BY <1>1, <3>1, <4>1 DEF Kept, TypeOK
    <3>3. CASE HandshakeEnds(d)
      <4>1. \/ \E line : Deserialize(d, line)
            \/ cpc' = [cpc EXCEPT ![d] = "dead"] /\ UNCHANGED <<local, garbled>>
        BY <3>3 DEF HandshakeEnds
      <4> QED
        BY <1>1, <3>1, <4>1 DEF Kept, TypeOK
    <3>4. CASE ReadVok(d) \/ ReadSize(d) \/ AwaitRest(d) \/ Written(d)
      BY <1>1, <3>4 DEF ReadVok, ReadSize, Expect, AwaitRest, Written, Kept, TypeOK
    <3> QED
      BY <2>1, <3>2, <3>3, <3>4 DEF ClientRead
  <2>2. CASE Leave(d) \/ ResizeTerminal(d) \/ Join(d)
    BY <1>1, <2>2 DEF Leave, ResizeTerminal, Join, Kept, TypeOK
  <2>3. ASSUME NEW x \in Writes[d], Edit(d, x)
        PROVE  cpc'[c] = cpc[c] /\ local'[c] = local[c] /\ garbled' = garbled
    BY <1>1, <2>3 DEF Edit, Kept, TypeOK
  <2> QED
    BY <2>1, <2>2, <2>3
<1>4. Stream(c)' = Stream(c)
  <2>1. \/ UNCHANGED <<inbuf, down>>
        \/ HasLine(d) /\ Getline(d)
        \/ inbuf' = [inbuf EXCEPT ![d] = <<>>] /\ down' = [down EXCEPT ![d] = <<>>]
    BY DEF ClientRead, ReadVok, ReadSize, ReadCanvas, Expect, HandshakeEnds, Receive,
           AwaitRest, ReceiveEnd, Written, Leave, ResizeTerminal, Join, Edit, Drain
  <2>2. CASE UNCHANGED <<inbuf, down>>
    BY <2>2 DEF Stream
  <2>3. CASE HasLine(d) /\ Getline(d)
    BY <1>1, <2>3, GetlineStream DEF Kept
  <2>4. CASE inbuf' = [inbuf EXCEPT ![d] = <<>>] /\ down' = [down EXCEPT ![d] = <<>>]
    BY <1>1, <2>4, Emptied DEF Kept
  <2> QED
    BY <2>1, <2>2, <2>3, <2>4
<1>5. /\ spc'[c] = spc[c]
      /\ \A e \in Clients : spc[e] \in {"lock", "send"} => spc'[e] = spc[e]
  BY <1>1, <1>2 DEF Kept, TypeOK
<1> QED
  BY <1>2, <1>3, <1>4, <1>5, StillCalm DEF Closed, Online, Networked, Awaits

(* What a client does on its own, while the server runs *)
LEMMA OwnCalm ==
  ASSUME SInv, serverUp', NEW c \in Clients,
         \/ HandshakeEnds(c) \/ ReceiveEnd(c) \/ AwaitRest(c) \/ Written(c)
         \/ ResizeTerminal(c) \/ Leave(c) \/ \E x \in Writes[c] : Edit(c, x)
  PROVE  Calm(c)
<1> USE DEF serverVars, CGoto
<1>1. Kept
  BY DEF SInv
<1>2. CASE HandshakeEnds(c) \/ ReceiveEnd(c)
  BY <1>2 DEF HandshakeEnds, ReceiveEnd
<1>3. CASE Leave(c)
  <2>1. UNCHANGED <<canvas, bufVars, spc>> /\ cpc'[c] = "dead"
    BY <1>1, <1>3 DEF Leave, Kept, TypeOK
  <2> QED
    BY <2>1 DEF Calm, Enrolled, Closed, Unheard, Fresh, bufVars, Online, Networked, Awaits, Reads
<1>4. CASE AwaitRest(c) \/ Written(c) \/ ResizeTerminal(c) \/ \E x \in Writes[c] : Edit(c, x)
  <2>1. UNCHANGED <<canvas, bufVars, registered, todo, spc, pending, missed, inbuf, down, garbled>>
    BY <1>4 DEF AwaitRest, Written, ResizeTerminal, Edit
  <2>2. /\ cpc[c] # "absent" /\ cpc'[c] # "absent" /\ ~Awaits(c)'
        /\ Closed(c) => Closed(c)'
        /\ Online(c)' => Online(c)
    <3>1. \/ cpc' = cpc /\ cpc[c] \in {"online", "offline"}
          \/ \E label \in {"writing", "reading", "online", "dead"} :
               cpc' = [cpc EXCEPT ![c] = label] /\ cpc[c] \in {"online", "writing"}
      BY <1>4 DEF AwaitRest, Written, ResizeTerminal, Edit
    <3>2. CASE cpc' = cpc /\ cpc[c] \in {"online", "offline"}
      BY <2>1, <3>2 DEF Awaits, Closed, Online, Networked
    <3>3. ASSUME NEW label \in {"writing", "reading", "online", "dead"},
                 cpc' = [cpc EXCEPT ![c] = label], cpc[c] \in {"online", "writing"}
          PROVE  /\ cpc[c] # "absent" /\ cpc'[c] # "absent" /\ ~Awaits(c)'
                 /\ Closed(c) => Closed(c)'
                 /\ Online(c)' => Online(c)
      <4>1. cpc'[c] = label
        BY <1>1, <3>3 DEF Kept, TypeOK
      <4> QED
        BY <2>1, <3>3, <4>1 DEF Awaits, Closed, Online, Networked
    <3> QED
      BY <3>1, <3>2, <3>3
  <2>3. \A k \in Cells \ Writes[c] : local'[c][k] = local[c][k]
    <3>1. CASE UNCHANGED local
      BY <3>1
    <3>2. ASSUME NEW x \in Writes[c], NEW n, local' = [local EXCEPT ![c][x] = n]
          PROVE  \A k \in Cells \ Writes[c] : local'[c][k] = local[c][k]
      BY <1>1, <3>2 DEF Kept, TypeOK, Canvases
    <3>3. ASSUME NEW x \in Writes[c], Edit(c, x)
          PROVE  local' = [local EXCEPT ![c][x] = edits']
      BY <3>3 DEF Edit
    <3>4. ASSUME AwaitRest(c) \/ Written(c) \/ ResizeTerminal(c) PROVE UNCHANGED local
      BY <3>4 DEF AwaitRest, Written, ResizeTerminal
    <3> QED
      BY <1>4, <3>1, <3>2, <3>3, <3>4
  <2>4. Stream(c)' = Stream(c)
    BY <2>1 DEF Stream
  <2> QED
    BY <2>1, <2>2, <2>3, <2>4, StillCalm
<1> QED
  BY <1>2, <1>3, <1>4

LEMMA HandlerCalm ==
  ASSUME SInv, serverUp', HandlerStep \/ Interrupt \/ Halt, NEW c \in Clients
  PROVE  Calm(c)
<1>1. Kept
  BY DEF SInv
<1>2. ASSUME NEW e \in Clients, FinishTo(e) PROVE Calm(c)
  <2>1. Plain("q") \in Tokens /\ Plain("q").kind = "q"
    BY TokenKinds DEF Plain
  <2>2. \A d \in Clients : spc[d] # "send"
    BY <1>1, <1>2, SessionAssumption DEF FinishTo, Kept, Places
  <2> QED
    BY <1>2, <2>1, <2>2, LoopCalm DEF FinishTo
<1>3. CASE Exit
  BY <1>3 DEF Exit, ServerEnds
<1>4. CASE Interrupt \/ Halt
  <2>1. UNCHANGED <<canvas, bufVars, registered, spc, pending, cpc, inbuf, down, local,
                    garbled, missed>>
    BY <1>4 DEF Interrupt, Halt, vars, bufVars, clientVars
  <2>2. \A d \in Clients : Sending(d, c) => Sending(d, c)'
    BY <1>1, <1>4, SessionAssumption DEF Interrupt, Halt, vars, Sending, Kept, Places
  <2>3. Stream(c)' = Stream(c)
    BY <2>1 DEF Stream
  <2>4. EndedAt(c)' <=> EndedAt(c)
    BY <2>1, <2>3 DEF EndedAt, Awaits, Ended
  <2>5. \A k : Copy(c, k)' = Copy(c, k)
    BY <2>1 DEF Copy, bufVars
  <2>6. Keeps(c)
    BY <2>1, <2>2, <2>3, <2>4, <2>5 DEF Keeps, bufVars
  <2> QED
    BY <2>1, <2>3, <2>6 DEF Calm, Enrolled, Closed, Unheard, Fresh, Online, Networked, Awaits, Reads,
                            bufVars
<1> QED
  BY <1>2, <1>3, <1>4 DEF HandlerStep

-----------------------------------------------------------------------------
(* What a client reads itself *)

(* getline() takes the first tokens of the stream, up to one that ends a     *)
(* line and only one where that is an update or a plain line, and leaves    *)
(* the rest; where a line's end came last before, it does after.            *)
LEMMA ReadLine ==
  ASSUME Streams, NEW c \in Clients, HasLine(c), Getline(c)
  PROVE  \E n \in 1 .. Len(Stream(c)) :
           /\ Stream(c) \in Seq(Tokens) /\ 1 \in DOMAIN Stream(c)
           /\ Line(c) = Stream(c)[1] /\ Line(c) \in Tokens /\ Line(c) \in In(Stream(c))
           /\ Line(c).kind # "cells" => n = 1
           /\ Stream(c)' = Rest(Stream(c), n)
           /\ In(Stream(c)) = {Stream(c)[i] : i \in 1 .. n} \cup In(Stream(c)')
           /\ Ended(Stream(c)) => Ended(Stream(c)')
           /\ EndsLine(Stream(c)[n])
           /\ \A i \in 1 .. n - 1 : ~EndsLine(Stream(c)[i])
<1> DEFINE s == Stream(c)
<1>1. s \in Seq(Tokens) /\ Len(s) \in Nat
  BY StreamSeq, LenProperties
<1>2. Line(c) = s[1] /\ Line(c) \in Tokens /\ 1 \in DOMAIN s
  BY GetlineStream
<1>3. PICK n \in 1 .. Len(s) : /\ s' = Rest(s, n) /\ EndsLine(s[n])
                               /\ \A i \in 1 .. n - 1 : ~EndsLine(s[i])
  BY GetlineStream
<1> HIDE DEF s
<1>4. Line(c).kind # "cells" => n = 1
  BY <1>1, <1>2, <1>3 DEF EndsLine
<1>5. /\ In(s) = {s[i] : i \in 1 .. n} \cup In(Rest(s, n))
      /\ Ended(s) => Ended(Rest(s, n))
  BY <1>1, InRest
<1>6. Line(c) \in In(s)
  BY <1>2 DEF In
<1> QED
  BY <1>1, <1>2, <1>3, <1>4, <1>5, <1>6 DEF s

(* A client that is turned away, ends, or has other than what it was sent,  *)
(* is owed nothing.                                                         *)
LEMMA OutCurrent ==
  ASSUME Kept, NEW c \in Clients, NEW label, cpc' = [cpc EXCEPT ![c] = label],
         label # "absent", UNCHANGED <<registered, spc, left>>,
         Enrolled(c), Fresh(c), ~Closed(c), ~Reads(c)'
  PROVE  Current(c)'
<1>1. cpc'[c] # "absent"
  BY DEF Kept, TypeOK
<1>2. Enrolled(c)' /\ Unheard(c)' /\ Fresh(c)'
  BY <1>1 DEF Enrolled, Closed, Unheard, Fresh
<1>3. EndedAt(c)' /\ \A k : CurrentAt(c, k)'
  BY DEF EndedAt, CurrentAt, Reads
<1> QED
  BY <1>2, <1>3 DEF Current

LEMMA GreetedCurrent ==
  ASSUME SInv, NEW c \in Clients, Current(c), ReadVok(c) \/ ReadSize(c)
  PROVE  Current(c)'
<1> DEFINE s == Stream(c)
<1>1. Kept /\ Streams /\ Enrolled(c) /\ Fresh(c)
  BY DEF SInv, Kept, Current
<1>2. PICK kind \in {"vok", "cs"}, label \in {"await_cs", "await_canvas"} :
             /\ Awaits(c) /\ HasLine(c) /\ Getline(c)
             /\ cpc' = [cpc EXCEPT ![c] = IF Line(c).kind = kind THEN label ELSE "dead"]
             /\ UNCHANGED <<canvas, bufVars, registered, todo, spc, pending, missed>>
  BY DEF ReadVok, ReadSize, Expect, CGoto, serverVars, Awaits
<1>3. CASE Line(c).kind # kind
  <2>1. cpc' = [cpc EXCEPT ![c] = "dead"] /\ UNCHANGED left
    BY <1>2, <1>3 DEF bufVars
  <2>2. cpc'[c] = "dead"
    BY <1>1, <2>1 DEF Kept, TypeOK
  <2>3. ~Closed(c) /\ ~Reads(c)'
    BY <1>2, <2>2 DEF Reads, Online, Networked, Awaits, Closed
  <2> QED
    BY <1>1, <1>2, <2>1, <2>3, OutCurrent
<1>4. CASE Line(c).kind = kind
  <2>1. cpc'[c] = label
    BY <1>1, <1>2, <1>4 DEF Kept, TypeOK
  <2>2. /\ In(s) = {Line(c)} \cup In(s')
        /\ Ended(s) => Ended(s')
    <3>1. Line(c).kind # "cells"
      BY <1>4
    <3>2. {s[i] : i \in 1 .. 1} = {s[1]}
      OBVIOUS
    <3> QED
      BY <1>1, <1>2, <3>1, <3>2, ReadLine
  <2>3. Enrolled(c)' /\ Unheard(c)' /\ Fresh(c)'
    BY <1>1, <1>2, <2>1 DEF Enrolled, Unheard, Fresh, bufVars, Awaits, Closed
  <2>4. EndedAt(c)'
    BY <1>2, <2>2 DEF Current, EndedAt, Ended
  <2>5. ASSUME NEW k \in SingleAuthor PROVE CurrentAt(c, k)'
    <3>1. Stroke(Line(c), k) = {}
      BY <1>4 DEF Stroke
    <3>2. Strokes(s, k) = Strokes(s', k)
      <4> DEFINE u == s'
                 A == {Line(c)}
      <4>1. In(s) = A \cup In(u) /\ \A t \in A : Stroke(t, k) = {}
        BY <2>2, <3>1
      <4> HIDE DEF s, u, A
      <4>2. Strokes(s, k) = Strokes(u, k)
        BY <4>1, SameStrokes
      <4> QED
        BY <4>2 DEF u
    <3>3. Coming(c, k) => Coming(c, k)'
      BY <1>2, <3>2 DEF Coming, Sending
    <3>4. CurrentAt(c, k)
      BY DEF Current
    <3>5. Awaits(c) /\ ~Online(c)' /\ left' = left /\ clobbered' = clobbered
      BY <1>2, <2>1 DEF Online, Networked, bufVars
    <3>6. Copy(c, k)' = Copy(c, k)
      BY <1>2 DEF Copy, bufVars
    <3> HIDE DEF Coming
    <3> QED
      BY <1>2, <2>2, <3>3, <3>4, <3>5, <3>6 DEF CurrentAt, In
  <2> QED
    BY <2>3, <2>4, <2>5 DEF Current, SingleAuthor
<1> QED
  BY <1>3, <1>4

(* A canvas is loaded: it is the master's picture but for what is coming,   *)
(* or an update was behind it on the same line, and then the newline will   *)
(* break the client.                                                        *)
LEMMA LoadedCurrent ==
  ASSUME SInv, NEW c \in Clients, Current(c), ReadCanvas(c)
  PROVE  Current(c)'
<1> DEFINE s == Stream(c)
           line == Line(c)
<1>1. Kept /\ Streams /\ Enrolled(c) /\ Fresh(c)
  BY DEF SInv, Kept, Current
<1>2. /\ Awaits(c) /\ HasLine(c) /\ Getline(c)
      /\ cpc' = [cpc EXCEPT ![c] = "online"]
      /\ IF line.kind = "cells" THEN local' = [local EXCEPT ![c] = line.cells]
                                ELSE garbled' = garbled \cup {c}
      /\ UNCHANGED <<canvas, left, clobbered, registered, todo, spc, pending, missed>>
  BY DEF ReadCanvas, Deserialize, CGoto, serverVars, bufVars, Awaits
<1>3. PICK n \in 1 .. Len(s) :
             /\ s \in Seq(Tokens) /\ line \in In(s) /\ line \in Tokens
             /\ s' = Rest(s, n)
             /\ In(s) = {s[i] : i \in 1 .. n} \cup In(s')
             /\ EndsLine(s[n])
             /\ \A i \in 1 .. n - 1 : ~EndsLine(s[i])
             /\ line = s[1] /\ 1 \in DOMAIN s
  BY <1>1, <1>2, ReadLine
<1> HIDE DEF s, line
<1>4. CASE line.kind # "cells"
  <2>1. cpc'[c] = "online" /\ c \in garbled'
    BY <1>1, <1>2, <1>4 DEF Kept, TypeOK
  <2>2. ~Closed(c) /\ ~Reads(c)'
    BY <1>2, <2>1 DEF Reads, Online, Awaits, Closed
  <2> QED
    BY <1>1, <1>2, <2>2, OutCurrent
<1>5. CASE line.kind = "cells"
  <2>1. cpc'[c] = "online" /\ local'[c] = line.cells
    BY <1>1, <1>2, <1>5 DEF Kept, TypeOK
  <2>2. Enrolled(c)' /\ Unheard(c)' /\ Fresh(c)' /\ EndedAt(c)'
    BY <1>1, <1>2, <2>1 DEF Enrolled, Unheard, Fresh, EndedAt, Awaits, Closed
  <2>3. Breaks(c)' \/ \A k : Strokes(s, k) = Strokes(s', k)
    <3>1. /\ Len(s) \in Nat /\ DOMAIN s = 1 .. Len(s) /\ \A i \in DOMAIN s : s[i] \in Tokens
      BY <1>3, LenProperties, ElementOfSeq
    <3>2. CASE s[n].kind = "s"
      <4>1. CASE spc[c] = "nl"
        BY <1>2, <4>1 DEF Breaks
      <4>2. CASE spc[c] # "nl"
        <5>1. Ended(s)
          BY <1>2, <4>2 DEF Current, EndedAt, s
        <5>2. PICK j \in DOMAIN s : j > 1 /\ s[j].kind = "nl"
          BY <1>3, <1>5, <5>1 DEF Ended
        <5>3. EndsLine(s[j]) /\ j # n
          BY <3>2, <5>2 DEF EndsLine
        <5>4. j > n
          <6>1. j \in Nat /\ n \in Nat /\ j > 1
            BY <3>1, <5>2
          <6>2. j \notin 1 .. n - 1
            BY <1>3, <5>3
          <6> QED
            BY <5>3, <6>1, <6>2
        <5>5. n \in 0 .. Len(s)
          BY <3>1
        <5>6. Rest(s, n)[j - n] = s[j] /\ DOMAIN Rest(s, n) = 1 .. Len(s) - n
          <6>1. s \in Seq(Tokens)
            BY <1>3
          <6>2. /\ DOMAIN Rest(s, n) = 1 .. Len(s) - n
                /\ \A i \in 1 .. Len(s) : i > n => Rest(s, n)[i - n] = s[i]
            BY <5>5, <6>1, RestIndex, Zenon
          <6> QED
            BY <3>1, <5>4, <6>2
        <5>7. j - n \in DOMAIN Rest(s, n)
          BY <3>1, <5>4, <5>6
        <5>8. s[j] \in In(s')
          <6>1. s' = Rest(s, n)
            BY <1>3
          <6> QED
            BY <5>6, <5>7, <6>1 DEF In
        <5> QED
          BY <5>2, <5>8 DEF Breaks, In, s
      <4> QED
        BY <4>1, <4>2
    <3>3. CASE s[n].kind # "s"
      <4>1. \A i \in 1 .. n : s[i].kind # "s"
        BY <1>3, <3>1, <3>3 DEF EndsLine
      <4> DEFINE u == s'
                 A == {s[i] : i \in 1 .. n}
      <4>2. /\ In(s) = A \cup In(u)
            /\ \A k : \A t \in A : Stroke(t, k) = {}
        BY <1>3, <4>1 DEF Stroke
      <4> HIDE DEF u, A
      <4>3. ASSUME NEW k PROVE Strokes(s, k) = Strokes(u, k)
        <5>1. In(s) = A \cup In(u) /\ \A t \in A : Stroke(t, k) = {}
          BY <4>2
        <5> QED
          BY <5>1, SameStrokes
      <4> QED
        BY <4>3 DEF u
    <3> QED
      BY <3>2, <3>3
  <2>4. ASSUME NEW k \in SingleAuthor PROVE CurrentAt(c, k)'
    <3>1. CASE Breaks(c)'
      BY <2>1, <3>1 DEF CurrentAt, Awaits
    <3>2. CASE \A x : Strokes(s, x) = Strokes(s', x)
      <4>1. Coming(c, k) => Coming(c, k)'
        BY <1>2, <3>2 DEF Coming, Sending, s
      <4>2. CurrentAt(c, k) /\ line \in In(Stream(c))
        BY <1>3 DEF Current, s
      <4> HIDE DEF Coming
      <4> QED
        BY <1>2, <1>5, <2>1, <4>1, <4>2 DEF CurrentAt, Awaits
    <3> QED
      BY <2>3, <3>1, <3>2
  <2> QED
    BY <2>2, <2>4 DEF Current, SingleAuthor
<1> QED
  BY <1>4, <1>5

(* An update is shown: it is the master's stroke, or that is behind it.     *)
LEMMA ReceivedCurrent ==
  ASSUME SInv, NEW c \in Clients, Alone(c), Current(c), Receive(c)
  PROVE  Current(c)'
<1> DEFINE s == Stream(c)
           line == Line(c)
<1>1. Kept /\ Streams /\ Enrolled(c) /\ Fresh(c)
  BY DEF SInv, Kept, Current
<1>2. /\ Networked(c) /\ HasLine(c) /\ Getline(c) /\ NetHandler(c, line)
      /\ UNCHANGED <<canvas, left, clobbered, registered, todo, spc, pending, missed>>
  BY DEF Receive, serverVars, bufVars, Selected, Networked
<1>3. PICK label \in {"online", "offline", "dead"} : cpc' = [cpc EXCEPT ![c] = label]
  BY <1>1, <1>2, HandledLine
<1>4. cpc'[c] = label
  BY <1>1, <1>3 DEF Kept, TypeOK
<1>5. CASE ~Online(c)'
  <2>1. ~Closed(c) /\ ~Reads(c)'
    BY <1>2, <1>4, <1>5 DEF Reads, Awaits, Networked, Closed
  <2> QED
    BY <1>1, <1>2, <1>3, <2>1, OutCurrent
<1>6. CASE Online(c)'
  <2>1. /\ Online(c)
        /\ SetCell(c, line) \/ UNCHANGED local
        /\ line.kind \in {"s", "vok", "cs", "word", "cells"}
    BY <1>1, <1>2, <1>6, HandledLine DEF Online
  <2>2. /\ line.kind # "cells" /\ line \in Tokens /\ line \in In(s)
        /\ s \in Seq(Tokens) /\ line = s[1] /\ 1 \in DOMAIN s
    <3>1. line \in Tokens /\ line = s[1] /\ 1 \in DOMAIN s
      BY <1>1, <1>2, ReadLine
    <3> QED
      BY <1>1, <2>1, <3>1, StreamSeq DEF Alone, NoCanvas, In
  <2>3. In(s) = {line} \cup In(s')
    <3>1. line.kind # "cells"
      BY <2>2
    <3>2. {s[i] : i \in 1 .. 1} = {s[1]}
      OBVIOUS
    <3> QED
      BY <1>1, <1>2, <3>1, <3>2, ReadLine
  <2> HIDE DEF s, line
  <2>4. Enrolled(c)' /\ Unheard(c)' /\ Fresh(c)' /\ EndedAt(c)'
    BY <1>1, <1>2, <1>6, <2>1 DEF Enrolled, Unheard, Fresh, EndedAt, Awaits, Online, Networked,
                                  Closed
  <2>5. Breaks(c) => Breaks(c)'
    BY <1>2, <2>1, <2>3 DEF Breaks, s, In
  <2>6. ASSUME NEW k \in SingleAuthor, k \notin Writes[c], c \notin missed',
               <<c, k>> \notin clobbered'
        PROVE  local'[c][k] = canvas'[k] \/ Coming(c, k)' \/ Breaks(c)'
    <3>1. /\ local[c][k] = canvas[k] \/ Coming(c, k) \/ Breaks(c)
          /\ k \in Cells
      BY <1>2, <2>1, <2>6 DEF Current, CurrentAt, SingleAuthor
    <3>2. \/ local'[c][k] = local[c][k] /\ Stroke(line, k) = {}
          \/ \E v \in Values : local'[c][k] = v /\ Stroke(line, k) = {v}
      <4>1. CASE SetCell(c, line)
        <5>1. PICK x \in Cells, v \in Values :
                line = Update(x, v) /\ local' = [local EXCEPT ![c][x] = v]
          BY <1>1, <2>2, <4>1, CellSet
        <5>2. local'[c][k] = IF k = x THEN v ELSE local[c][k]
          BY <1>1, <3>1, <5>1 DEF Kept, TypeOK, Canvases
        <5>3. Stroke(line, k) = IF k = x THEN {v} ELSE {}
          BY <5>1 DEF Update, Stroke
        <5> QED
          BY <5>2, <5>3
      <4>2. CASE UNCHANGED local /\ line.kind # "s"
        BY <4>2 DEF Stroke
      <4>3. line.kind = "s" => SetCell(c, line)
        BY <1>2 DEF NetHandler
      <4> QED
        BY <2>1, <4>1, <4>2, <4>3
    <3>4. Strokes(s, k) = Stroke(line, k) \cup Strokes(s', k)
      BY <2>3, InStrokes
    <3>5. Coming(c, k) => canvas[k] \in Stroke(line, k) \/ Coming(c, k)'
      BY <1>2, <3>4 DEF Coming, Sending, s
    <3>6. CASE local'[c][k] = local[c][k] /\ Stroke(line, k) = {}
      BY <1>2, <2>5, <3>1, <3>5, <3>6
    <3>7. ASSUME NEW v \in Values, local'[c][k] = v, Stroke(line, k) = {v}
          PROVE  local'[c][k] = canvas'[k] \/ Coming(c, k)' \/ Breaks(c)'
      <4>1. v \in Strokes(Stream(c), k)
        BY <3>4, <3>7 DEF s
      <4>2. local[c][k] <= v /\ v <= canvas[k]
        BY <1>1, <2>1, <2>6, <4>1, Numbers DEF SInv, InOrderAt, Viewed, OnTheWayDown
      <4>3. local[c][k] = canvas[k] => v = canvas[k]
        BY <1>1, <4>1, <4>2, Numbers
      <4> QED
        BY <1>2, <2>5, <3>1, <3>5, <3>7, <4>3
    <3> QED
      BY <3>2, <3>6, <3>7
  <2>7. ASSUME NEW k \in SingleAuthor PROVE CurrentAt(c, k)'
    <3>1. ~Awaits(c)'
      BY <1>6 DEF Awaits, Online, Networked
    <3> QED
      BY <2>6, <3>1 DEF CurrentAt
  <2> QED
    BY <2>4, <2>7 DEF Current, SingleAuthor
<1> QED
  BY <1>5, <1>6

LEMMA CurrentInit == Init => CInv
<1> SUFFICES ASSUME Init PROVE SInv /\ AInv /\ \A c \in Clients : Current(c)
  BY DEF CInv
<1>1. SInv /\ AInv
  BY KeptInit, OrderInit, AloneInit DEF SInv
<1>2. ASSUME NEW c \in Clients PROVE Current(c)
  <2>1. /\ inbuf[c] = <<>> /\ down[c] = <<>> /\ registered = Early
        /\ cpc[c] = IF c \in Early THEN "online" ELSE "absent"
        /\ spc[c] = IF c \in Early THEN "serve" ELSE "absent"
        /\ left[c] = IF c \in Early THEN {} ELSE Cells
        /\ \A k \in Cells : local[c][k] = 0 /\ canvas[k] = 0
    BY DEF Init
  <2>2. Enrolled(c) /\ EndedAt(c) /\ Fresh(c)
    BY <2>1 DEF Enrolled, Closed, EndedAt, Awaits, Fresh
  <2>3. Unheard(c)
    BY <2>1 DEF Unheard, Stream
  <2>4. ASSUME NEW k \in SingleAuthor PROVE CurrentAt(c, k)
    <3>1. local[c][k] = canvas[k] /\ ~Awaits(c)
      BY <2>1 DEF SingleAuthor, Awaits
    <3> QED
      BY <3>1 DEF CurrentAt
  <2> QED
    BY <2>2, <2>3, <2>4 DEF Current
<1> QED
  BY <1>1, <1>2

LEMMA ServerStays ==
  ASSUME Next, serverUp'
  PROVE  serverUp
<1> USE DEF serverVars, ServerEnds, SAt
<1>1. ASSUME NEW c \in Clients, ThreadStep(c) PROVE serverUp
  BY <1>1 DEF ThreadStep, SendVok, SendSize, SendCells, SendNewline, WriteSelf, LoadCell,
              StoreCell, ReadSet, SendLock, SendTo, SendUnlock, EndThread
<1>2. ASSUME NEW c \in Clients, ClientRead(c) PROVE serverUp
  BY <1>2 DEF ClientRead, ReadVok, ReadSize, ReadCanvas, Expect, HandshakeEnds, Receive,
              AwaitRest, ReceiveEnd, Written
<1>3. ASSUME NEW c \in Clients,
             \/ Join(c) \/ Leave(c) \/ ResizeTerminal(c)
             \/ \E k \in Writes[c] : Edit(c, k)
      PROVE  serverUp
  BY <1>3 DEF Join, Leave, ResizeTerminal, Edit
<1>4. CASE Interrupt \/ HandlerStep \/ Halt
  BY <1>4 DEF Interrupt, HandlerStep, FinishTo, Exit, Halt, vars
<1> QED
  BY <1>1, <1>2, <1>3, <1>4 DEF Next

LEMMA CurrentStep ==
  ASSUME SInv, Next, serverUp', NEW c \in Clients, Alone(c), Current(c)
  PROVE  Current(c)'
<1>1. Enrolled(c) /\ Fresh(c)
  BY DEF Current
<1>2. ASSUME Calm(c) PROVE Current(c)'
  BY <1>2, CalmCurrent
<1>3. ASSUME NEW d \in Clients, ThreadStep(d) PROVE Current(c)'
  <2>1. CASE ReadSet(d)
    BY <2>1, StoredCurrent
  <2>2. CASE ~ReadSet(d)
    BY <1>1, <1>2, <1>3, <2>2, ThreadCalm
  <2> QED
    BY <2>1, <2>2
<1>4. ASSUME NEW d \in Clients, d # c,
             \/ ClientRead(d) \/ Leave(d) \/ ResizeTerminal(d) \/ Join(d)
             \/ \E x \in Writes[d] : Edit(d, x)
      PROVE  Current(c)'
  BY <1>2, <1>4, OthersCalm
<1>5. CASE \/ HandshakeEnds(c) \/ ReceiveEnd(c) \/ AwaitRest(c) \/ Written(c)
           \/ ResizeTerminal(c) \/ Leave(c) \/ \E x \in Writes[c] : Edit(c, x)
  BY <1>2, <1>5, OwnCalm
<1>6. CASE Join(c)
  BY <1>6, JoinedCurrent
<1>7. CASE ReadVok(c) \/ ReadSize(c) \/ ReadCanvas(c) \/ Receive(c)
  BY <1>7, GreetedCurrent, LoadedCurrent, ReceivedCurrent
<1>8. CASE Interrupt \/ HandlerStep \/ Halt
  BY <1>2, <1>8, HandlerCalm
<1> QED
  BY <1>3, <1>4, <1>5, <1>6, <1>7, <1>8 DEF Next, ClientRead

LEMMA CurrentKept == CInv /\ [Next]_vars => CInv'
<1> SUFFICES ASSUME CInv, [Next]_vars PROVE CInv'
  OBVIOUS
<1>1. SInv /\ SInv' /\ AInv /\ AInv'
  BY OrderKept, AloneKept DEF CInv
<1>2. ASSUME serverUp', NEW c \in Clients PROVE Current(c)'
  <2>1. CASE Next
    <3>1. Current(c)
      BY <1>2, <2>1, ServerStays DEF CInv
    <3> QED
      BY <1>1, <1>2, <2>1, <3>1, CurrentStep DEF AInv
  <2>2. CASE UNCHANGED vars
    <3>1. Current(c)
      BY <1>2, <2>2 DEF CInv, vars
    <3>2. Calm(c)
      BY <2>2, StillCalm DEF vars, bufVars, Stream, Closed, Online, Networked, Awaits
    <3> QED
      BY <1>1, <3>1, <3>2, CalmCurrent
  <2> QED
    BY <2>1, <2>2
<1> QED
  BY <1>1, <1>2 DEF CInv

LEMMA SessionCurrent == Spec => []CInv
BY CurrentInit, CurrentKept, PTL DEF Spec

(* Whoever looks on in a cell, however the commands are cut into reads and  *)
(* whoever joins or leaves meanwhile, shows the master's stroke once all    *)
(* streams are empty, unless a write to a closed socket cut a broadcast     *)
(* short for it, or another thread wrote an older stroke over the one its   *)
(* own had copied for it.                                                   *)
ViewersConverged ==
  AtRest => \A c \in Clients : Online(c) /\ c \notin missed =>
              \A k \in SingleAuthor : k \notin Writes[c] /\ <<c, k>> \notin clobbered =>
                local[c][k] = canvas[k]

LEMMA AtRestEmpty ==
  ASSUME AtRest, NEW c \in Clients
  PROVE  /\ serverUp /\ up[c] = <<>> /\ spc[c] \notin {"nl", "serialize", "lock", "send"}
         /\ Online(c) => Stream(c) = <<>>
<1>1. Online(c) => inbuf[c] = <<>> /\ down[c] = <<>>
  BY DEF AtRest, Online, Networked, Closed
<1>2. <<>> \o <<>> = <<>>
  BY EmptySeq, ConcatEmptySeq
<1> QED
  BY <1>1, <1>2 DEF AtRest, Stream

LEMMA RestCurrent == CInv => ViewersConverged
<1> SUFFICES ASSUME CInv, AtRest, NEW c \in Clients, Online(c), c \notin missed,
                    NEW k \in SingleAuthor, k \notin Writes[c], <<c, k>> \notin clobbered
             PROVE  local[c][k] = canvas[k]
  BY DEF ViewersConverged
<1>1. CurrentAt(c, k)
  BY AtRestEmpty DEF CInv, Current
<1>2. ~Coming(c, k)
  <2>1. Strokes(Stream(c), k) = {}
    BY AtRestEmpty, NothingTold
  <2>2. \A d \in Clients : ~Sending(d, c)
    BY AtRestEmpty DEF Sending
  <2> QED
    BY <2>1, <2>2 DEF Coming
<1>3. ~Breaks(c)
  <2>1. In(<<>>) = {}
    BY DEF In
  <2> QED
    BY <2>1, AtRestEmpty DEF Breaks
<1> QED
  BY <1>1, <1>2, <1>3 DEF CurrentAt

(* The clients that look on converge on the master's picture, for any       *)
(* number of commands that a read() may return together.                    *)
THEOREM ViewersConverge == Spec => []ViewersConverged
BY RestCurrent, SessionCurrent, PTL

-----------------------------------------------------------------------------
(* The author's side: what he has drawn is on the master or on its way. *)

ComingUp(k) == \A c \in Clients : Online(c) /\ k \in Writes[c] =>
                 local[c][k] = canvas[k] \/ local[c][k] \in Strokes(up[c], k)

UInv == SInv /\ (serverUp => \A k \in SingleAuthor : ComingUp(k))

(* Only commands read and edits change the master and what is on the way    *)
(* up to it, while the server runs.                                         *)
LEMMA UpStep ==
  ASSUME serverUp', Next
  PROVE  \/ \E d \in Clients : ReadSet(d)
         \/ \E d \in Clients : \E x \in Writes[d] : Edit(d, x)
         \/ UNCHANGED <<canvas, up>>
<1> DEFINE Quietly == UNCHANGED <<canvas, up>>
<1> USE DEF sendVars, clientVars, serverVars, ServerEnds
<1>1. ASSUME NEW d \in Clients, ThreadStep(d), ~ReadSet(d) PROVE Quietly
  BY <1>1 DEF ThreadStep, SendVok, SendSize, LoadCell, StoreCell, SendCells, SendNewline,
              WriteSelf, SendLock, SendTo, LoopWrite, SendUnlock, EndThread
<1>2. ASSUME NEW d \in Clients, ClientRead(d) PROVE Quietly
  BY <1>2 DEF ClientRead, ReadVok, ReadSize, Expect, ReadCanvas, HandshakeEnds, Receive,
              AwaitRest, ReceiveEnd, Written
<1>3. ASSUME NEW d \in Clients, Join(d) \/ Leave(d) \/ ResizeTerminal(d) PROVE Quietly
  BY <1>3 DEF Join, Leave, ResizeTerminal
<1>4. ASSUME Interrupt \/ HandlerStep \/ Halt PROVE Quietly
  BY <1>4 DEF Interrupt, HandlerStep, FinishTo, LoopWrite, Exit, Halt, vars
<1> QED
  BY <1>1, <1>2, <1>3, <1>4 DEF Next

(* Every command is read by itself: none is dropped behind another.         *)
LEMMA ComingUpStored ==
  ASSUME MaxRead = 1, SInv, NEW d \in Clients, ReadSet(d),
         NEW k \in SingleAuthor, ComingUp(k)
  PROVE  ComingUp(k)'
<1>1. Kept
  BY DEF SInv
<1>2. PICK n \in 1 .. Len(up[d]), x \in Cells, v \in Values :
             /\ n <= MaxRead /\ up' = [up EXCEPT ![d] = Rest(@, n)]
             /\ up[d] \in Seq(Updates) /\ up[d][1] = Update(x, v)
             /\ canvas' = [canvas EXCEPT ![x] = v]
  BY <1>1, FirstUpdate
<1>3. n = 1 /\ UNCHANGED <<local, cpc, garbled>>
  BY <1>2 DEF ReadSet, clientVars
<1>4. /\ \A c \in Clients : c # d => up'[c] = up[c]
      /\ up'[d] = Rest(up[d], 1)
      /\ canvas'[k] = IF k = x THEN v ELSE canvas[k]
  BY <1>1, <1>2, <1>3 DEF Kept, Streams, TypeOK, Canvases, SingleAuthor
<1>5. 1 \in DOMAIN up[d] /\ Strokes(up[d], k) = Stroke(Update(x, v), k) \cup Strokes(up'[d], k)
  <2>1. 1 \in DOMAIN up[d]
    BY <1>2, LenProperties
  <2>2. In(up[d]) = {up[d][i] : i \in 1 .. 1} \cup In(Rest(up[d], 1))
    BY <1>2, <1>3, InRest
  <2>3. {up[d][i] : i \in 1 .. 1} = {Update(x, v)}
    BY <1>2
  <2>4. In(up[d]) = {Update(x, v)} \cup In(up'[d])
    BY <1>4, <2>2, <2>3
  <2>5. Strokes(up[d], k) = Stroke(Update(x, v), k) \cup Strokes(up'[d], k)
    BY <2>4, InStrokes
  <2> QED
    BY <2>1, <2>5
<1>6. Stroke(Update(x, v), k) = IF k = x THEN {v} ELSE {}
  BY DEF Stroke, Update
<1>7. ASSUME NEW c \in Clients, Online(c)', k \in Writes[c]
      PROVE  local'[c][k] = canvas'[k] \/ local'[c][k] \in Strokes(up'[c], k)
  <2>1. local[c][k] = canvas[k] \/ local[c][k] \in Strokes(up[c], k)
    BY <1>3, <1>7 DEF ComingUp, Online, Networked
  <2>2. CASE k # x
    BY <1>3, <1>4, <1>5, <1>6, <2>1, <2>2
  <2>3. CASE k = x
    <3>1. v \in Strokes(up[d], k)
      BY <1>5, <1>6, <2>3
    <3>2. k \in Writes[d] /\ canvas[k] <= v /\ v <= local[d][k]
      BY <3>1 DEF SInv, InOrderAt, OnTheWayUp
    <3>3. c = d
      BY <1>1, <1>7, <3>2, Numbers
    <3>4. canvas[k] \in Nat /\ local[d][k] \in Nat /\ v \in Nat
      BY <1>1, <3>1, Numbers
    <3>5. local[c][k] = canvas[k] => local[c][k] = v
      BY <3>2, <3>3, <3>4
    <3> QED
      BY <1>3, <1>4, <1>5, <1>6, <2>1, <2>3, <3>3, <3>5
  <2> QED
    BY <2>2, <2>3
<1> QED
  BY <1>7 DEF ComingUp

LEMMA ComingUpDrawn ==
  ASSUME SInv, serverUp, NEW d \in Clients, NEW x \in Writes[d], Edit(d, x),
         NEW k \in SingleAuthor, ComingUp(k)
  PROVE  ComingUp(k)'
<1> DEFINE n == edits + 1
<1>1. Kept /\ up \in [Clients -> Seq(Updates)] /\ k \in Cells /\ x \in Cells
  BY SessionAssumption DEF SInv, Kept, Streams, SingleAuthor
<1>2. /\ local' = [local EXCEPT ![d][x] = n] /\ n \in Values /\ UNCHANGED canvas
      /\ IF cpc[d] = "online" THEN up' = [up EXCEPT ![d] = Append(@, Update(x, n))]
                              ELSE UNCHANGED up
  BY <1>1, SessionAssumption DEF Edit, serverVars, Kept, TypeOK, Values
<1>3. /\ cpc[d] \in {"online", "offline"} /\ \A c \in Clients : Online(c)' => Online(c)
  BY <1>1 DEF Edit, CGoto, Online, Networked, Kept, TypeOK
<1>4. \A c \in Clients : local'[c][k] = IF c = d /\ k = x THEN n ELSE local[c][k]
  BY <1>1, <1>2 DEF Kept, TypeOK, Canvases
<1> HIDE DEF n
<1>5. ASSUME NEW c \in Clients, Online(c)', k \in Writes[c]
      PROVE  local'[c][k] = canvas'[k] \/ local'[c][k] \in Strokes(up'[c], k)
  <2>1. local[c][k] = canvas[k] \/ local[c][k] \in Strokes(up[c], k)
    BY <1>3, <1>5 DEF ComingUp
  <2>2. CASE c # d
    BY <1>1, <1>2, <1>4, <2>1, <2>2
  <2>3. CASE c = d
    <3>1. cpc[d] = "online"
      BY <1>3, <1>5, <2>3 DEF Online, Networked
    <3>2. up'[d] = Append(up[d], Update(x, n))
      BY <1>1, <1>2, <3>1
    <3>3. up[d] \in Seq(Updates) /\ Update(x, n) \in Updates
      BY <1>1, <1>2 DEF Updates
    <3>4. In(up'[d]) = In(up[d]) \cup {Update(x, n)}
      BY <3>2, <3>3, InAppend
    <3>5. Strokes(up'[d], k) = Strokes(up[d], k) \cup Stroke(Update(x, n), k)
      BY <3>4, InStrokes
    <3>6. Stroke(Update(x, n), k) = IF k = x THEN {n} ELSE {}
      BY DEF Stroke, Update
    <3> QED
      BY <1>2, <1>4, <2>1, <2>3, <3>5, <3>6
  <2> QED
    BY <2>2, <2>3
<1> QED
  BY <1>5 DEF ComingUp

(* An author comes in with nothing of his own on the way.                   *)
LEMMA ComingUpEntered ==
  ASSUME SInv, Next, NEW c \in Clients, Online(c)', ~Online(c),
         NEW k \in SingleAuthor, k \in Writes[c]
  PROVE  local'[c][k] = canvas'[k]
<1>1. Kept
  BY DEF SInv
<1> DEFINE t == Line(c)
<1>2. /\ t \in Tokens /\ t.kind = "cells" /\ local' = [local EXCEPT ![c] = t.cells]
      /\ Mark(t, k) \subseteq Marks(Stream(c), k)
  BY <1>1, Entering DEF Marks
<1>3. Starting(c) /\ canvas' = canvas
  BY <1>1, Entering DEF ReadCanvas, HandshakeEnds, serverVars, Starting
<1> HIDE DEF t
<1>4. t.cells[k] = 0 /\ canvas[k] = 0
  BY <1>2, <1>3, OwnCellsLoaded
<1>5. local'[c] = t.cells
  BY <1>1, <1>2 DEF Kept, TypeOK
<1> QED
  BY <1>3, <1>4, <1>5

LEMMA ComingUpStep ==
  ASSUME MaxRead = 1, SInv, serverUp, serverUp', Next, NEW k \in SingleAuthor, ComingUp(k)
  PROVE  ComingUp(k)'
<1>1. CASE \E d \in Clients : ReadSet(d)
  BY <1>1, ComingUpStored
<1>2. CASE \E d \in Clients : \E x \in Writes[d] : Edit(d, x)
  BY <1>2, ComingUpDrawn
<1>3. CASE /\ UNCHANGED <<canvas, up>>
           /\ ~ \E d \in Clients : \E x \in Writes[d] : Edit(d, x)
  <2>1. ASSUME NEW c \in Clients, Online(c)', k \in Writes[c]
        PROVE  local'[c][k] = canvas'[k] \/ local'[c][k] \in Strokes(up'[c], k)
    <3>1. CASE ~Online(c)
      BY <2>1, <3>1, ComingUpEntered
    <3>2. CASE Online(c)
      <4>1. local'[c][k] = local[c][k]
        BY <1>3, <2>1, <3>2, LocalStep, OwnCellsKept DEF SInv
      <4>2. local[c][k] = canvas[k] \/ local[c][k] \in Strokes(up[c], k)
        BY <2>1, <3>2 DEF ComingUp
      <4> QED
        BY <1>3, <4>1, <4>2
    <3> QED
      BY <1>3, <2>1, <3>1, <3>2
  <2> QED
    BY <2>1 DEF ComingUp
<1> QED
  BY <1>1, <1>2, <1>3, UpStep

LEMMA ComingUpInit == Init => UInv
<1> SUFFICES ASSUME Init PROVE SInv /\ \A k \in SingleAuthor : ComingUp(k)
  BY DEF UInv
<1>1. SInv
  BY KeptInit, OrderInit DEF SInv
<1>2. \A c \in Clients : \A k \in Cells : local[c][k] = canvas[k]
  BY DEF Init
<1> QED
  BY <1>1, <1>2 DEF ComingUp, SingleAuthor

LEMMA ComingUpKept == MaxRead = 1 /\ UInv /\ [Next]_vars => UInv'
<1> SUFFICES ASSUME MaxRead = 1, UInv, [Next]_vars PROVE UInv'
  OBVIOUS
<1>1. SInv /\ SInv'
  BY OrderKept DEF UInv
<1>2. ASSUME serverUp', NEW k \in SingleAuthor PROVE ComingUp(k)'
  <2>1. CASE Next
    <3>1. serverUp /\ ComingUp(k)
      BY <1>2, <2>1, ServerStays DEF UInv
    <3> QED
      BY <1>1, <1>2, <2>1, <3>1, ComingUpStep
  <2>2. CASE UNCHANGED vars
    BY <1>2, <2>2 DEF UInv, ComingUp, Online, Networked, vars
  <2> QED
    BY <2>1, <2>2
<1> QED
  BY <1>1, <1>2 DEF UInv

LEMMA RestConverged == CInv /\ UInv => ConvergedAtRest
<1> SUFFICES ASSUME CInv, UInv, AtRest, NEW c \in Clients, Online(c), c \notin missed,
                    NEW k \in SingleAuthor, <<c, k>> \notin clobbered
             PROVE  local[c][k] = canvas[k]
  BY DEF ConvergedAtRest
<1>1. CASE k \notin Writes[c]
  BY <1>1, RestCurrent DEF ViewersConverged
<1>2. CASE k \in Writes[c]
  <2>1. local[c][k] = canvas[k] \/ local[c][k] \in Strokes(up[c], k)
    BY <1>2, AtRestEmpty DEF UInv, ComingUp
  <2>2. Strokes(up[c], k) = {}
    BY AtRestEmpty, NothingTold
  <2> QED
    BY <2>1, <2>2
<1> QED
  BY <1>1, <1>2

(* Where each read() of a thread returns one command, every client that no  *)
(* broken-off broadcast has left out shows the master's picture once the    *)
(* streams are empty, its own cells included, but for the cells of its      *)
(* first canvas that another thread put back in the shared buffer: joins,   *)
(* departures and edits may come in any order before.  (A read() of two     *)
(* drops the second, and its author is ahead of the master for good.)       *)
THEOREM SessionConverges == MaxRead = 1 => (Spec => []ConvergedAtRest)
<1> SUFFICES ASSUME MaxRead = 1 PROVE Spec => []ConvergedAtRest
  OBVIOUS
<1>1. UInv /\ [Next]_vars => UInv'
  BY ComingUpKept
<1> QED
  BY <1>1, ComingUpInit, RestConverged, SessionCurrent, PTL DEF Spec
=============================================================================
