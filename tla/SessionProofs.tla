---------------------------- MODULE SessionProofs ---------------------------
(***************************************************************************)
(* The order of a session, for any clients, cells, edits, reads and socket *)
(* sizes: what streams and buffers hold of a cell with one author lies     *)
(* between the author and the viewers, in the order it was drawn.          *)
(***************************************************************************)
EXTENDS Session, SequenceTheorems, FiniteSetTheorems, TLAPS

-----------------------------------------------------------------------------
(* What the tokens of a stream say of a cell. *)

(* The stroke that an update puts in the cell *)
Stroke(t, k) == IF t.kind = "s" /\ k \in DOMAIN t.cells THEN {t.cells[k]} ELSE {}

(* What a token, an update or a whole canvas, knows of it *)
Mark(t, k) == IF k \in DOMAIN t.cells THEN {t.cells[k]} ELSE {}

Strokes(s, k) == UNION {Stroke(s[i], k) : i \in DOMAIN s}
Marks(s, k) == UNION {Mark(s[i], k) : i \in DOMAIN s}

(* Nothing in the stream is followed by an older stroke. *)
Ordered(s, k) ==
  \A i, j \in DOMAIN s : i < j =>
    \A v \in Mark(s[i], k), w \in Stroke(s[j], k) : v <= w

(* One stream says no more of the cell than the other. *)
Tells(s, t, k) ==
  /\ Strokes(t, k) \subseteq Strokes(s, k) /\ Marks(t, k) \subseteq Marks(s, k)
  /\ Ordered(s, k) => Ordered(t, k)

LEMMA TokenKinds ==
  /\ \A t \in Updates : t \in Tokens /\ t.kind = "s"
                        /\ \E x \in Cells, v \in Values : t = Update(x, v)
  /\ \A t \in Tokens : t.kind = "s" => t \in Updates
  /\ \A t \in Tokens : t.kind = "cells" => t.cells \in Canvases
  /\ \A t \in Tokens : t.kind \in {"vok", "cs", "nl", "q", "cells", "s"}
  /\ \A cells \in Canvases : Whole(cells) \in Tokens
  /\ \A kind \in {"vok", "cs", "nl", "q"} : Plain(kind) \in Tokens
<1>0. \A x, v : Update(x, v).kind = "s"
  BY DEF Update
<1>1. \A t \in Updates : /\ t \in Tokens /\ t.kind = "s"
                         /\ \E x \in Cells, v \in Values : t = Update(x, v)
  BY <1>0 DEF Updates, Tokens
<1>2. \A cells : Whole(cells).kind = "cells" /\ Whole(cells).cells = cells
  BY DEF Whole
<1>3. \A kind : Plain(kind).kind = kind
  BY DEF Plain
<1> QED
  BY <1>1, <1>2, <1>3 DEF Tokens

LEMMA TokenMarks ==
  ASSUME NEW k
  PROVE  /\ \A t \in Updates : Stroke(t, k) = Mark(t, k)
         /\ \A x, v : Mark(Update(x, v), k) = IF k = x THEN {v} ELSE {}
         /\ \A cells \in Canvases : /\ Stroke(Whole(cells), k) = {}
                                    /\ k \in Cells => Mark(Whole(cells), k) = {cells[k]}
         /\ \A kind : Mark(Plain(kind), k) = {}
         /\ \A t \in Tokens : Stroke(t, k) \subseteq Mark(t, k) /\ Mark(t, k) \subseteq Values
<1>1. \A t \in Updates : t.kind = "s"
  BY TokenKinds
<1>2. \A x, v : Mark(Update(x, v), k) = IF k = x THEN {v} ELSE {}
  BY DEF Mark, Update
<1>3. \A cells \in Canvases : /\ Stroke(Whole(cells), k) = {}
                              /\ k \in Cells => Mark(Whole(cells), k) = {cells[k]}
  BY DEF Mark, Stroke, Whole, Canvases
<1>4. \A kind : Mark(Plain(kind), k) = {}
  BY DEF Mark, Plain
<1>5. \A t \in Tokens : Mark(t, k) \subseteq Values
  <2>1. \A cells \in Canvases : Mark(Whole(cells), k) \subseteq Values
    BY DEF Mark, Whole, Canvases
  <2> QED
    BY <2>1, <1>2, <1>4 DEF Tokens, Updates
<1> QED
  BY <1>1, <1>2, <1>3, <1>4, <1>5 DEF Stroke, Mark

(* A token joins the end of a stream: ... in order, if it is no older.      *)
LEMMA AppendTells ==
  ASSUME NEW s \in Seq(Tokens), NEW t \in Tokens, NEW k
  PROVE  /\ Append(s, t) \in Seq(Tokens)
         /\ Strokes(Append(s, t), k) = Strokes(s, k) \cup Stroke(t, k)
         /\ Marks(Append(s, t), k) = Marks(s, k) \cup Mark(t, k)
         /\ Ordered(s, k) /\ (\A v \in Marks(s, k), w \in Stroke(t, k) : v <= w)
              => Ordered(Append(s, t), k)
<1> DEFINE u == Append(s, t)
           n == Len(s)
<1>1. /\ n \in Nat /\ DOMAIN s = 1 .. n /\ u \in Seq(Tokens)
      /\ DOMAIN u = 1 .. n + 1 /\ u[n + 1] = t
      /\ \A i \in 1 .. n : u[i] = s[i]
  BY LenProperties, AppendProperties
<1> HIDE DEF u, n
<1>2. DOMAIN u = DOMAIN s \cup {n + 1}
  BY <1>1
<1>3. /\ Strokes(u, k) = Strokes(s, k) \cup Stroke(t, k)
      /\ Marks(u, k) = Marks(s, k) \cup Mark(t, k)
  BY <1>1, <1>2 DEF Strokes, Marks
<1>4. ASSUME Ordered(s, k), \A v \in Marks(s, k), w \in Stroke(t, k) : v <= w
      PROVE  Ordered(u, k)
  <2>1. SUFFICES ASSUME NEW i \in DOMAIN u, NEW j \in DOMAIN u, i < j,
                        NEW v \in Mark(u[i], k), NEW w \in Stroke(u[j], k)
                 PROVE  v <= w
    BY DEF Ordered
  <2>2. i \in 1 .. n /\ u[i] = s[i]
    BY <1>1, <2>1
  <2>3. CASE j = n + 1
    BY <1>1, <1>4, <2>2, <2>3 DEF Marks
  <2>4. CASE j # n + 1
    <3>1. j \in 1 .. n /\ u[j] = s[j]
      BY <1>1, <2>4
    <3> QED
      BY <1>1, <1>4, <2>1, <2>2, <3>1 DEF Ordered
  <2> QED
    BY <2>3, <2>4
<1> QED
  BY <1>1, <1>3, <1>4 DEF u

(* The first n tokens leave a stream. *)
Rest(s, n) == SubSeq(s, n + 1, Len(s))

LEMMA RestIndex ==
  ASSUME NEW S, NEW s \in Seq(S), NEW n \in 0 .. Len(s)
  PROVE  /\ Rest(s, n) \in Seq(S) /\ Len(Rest(s, n)) = Len(s) - n
         /\ DOMAIN Rest(s, n) = 1 .. Len(s) - n
         /\ DOMAIN s = 1 .. Len(s) /\ Len(s) \in Nat
         /\ \A i \in 1 .. Len(s) - n : Rest(s, n)[i] = s[i + n]
         /\ \A i \in 1 .. Len(s) : i > n => Rest(s, n)[i - n] = s[i]
<1>1. Len(s) \in Nat /\ DOMAIN s = 1 .. Len(s)
  BY LenProperties
<1>2. \A i \in n + 1 .. Len(s) : s[i] \in S
  BY <1>1, ElementOfSeq
<1>3. /\ Rest(s, n) \in Seq(S) /\ Len(Rest(s, n)) = Len(s) - n
      /\ \A i \in 1 .. Len(s) - n : Rest(s, n)[i] = s[n + 1 + i - 1]
  <2> DEFINE m == n + 1
             l == Len(s)
  <2>1. /\ m \in Int /\ l \in Int /\ l - m + 1 = l - n
        /\ m > l => l - n = 0
    <3>1. n \in Nat /\ l \in Nat /\ n <= l
      BY <1>1
    <3> HIDE DEF l
    <3> QED
      BY <3>1
  <2>2. \A i \in m .. l : s[i] \in S
    BY <1>2
  <2>3. Rest(s, n) = SubSeq(s, m, l)
    BY DEF Rest
  <2> HIDE DEF m, l
  <2>4. /\ SubSeq(s, m, l) \in Seq(S)
        /\ Len(SubSeq(s, m, l)) = IF m <= l THEN l - m + 1 ELSE 0
        /\ \A i \in 1 .. l - m + 1 : SubSeq(s, m, l)[i] = s[m + i - 1]
    BY <2>1, <2>2, SubSeqProperties
  <2>5. /\ Rest(s, n) \in Seq(S) /\ Len(Rest(s, n)) = l - n
        /\ \A i \in 1 .. l - n : Rest(s, n)[i] = s[m + i - 1]
    BY <2>1, <2>3, <2>4
  <2> QED
    BY <2>5 DEF m, l
<1>4. DOMAIN Rest(s, n) = 1 .. Len(s) - n
  BY <1>3, LenProperties
<1>5. \A i \in 1 .. Len(s) - n : Rest(s, n)[i] = s[i + n]
  <2>1. \A i \in 1 .. Len(s) - n : n + 1 + i - 1 = i + n
    BY <1>1
  <2> QED
    BY <1>3, <2>1
<1>6. ASSUME NEW i \in 1 .. Len(s), i > n PROVE Rest(s, n)[i - n] = s[i]
  <2>1. i - n \in 1 .. Len(s) - n /\ (i - n) + n = i
    BY <1>1, <1>6
  <2> QED
    BY <1>5, <2>1
<1> QED
  BY <1>1, <1>3, <1>4, <1>5, <1>6

LEMMA RestConcat ==
  ASSUME NEW S, NEW s \in Seq(S), NEW t \in Seq(S), NEW n \in 1 .. Len(s)
  PROVE  /\ Rest(s, n) \o t = Rest(s \o t, n)
         /\ n \in 1 .. Len(s \o t) /\ 1 \in DOMAIN (s \o t)
         /\ \A i \in 1 .. n : (s \o t)[i] = s[i]
<1> DEFINE u == s \o t
           l == Len(s)
           m == Len(t)
           r == Rest(s, n)
<1>1. /\ l \in Nat /\ m \in Nat /\ n \in 0 .. l /\ n \in Nat /\ n \in 1 .. l
      /\ u \in Seq(S) /\ Len(u) = l + m /\ DOMAIN u = 1 .. l + m
      /\ \A i \in 1 .. l + m : u[i] = IF i <= l THEN s[i] ELSE t[i - l]
  BY LenProperties, ConcatProperties
<1>2. n \in 0 .. Len(u)
  BY <1>1
<1>3. /\ r \in Seq(S) /\ Len(r) = l - n
      /\ \A i \in 1 .. l - n : r[i] = s[i + n]
  BY <1>1, RestIndex, Zenon
<1>4. /\ Rest(u, n) \in Seq(S) /\ Len(Rest(u, n)) = Len(u) - n
      /\ \A i \in 1 .. Len(u) - n : Rest(u, n)[i] = u[i + n]
  BY <1>1, <1>2, RestIndex, Zenon
<1> HIDE DEF u, l, m, r
<1>5. Len(Rest(u, n)) = (l - n) + m
  BY <1>1, <1>4
<1>6. /\ r \o t \in Seq(S) /\ Len(r \o t) = (l - n) + m
      /\ \A i \in 1 .. (l - n) + m : (r \o t)[i] = IF i <= l - n THEN r[i] ELSE t[i - (l - n)]
  <2>1. /\ r \o t \in Seq(S) /\ Len(r \o t) = Len(r) + Len(t)
        /\ \A i \in 1 .. Len(r) + Len(t) :
             (r \o t)[i] = IF i <= Len(r) THEN r[i] ELSE t[i - Len(r)]
    BY <1>3, ConcatProperties
  <2>2. Len(r) = l - n /\ Len(t) = m
    BY <1>3 DEF m
  <2> QED
    BY <2>1, <2>2
<1>7. ASSUME NEW i \in 1 .. (l - n) + m PROVE (r \o t)[i] = Rest(u, n)[i]
  <2>1. i \in 1 .. Len(u) - n /\ i + n \in 1 .. l + m /\ i \in Nat
    BY <1>1, <1>7
  <2>2. Rest(u, n)[i] = IF i + n <= l THEN s[i + n] ELSE t[i + n - l]
    BY <1>1, <1>4, <2>1
  <2>3. CASE i <= l - n
    BY <1>1, <1>3, <1>6, <2>1, <2>2, <2>3
  <2>4. CASE ~(i <= l - n)
    <3>1. i - (l - n) = i + n - l /\ ~(i + n <= l)
      BY <1>1, <2>1, <2>4
    <3>2. (r \o t)[i] = t[i - (l - n)]
      BY <1>6, <1>7, <2>4
    <3> QED
      BY <2>2, <3>1, <3>2
  <2> QED
    BY <2>3, <2>4
<1>8. r \o t = Rest(u, n)
  <2>1. Len(r \o t) = Len(Rest(u, n)) /\ Len(r \o t) = (l - n) + m
    BY <1>5, <1>6
  <2> QED
    BY <1>4, <1>6, <1>7, <2>1, SeqEqual
<1> QED
  BY <1>1, <1>8 DEF u, r

LEMMA RestTells ==
  ASSUME NEW s \in Seq(Tokens), NEW n \in 0 .. Len(s), NEW k
  PROVE  /\ Rest(s, n) \in Seq(Tokens)
         /\ Tells(s, Rest(s, n), k)
         /\ \A i \in DOMAIN s : i > n => Stroke(s[i], k) \subseteq Strokes(Rest(s, n), k)
         /\ Ordered(s, k) =>
              \A i \in 1 .. n : \A v \in Mark(s[i], k), w \in Strokes(Rest(s, n), k) : v <= w
<1> DEFINE u == Rest(s, n)
<1>1. /\ u \in Seq(Tokens) /\ DOMAIN u = 1 .. Len(s) - n
      /\ DOMAIN s = 1 .. Len(s) /\ Len(s) \in Nat
      /\ \A i \in 1 .. Len(s) - n : u[i] = s[i + n]
      /\ \A i \in 1 .. Len(s) : i > n => u[i - n] = s[i]
  BY RestIndex
<1> HIDE DEF u
<1>2. \A i \in DOMAIN u : i \in Nat /\ i + n \in DOMAIN s /\ u[i] = s[i + n]
  BY <1>1
<1>3. Strokes(u, k) \subseteq Strokes(s, k) /\ Marks(u, k) \subseteq Marks(s, k)
  BY <1>2 DEF Strokes, Marks
<1>4. ASSUME Ordered(s, k) PROVE Ordered(u, k)
  <2>1. \A i, j \in DOMAIN u : i < j => i + n < j + n
    BY <1>2
  <2> QED
    BY <1>2, <1>4, <2>1 DEF Ordered
<1>5. ASSUME NEW i \in DOMAIN s, i > n PROVE Stroke(s[i], k) \subseteq Strokes(u, k)
  <2>1. i - n \in DOMAIN u /\ u[i - n] = s[i]
    BY <1>1, <1>5
  <2> QED
    BY <2>1 DEF Strokes
<1>6. ASSUME Ordered(s, k), NEW i \in 1 .. n, NEW v \in Mark(s[i], k),
             NEW w \in Strokes(u, k)
      PROVE  v <= w
  <2>1. PICK j \in DOMAIN u : w \in Stroke(u[j], k)
    BY DEF Strokes
  <2>2. i \in DOMAIN s /\ j + n \in DOMAIN s /\ i < j + n /\ u[j] = s[j + n]
    BY <1>1, <1>2
  <2> QED
    BY <1>6, <2>1, <2>2 DEF Ordered
<1> QED
  BY <1>1, <1>3, <1>4, <1>5, <1>6 DEF u, Tells

LEMMA NothingTold ==
  ASSUME NEW s, NEW k
  PROVE  /\ Tells(s, s, k) /\ Tells(s, <<>>, k)
         /\ Strokes(<<>>, k) = {} /\ Marks(<<>>, k) = {} /\ Ordered(<<>>, k)
<1>1. DOMAIN <<>> = {}
  OBVIOUS
<1>2. Strokes(<<>>, k) = {} /\ Marks(<<>>, k) = {} /\ Ordered(<<>>, k)
  BY <1>1 DEF Strokes, Marks, Ordered
<1> QED
  BY <1>2 DEF Tells

-----------------------------------------------------------------------------
(* Types, and where threads stand with the mutex *)

(* What a client has yet to read: its stdio stream's buffer, then the socket *)
Stream(c) == inbuf[c] \o down[c]

Streams ==
  /\ pending \in [Clients -> Updates \cup {Plain("none")}]
  /\ up \in [Clients -> Seq(Updates)]
  /\ down \in [Clients -> Seq(Tokens)]
  /\ inbuf \in [Clients -> Seq(Tokens)]

Places ==
  /\ mutex = None => todo = {}
  /\ \A c \in Clients : /\ spc[c] = "send" => mutex = c
                        /\ spc[c] \in {"lock", "send"} => pending[c] \in Updates
                        /\ spc[c] = "absent" => cpc[c] = "absent"

(* Only a client that loaded an update as the canvas has it in msg_buf uncut. *)
Parsed == \A c \in Clients : msgBuf[c].kind = "s" => c \in garbled

Kept == TypeOK /\ Streams /\ Places /\ Parsed

LEMMA StreamSeq ==
  ASSUME Streams, NEW c \in Clients
  PROVE  Stream(c) \in Seq(Tokens)
BY ConcatProperties DEF Streams, Stream

(* write() puts the token behind all that the client has yet to read.       *)
LEMMA DeliverStream ==
  ASSUME Streams, NEW d \in Clients, NEW token \in Tokens, Deliver(d, token),
         UNCHANGED inbuf
  PROVE  /\ down' \in [Clients -> Seq(Tokens)]
         /\ \A c \in Clients : c # d => Stream(c)' = Stream(c)
         /\ Stream(d)' = IF Closed(d) THEN Stream(d) ELSE Append(Stream(d), token)
<1>1. CASE Closed(d)
  BY <1>1 DEF Deliver, Stream, Streams
<1>2. CASE ~Closed(d)
  <2>1. down' = [down EXCEPT ![d] = Append(@, token)]
    BY <1>2 DEF Deliver
  <2>2. /\ down[d] \in Seq(Tokens) /\ inbuf[d] \in Seq(Tokens)
        /\ <<token>> \in Seq(Tokens)
    BY DEF Streams
  <2>3. Append(down[d], token) \in Seq(Tokens)
    BY <2>2, AppendProperties
  <2>4. /\ down' \in [Clients -> Seq(Tokens)]
        /\ \A c \in Clients : c # d => down'[c] = down[c]
        /\ down'[d] = Append(down[d], token)
    BY <2>1, <2>3 DEF Streams
  <2>5. Append(down[d], token) = down[d] \o <<token>>
    BY <2>2, AppendIsConcat
  <2>6. Append(Stream(d), token) = Stream(d) \o <<token>>
    <3>1. Stream(d) \in Seq(Tokens)
      BY StreamSeq
    <3> QED
      BY <3>1, AppendIsConcat
  <2>7. inbuf[d] \o (down[d] \o <<token>>) = (inbuf[d] \o down[d]) \o <<token>>
    <3> DEFINE i == inbuf[d]
               j == down[d]
               e == <<token>>
    <3>1. i \in Seq(Tokens) /\ j \in Seq(Tokens) /\ e \in Seq(Tokens)
      BY <2>2
    <3> HIDE DEF i, j, e
    <3>2. (i \o j) \o e = i \o (j \o e)
      BY <3>1, ConcatAssociative
    <3> QED
      BY <3>2 DEF i, j, e
  <2>8. Stream(d)' = inbuf[d] \o down'[d] /\ Stream(d) = inbuf[d] \o down[d]
        /\ \A c \in Clients : c # d => Stream(c)' = Stream(c)
    BY <2>4 DEF Stream
  <2>9. Stream(d)' = Append(Stream(d), token)
    BY <2>4, <2>5, <2>6, <2>7, <2>8
  <2> QED
    BY <1>2, <2>4, <2>8, <2>9
<1> QED
  BY <1>1, <1>2

LEMMA Least ==
  ASSUME NEW T \in SUBSET Nat, T # {}
  PROVE  \E i \in T : \A j \in T : i <= j
<1> DEFINE Below == {1 .. i : i \in T}
<1>1. Below \subseteq FiniteSubsetsOf(Nat) /\ Below # {}
  <2>1. ASSUME NEW i \in T PROVE 1 .. i \in FiniteSubsetsOf(Nat)
    <3>1. IsFiniteSet(1 .. i) /\ 1 .. i \subseteq Nat
      BY FS_Interval
    <3> QED
      BY <3>1 DEF FiniteSubsetsOf
  <2> QED
    BY <2>1
<1>2. IsWellFoundedOn(StrictSubsetOrdering(Nat), FiniteSubsetsOf(Nat))
  BY FS_StrictSubsetOrderingWellFounded
<1>3. PICK X \in Below : \A Y \in Below : ~(<<Y, X>> \in StrictSubsetOrdering(Nat))
  <2> HIDE DEF Below
  <2> QED
    BY <1>1, <1>2, WFMin
<1>4. PICK i \in T : X = 1 .. i
  OBVIOUS
<1>5. ASSUME NEW j \in T, j < i PROVE FALSE
  <2>1. 1 .. j \subseteq 1 .. i /\ i \in 1 .. i /\ ~(i \in 1 .. j)
    BY <1>5
  <2>2. <<1 .. j, X>> \in StrictSubsetOrdering(Nat)
    BY <1>4, <2>1 DEF StrictSubsetOrdering
  <2> QED
    BY <1>3, <2>2
<1> QED
  BY <1>5

(* getline() takes the tokens up to the first that ends in a newline.       *)
LEMMA GetlineStream ==
  ASSUME Streams, NEW c \in Clients, HasLine(c), Getline(c)
  PROVE  /\ down' \in [Clients -> Seq(Tokens)] /\ inbuf' \in [Clients -> Seq(Tokens)]
         /\ \A d \in Clients : d # c => Stream(d)' = Stream(d)
         /\ Line(c) = Stream(c)[1] /\ Line(c) \in Tokens /\ 1 \in DOMAIN Stream(c)
         /\ \E n \in 1 .. Len(Stream(c)) :
              /\ Stream(c)' = Rest(Stream(c), n)
              /\ EndsLine(Stream(c)[n])
              /\ \A i \in 1 .. n - 1 : ~EndsLine(Stream(c)[i])
<1> DEFINE in == inbuf[c]
           s == Visible(c)
           buffered == LineEnds(in) # {}
           n == CHOOSE i \in LineEnds(s) : \A j \in LineEnds(s) : i <= j
<1>1. in \in Seq(Tokens) /\ down[c] \in Seq(Tokens) /\ Stream(c) = in \o down[c]
  BY DEF Streams, Stream
<1>2. /\ s \in Seq(Tokens) /\ s = IF buffered THEN in ELSE Stream(c)
      /\ LineEnds(s) # {}
  BY <1>1, StreamSeq DEF Visible, HasLine, Stream
<1>3. Len(s) \in Nat /\ DOMAIN s = 1 .. Len(s) /\ LineEnds(s) \subseteq 1 .. Len(s)
  BY <1>2, LenProperties DEF LineEnds
<1>4. \E i \in LineEnds(s) : \A j \in LineEnds(s) : i <= j
  <2>1. LineEnds(s) \in SUBSET Nat
    BY <1>3
  <2> QED
    BY <1>2, <2>1, Least
<1>5. n \in LineEnds(s) /\ \A j \in LineEnds(s) : n <= j
  BY <1>4
<1>6. /\ inbuf' = [inbuf EXCEPT ![c] = Rest(s, n)]
      /\ down' = IF buffered THEN down ELSE [down EXCEPT ![c] = <<>>]
  BY DEF Getline, Rest
<1>7. /\ n \in 1 .. Len(s) /\ EndsLine(s[n])
      /\ \A i \in 1 .. n - 1 : ~EndsLine(s[i])
  <2>1. n \in 1 .. Len(s) /\ EndsLine(s[n])
    BY <1>3, <1>5 DEF LineEnds
  <2> HIDE DEF n, s
  <2>2. ASSUME NEW i \in 1 .. n - 1 PROVE ~EndsLine(s[i])
    BY <1>3, <1>5, <2>1 DEF LineEnds
  <2> QED
    BY <2>1, <2>2
<1>8. Line(c) = s[1]
  BY DEF Line
<1> HIDE DEF n, s
<1>9. Rest(s, n) \in Seq(Tokens)
  <2>1. n \in 0 .. Len(s)
    BY <1>3, <1>7
  <2>2. s \in Seq(Tokens)
    BY <1>2
  <2> QED
    BY <2>1, <2>2, RestIndex, Zenon
<1>10. /\ down' \in [Clients -> Seq(Tokens)] /\ inbuf' \in [Clients -> Seq(Tokens)]
       /\ \A d \in Clients : d # c => inbuf'[d] = inbuf[d] /\ down'[d] = down[d]
       /\ inbuf'[c] = Rest(s, n) /\ down'[c] = IF buffered THEN down[c] ELSE <<>>
  BY <1>6, <1>9 DEF Streams
<1>11. \A d \in Clients : d # c => Stream(d)' = Stream(d)
  BY <1>10 DEF Stream
<1>12. 1 \in 1 .. Len(s) /\ s[1] \in Tokens
  BY <1>2, <1>3, <1>7, ElementOfSeq
<1>13. CASE ~buffered
  <2>1. Stream(c)' = Rest(s, n) \o <<>>
    BY <1>10, <1>13 DEF Stream
  <2>2. Stream(c)' = Rest(s, n)
    BY <1>9, <2>1, ConcatEmptySeq
  <2>3. s = Stream(c) /\ DOMAIN s = 1 .. Len(s)
    BY <1>2, <1>3, <1>13
  <2>4. Line(c) = Stream(c)[1] /\ Line(c) \in Tokens /\ 1 \in DOMAIN Stream(c)
    BY <1>8, <1>12, <2>3
  <2>5. \E i \in 1 .. Len(Stream(c)) :
          /\ Stream(c)' = Rest(Stream(c), i) /\ EndsLine(Stream(c)[i])
          /\ \A j \in 1 .. i - 1 : ~EndsLine(Stream(c)[j])
    BY <1>7, <2>2, <2>3
  <2> QED
    BY <1>10, <1>11, <2>4, <2>5
<1>14. CASE buffered
  <2> DEFINE d == down[c]
  <2>1. s = in /\ Stream(c)' = Rest(in, n) \o d /\ Stream(c) = in \o d
    BY <1>1, <1>2, <1>10, <1>14 DEF Stream
  <2> HIDE DEF d, in
  <2>2. /\ Rest(in, n) \in Seq(Tokens) /\ d \in Seq(Tokens) /\ in \in Seq(Tokens)
        /\ Len(in) \in Nat /\ n \in 1 .. Len(in) /\ n \in 0 .. Len(in)
        /\ EndsLine(in[n]) /\ \A i \in 1 .. n - 1 : ~EndsLine(in[i])
    BY <1>1, <1>3, <1>7, <1>9, <2>1 DEF d
  <2>3. /\ Rest(in, n) \o d = Rest(in \o d, n)
        /\ n \in 1 .. Len(in \o d) /\ 1 \in DOMAIN (in \o d)
        /\ \A i \in 1 .. n : (in \o d)[i] = in[i]
    <3>1. in \in Seq(Tokens) /\ d \in Seq(Tokens) /\ n \in 1 .. Len(in)
      BY <2>2
    <3> QED
      BY <3>1, RestConcat
  <2>4. \A i \in 1 .. n - 1 : ~EndsLine((in \o d)[i])
    BY <2>2, <2>3
  <2>5. (in \o d)[1] = in[1] /\ EndsLine((in \o d)[n])
    BY <2>2, <2>3
  <2> QED
    BY <1>8, <1>10, <1>11, <1>12, <2>1, <2>3, <2>4, <2>5
<1> QED
  BY <1>13, <1>14

(* Every stream keeps to its kind of tokens. *)
LEMMA StreamsStep ==
  ASSUME TypeOK, Streams, Places, Next
  PROVE  Streams'
<1> USE DEF SAt, SGoto, CGoto, bufVars, sendVars, clientVars, serverVars, ServerEnds
<1>1. ASSUME NEW d \in Clients, NEW token \in Tokens, Deliver(d, token), UNCHANGED inbuf
      PROVE  down' \in [Clients -> Seq(Tokens)]
  BY <1>1, DeliverStream
<1>2. /\ <<>> \in Seq(Tokens) /\ <<>> \in Seq(Updates)
      /\ \A c \in Clients : up[c] \in Seq(Updates) /\ Len(up[c]) \in Nat
  BY EmptySeq, LenProperties DEF Streams
<1>3. ASSUME NEW c \in Clients, NEW from, NEW token \in Tokens, NEW to,
             WriteSelf(c, from, token, to)
      PROVE  Streams'
  <2>1. UNCHANGED <<pending, inbuf>>
    BY <1>3 DEF WriteSelf
  <2>2. CASE Deliver(c, token) /\ UNCHANGED up
    BY <1>1, <2>1, <2>2 DEF Streams
  <2>3. CASE ServerEnds /\ UNCHANGED down
    BY <1>2, <2>1, <2>3 DEF Streams
  <2> QED
    BY <1>3, <2>2, <2>3 DEF WriteSelf
<1>4. ASSUME NEW d \in Clients, NEW token \in Tokens, LoopWrite(d, token)
      PROVE  Streams'
  <2>1. UNCHANGED <<pending, up, inbuf>>
    BY <1>4 DEF LoopWrite
  <2>2. down' \in [Clients -> Seq(Tokens)]
    BY <1>1, <1>4, <2>1 DEF LoopWrite, Streams
  <2> QED
    BY <2>1, <2>2 DEF Streams
<1>5. ASSUME NEW c \in Clients, HasLine(c), Getline(c), UNCHANGED <<pending, up>>
      PROVE  Streams'
  BY <1>5, GetlineStream DEF Streams
<1>6. ASSUME NEW c \in Clients, ThreadStep(c) PROVE Streams'
  <2>1. CASE SendVok(c) \/ SendSize(c) \/ SendCells(c) \/ SendNewline(c)
    <3>1. Whole(canvasBuf) \in Tokens
      BY TokenKinds DEF TypeOK
    <3> QED
      BY <1>3, <2>1, <3>1, TokenKinds DEF SendVok, SendSize, SendCells, SendNewline
  <2>2. CASE ReadSet(c)
    <3>1. PICK n \in 1 .. MaxRead : /\ n <= Len(up[c])
                                    /\ up' = [up EXCEPT ![c] = Rest(@, n)]
      BY <2>2 DEF ReadSet, Rest
    <3>2. n \in 0 .. Len(up[c]) /\ 1 \in 1 .. Len(up[c])
      BY <1>2, <3>1, SessionAssumption
    <3>3. Rest(up[c], n) \in Seq(Updates) /\ up[c][1] \in Updates
      BY <1>2, <3>2, RestIndex, ElementOfSeq
    <3>4. pending' = [pending EXCEPT ![c] = up[c][1]] /\ UNCHANGED <<down, inbuf>>
      BY <2>2 DEF ReadSet
    <3> QED
      BY <3>1, <3>3, <3>4 DEF Streams
  <2>3. ASSUME NEW d \in Clients, SendTo(c, d) PROVE Streams'
    <3>1. pending[c] \in Tokens
      BY <2>3, TokenKinds DEF SendTo, Places
    <3> QED
      BY <1>4, <2>3, <3>1 DEF SendTo
  <2>4. CASE SendUnlock(c)
    BY <2>4 DEF SendUnlock, Streams
  <2>5. CASE (\E k \in Cells : LoadCell(c, k)) \/ StoreCell(c) \/ SendLock(c) \/ EndThread(c)
    BY <2>5 DEF LoadCell, StoreCell, SendLock, EndThread, Streams
  <2> QED
    BY <1>6, <2>1, <2>2, <2>3, <2>4, <2>5 DEF ThreadStep
<1>7. ASSUME NEW c \in Clients, ClientRead(c) PROVE Streams'
  <2>1. CASE ReadVok(c) \/ ReadSize(c) \/ ReadCanvas(c) \/ Receive(c)
    BY <1>5, <2>1 DEF ReadVok, ReadSize, ReadCanvas, Receive, Expect
  <2>2. CASE HandshakeEnds(c) \/ ReceiveEnd(c)
    BY <1>2, <2>2 DEF HandshakeEnds, ReceiveEnd, Drain, Streams
  <2>3. CASE AwaitRest(c) \/ Written(c)
    BY <2>3 DEF AwaitRest, Written, Streams
  <2> QED
    BY <1>7, <2>1, <2>2, <2>3 DEF ClientRead
<1>8. ASSUME NEW c \in Clients, NEW k \in Writes[c], Edit(c, k) PROVE Streams'
  <2>1. UNCHANGED <<pending, down, inbuf>>
    BY <1>8 DEF Edit
  <2>2. Update(k, edits') \in Updates
    <3>1. k \in Cells
      BY SessionAssumption
    <3>2. edits' \in Values
      BY <1>8, SessionAssumption DEF Edit, TypeOK, Values
    <3> QED
      BY <3>1, <3>2 DEF Updates
  <2>3. Append(up[c], Update(k, edits')) \in Seq(Updates)
    BY <1>2, <2>2, AppendProperties
  <2>4. UNCHANGED up \/ up' = [up EXCEPT ![c] = Append(@, Update(k, edits'))]
    BY <1>8 DEF Edit
  <2> QED
    BY <2>1, <2>3, <2>4 DEF Streams
<1>9. ASSUME NEW c \in Clients, Join(c) \/ ResizeTerminal(c)
      PROVE  Streams'
  BY <1>9 DEF Join, ResizeTerminal, Streams
<1>10. ASSUME NEW c \in Clients, Leave(c) PROVE Streams'
  BY <1>2, <1>10 DEF Leave, Drain, Streams
<1>11. CASE HandlerStep
  <2>1. Plain("q") \in Tokens
    BY TokenKinds
  <2>2. CASE Exit
    BY <1>2, <2>2 DEF Exit, Streams
  <2> QED
    BY <1>4, <1>11, <2>1, <2>2 DEF HandlerStep, FinishTo
<1>12. CASE Interrupt \/ Halt
  BY <1>12 DEF Interrupt, Halt, vars, Streams
<1> QED
  BY <1>6, <1>7, <1>8, <1>9, <1>10, <1>11, <1>12 DEF Next

(* An update changes one cell of a canvas. *)
LEMMA Painted ==
  ASSUME NEW pic \in Canvases, NEW t \in Updates
  PROVE  \E x \in Cells, v \in Values :
           /\ t = Update(x, v)
           /\ [pic EXCEPT ![x] = v] \in Canvases
           /\ [k \in Cells |-> IF k \in DOMAIN t.cells THEN t.cells[k] ELSE pic[k]]
                = [pic EXCEPT ![x] = v]
<1>1. PICK x \in Cells, v \in Values : t = Update(x, v)
  BY TokenKinds
<1>2. t.cells = [y \in {x} |-> v]
  BY <1>1 DEF Update
<1> QED
  BY <1>1, <1>2 DEF Canvases

LEMMA PaintedCanvas ==
  ASSUME NEW pic \in Canvases, NEW t \in Updates
  PROVE  [k \in Cells |-> IF k \in DOMAIN t.cells THEN t.cells[k] ELSE pic[k]] \in Canvases
<1>1. PICK x \in Cells, v \in Values : t = Update(x, v)
  BY TokenKinds
<1>2. t.cells = [y \in {x} |-> v]
  BY <1>1 DEF Update
<1> QED
  BY <1>2 DEF Canvases

(* What is read at the end of the server, without a newline, is a canvas.   *)
LEMMA UnendedLine ==
  ASSUME Streams, NEW c \in Clients, ~HasLine(c), Visible(c) # <<>>
  PROVE  /\ Line(c) = Stream(c)[1] /\ 1 \in DOMAIN Stream(c)
         /\ Line(c) \in Tokens /\ Line(c).kind = "cells"
<1> DEFINE s == Stream(c)
<1>1. s \in Seq(Tokens) /\ Visible(c) = s
  BY StreamSeq DEF HasLine, Visible, Stream
<1>2. Len(s) \in Nat /\ DOMAIN s = 1 .. Len(s) /\ Len(s) # 0
  BY <1>1, LenProperties, EmptySeq
<1>3. 1 \in DOMAIN s /\ s[1] \in Tokens
  BY <1>1, <1>2, ElementOfSeq
<1>4. ~EndsLine(s[1])
  BY <1>1, <1>3 DEF HasLine, LineEnds
<1> QED
  BY <1>1, <1>3, <1>4 DEF EndsLine, Line

(* What a client reads is a token of its stream, or what was in msg_buf.    *)
LEMMA LineKinds ==
  /\ \A t \in Tokens : t.kind # "cells" => t \in Lines
  /\ \A t \in Lines : t.kind = "s" => t \in Updates
  /\ \A kind \in {"none", "vok", "cs", "nl", "q", "cells", "cut", "word"} :
       Plain(kind) \in Lines /\ Plain(kind).kind # "s"
<1>1. \A cells : Whole(cells).kind = "cells"
  BY DEF Whole
<1>2. \A kind : Plain(kind).kind = kind
  BY DEF Plain
<1> QED
  BY <1>1, <1>2 DEF Tokens, Lines

(* What a client's step does to its canvas, and by which line.              *)
LEMMA ClientCases ==
  ASSUME Streams, NEW c \in Clients, ClientRead(c)
  PROVE  \/ UNCHANGED <<msgBuf, local, garbled>>
         \/ \E line \in Tokens : cpc[c] = "await_canvas" /\ Deserialize(c, line)
         \/ \E line \in Tokens \cup {msgBuf[c]} : Networked(c) /\ NetHandler(c, line)
<1>1. CASE ReadVok(c) \/ ReadSize(c) \/ AwaitRest(c) \/ Written(c)
  BY <1>1 DEF ReadVok, ReadSize, Expect, AwaitRest, Written
<1>2. CASE ReadCanvas(c)
  BY <1>2, GetlineStream DEF ReadCanvas
<1>3. Plain("cs") \in Tokens
  BY TokenKinds
<1>4. CASE HandshakeEnds(c)
  BY <1>3, <1>4, UnendedLine DEF HandshakeEnds, LastLine
<1>5. ASSUME Selected(c) PROVE Networked(c)
  BY <1>5 DEF Selected, Networked
<1>6. CASE Receive(c)
  BY <1>5, <1>6, GetlineStream DEF Receive
<1>7. CASE ReceiveEnd(c)
  BY <1>5, <1>7, UnendedLine DEF ReceiveEnd, LastLine
<1> QED
  BY <1>1, <1>2, <1>4, <1>6, <1>7 DEF ClientRead

LEMMA DeserializeData ==
  ASSUME TypeOK, NEW c \in Clients, NEW line \in Tokens, Deserialize(c, line)
  PROVE  /\ msgBuf' \in [Clients -> Lines] /\ local' \in [Clients -> Canvases]
         /\ garbled' \subseteq Clients
<1>1. /\ msgBuf \in [Clients -> Lines] /\ local \in [Clients -> Canvases]
      /\ garbled \subseteq Clients
  BY DEF TypeOK
<1>2. CASE line.kind = "cells"
  <2>1. line.cells \in Canvases /\ Plain("cells") \in Lines
    BY <1>2, TokenKinds, LineKinds
  <2> QED
    BY <1>1, <1>2, <2>1 DEF Deserialize
<1>3. CASE line.kind # "cells"
  <2>1. line \in Lines
    BY <1>3, LineKinds
  <2> QED
    BY <1>1, <1>3, <2>1 DEF Deserialize
<1> QED
  BY <1>2, <1>3

LEMMA NetHandlerData ==
  ASSUME TypeOK, NEW c \in Clients, NEW line \in Tokens \cup {msgBuf[c]}, NetHandler(c, line)
  PROVE  /\ msgBuf' \in [Clients -> Lines] /\ local' \in [Clients -> Canvases]
         /\ garbled' \subseteq Clients
<1>1. /\ msgBuf \in [Clients -> Lines] /\ local \in [Clients -> Canvases]
      /\ garbled \subseteq Clients
  BY DEF TypeOK
<1>2. CASE SetCell(c, line)
  <2> DEFINE mine == local[c]
  <2>1. line \in Updates
    BY <1>1, <1>2, TokenKinds, LineKinds DEF SetCell
  <2>2. /\ local' = [local EXCEPT ![c] = [k \in Cells |->
                       IF k \in DOMAIN line.cells THEN line.cells[k] ELSE mine[k]]]
        /\ msgBuf' = [msgBuf EXCEPT ![c] = Plain("cut")] /\ garbled' = garbled
    BY <1>1, <1>2 DEF SetCell
  <2>3. mine \in Canvases
    BY <1>1
  <2> HIDE DEF mine
  <2>4. [k \in Cells |-> IF k \in DOMAIN line.cells THEN line.cells[k] ELSE mine[k]]
          \in Canvases
    BY <2>1, <2>3, PaintedCanvas
  <2> QED
    BY <1>1, <2>2, <2>4, LineKinds
<1>3. CASE ~SetCell(c, line)
  <2>1. Plain("word") \in Lines /\ Plain("cut") \in Lines
    BY LineKinds
  <2>2. /\ local' = local
        /\ \E new \in {Plain("word"), Plain("cut")} :
             msgBuf' = msgBuf \/ msgBuf' = [msgBuf EXCEPT ![c] = new]
        /\ garbled' = garbled \/ garbled' = garbled \cup {c}
    BY <1>3 DEF NetHandler
  <2> QED
    BY <1>1, <2>1, <2>2
<1> QED
  BY <1>2, <1>3

(* Canvases are canvases, and the edits stay within their bound. *)
Data ==
  /\ canvas \in Canvases /\ canvasBuf \in Canvases
  /\ left \in [Clients -> SUBSET Cells]
  /\ held \in [Clients -> Updates \cup {Plain("none")}]
  /\ clobbered \subseteq Clients \X Cells
  /\ msgBuf \in [Clients -> Lines]
  /\ local \in [Clients -> Canvases]
  /\ garbled \subseteq Clients
  /\ edits \in Values

(* The buffer gets the cell that the thread has read. *)
LEMMA StoredCell ==
  ASSUME held \in [Clients -> Updates \cup {Plain("none")}], NEW c \in Clients, StoreCell(c)
  PROVE  \E k \in Cells, v \in Values :
           /\ held[c] = Update(k, v) /\ DOMAIN held[c].cells = {k} /\ held[c].cells[k] = v
           /\ canvasBuf' = [canvasBuf EXCEPT ![k] = v]
           /\ clobbered' = IF v < canvasBuf[k] THEN clobbered \cup (Copied(k) \X {k})
                                               ELSE clobbered
<1>1. held[c] \in Updates
  BY DEF StoreCell
<1>2. PICK k \in Cells, v \in Values : held[c] = Update(k, v)
  BY <1>1, TokenKinds
<1>3. DOMAIN held[c].cells = {k} /\ held[c].cells[k] = v
  BY <1>2 DEF Update
<1> QED
  BY <1>2, <1>3 DEF StoreCell

LEMMA DataStep ==
  ASSUME TypeOK, Streams, Next
  PROVE  Data'
<1> USE DEF SAt, bufVars, sendVars, clientVars, serverVars, ServerEnds
<1>1. Data
  BY DEF TypeOK, Data
<1>2. ASSUME UNCHANGED <<canvas, bufVars, msgBuf, local, garbled, edits>> PROVE Data'
  BY <1>1, <1>2 DEF Data
<1>3. ASSUME NEW c \in Clients, ThreadStep(c) PROVE Data'
  <2>1. CASE SendVok(c) \/ SendSize(c) \/ SendCells(c) \/ SendNewline(c)
    BY <1>2, <2>1 DEF SendVok, SendSize, SendCells, SendNewline, WriteSelf
  <2>2. ASSUME NEW k \in Cells, LoadCell(c, k) PROVE Data'
    <3> DEFINE v == canvas[k]
    <3>1. v \in Values
      BY <1>1 DEF Data, Canvases
    <3>2. /\ left' = [left EXCEPT ![c] = @ \ {k}]
          /\ held' = [held EXCEPT ![c] = Update(k, v)]
          /\ UNCHANGED <<canvas, canvasBuf, clobbered, msgBuf, local, garbled, edits>>
      BY <2>2 DEF LoadCell
    <3> HIDE DEF v
    <3>3. Update(k, v) \in Updates
      BY <3>1 DEF Updates
    <3> QED
      BY <1>1, <3>2, <3>3 DEF Data
  <2>3. CASE StoreCell(c)
    <3>1. PICK k \in Cells, v \in Values :
            /\ canvasBuf' = [canvasBuf EXCEPT ![k] = v]
            /\ clobbered' = IF v < canvasBuf[k] THEN clobbered \cup (Copied(k) \X {k})
                                                ELSE clobbered
      BY <1>1, <2>3, StoredCell DEF Data
    <3>2. /\ held' = [held EXCEPT ![c] = Plain("none")]
          /\ UNCHANGED <<canvas, left, msgBuf, local, garbled, edits>>
      BY <2>3 DEF StoreCell
    <3>3. canvasBuf' \in Canvases
      BY <1>1, <3>1 DEF Data, Canvases
    <3>4. clobbered' \subseteq Clients \X Cells
      BY <1>1, <3>1 DEF Data, Copied
    <3> QED
      BY <1>1, <3>2, <3>3, <3>4 DEF Data
  <2>4. CASE ReadSet(c)
    <3> DEFINE update == up[c][1]
    <3>1. /\ canvas' = [k \in Cells |-> IF k \in DOMAIN update.cells
                                         THEN update.cells[k] ELSE canvas[k]]
          /\ UNCHANGED <<bufVars, msgBuf, local, garbled, edits>>
      BY <2>4 DEF ReadSet
    <3>2. update \in Updates
      <4>1. up[c] \in Seq(Updates) /\ Len(up[c]) \in Nat
        BY LenProperties DEF Streams
      <4>2. 1 \in 1 .. Len(up[c])
        BY <2>4, <4>1, SessionAssumption DEF ReadSet
      <4> QED
        BY <4>1, <4>2, ElementOfSeq
    <3> HIDE DEF update
    <3>3. canvas' \in Canvases
      <4>1. canvas \in Canvases
        BY <1>1 DEF Data
      <4>2. [k \in Cells |-> IF k \in DOMAIN update.cells
                             THEN update.cells[k] ELSE canvas[k]] \in Canvases
        BY <3>2, <4>1, PaintedCanvas
      <4> QED
        BY <3>1, <4>2
    <3> QED
      BY <1>1, <3>1, <3>3 DEF Data
  <2>5. ASSUME NEW d \in Clients, SendTo(c, d) PROVE Data'
    BY <1>2, <2>5 DEF SendTo, LoopWrite
  <2>6. CASE SendLock(c) \/ SendUnlock(c) \/ EndThread(c)
    BY <1>2, <2>6 DEF SendLock, SendUnlock, EndThread
  <2> QED
    BY <1>3, <2>1, <2>2, <2>3, <2>4, <2>5, <2>6 DEF ThreadStep
<1>4. ASSUME NEW c \in Clients, ClientRead(c) PROVE Data'
  <2>1. UNCHANGED <<serverVars, edits>>
    BY <1>4 DEF ClientRead, ReadVok, ReadSize, Expect, ReadCanvas, HandshakeEnds, Receive,
                AwaitRest, ReceiveEnd, Written
  <2>2. /\ msgBuf' \in [Clients -> Lines] /\ local' \in [Clients -> Canvases]
        /\ garbled' \subseteq Clients
    BY <1>1, <1>4, ClientCases, DeserializeData, NetHandlerData DEF Data
  <2> QED
    BY <1>1, <2>1, <2>2 DEF Data
<1>5. ASSUME NEW c \in Clients, NEW k \in Writes[c], Edit(c, k) PROVE Data'
  <2>1. k \in Cells
    BY SessionAssumption
  <2>2. edits' \in Values /\ local' = [local EXCEPT ![c][k] = edits']
        /\ UNCHANGED <<canvas, bufVars, msgBuf, garbled>>
    BY <1>1, <1>5, SessionAssumption DEF Edit, Data, Values
  <2>3. local' \in [Clients -> Canvases]
    BY <1>1, <2>1, <2>2 DEF Data, Canvases
  <2> QED
    BY <1>1, <2>2, <2>3 DEF Data
<1>6. ASSUME NEW c \in Clients, Join(c) \/ ResizeTerminal(c) \/ Leave(c) PROVE Data'
  BY <1>2, <1>6 DEF Join, ResizeTerminal, Leave
<1>7. CASE HandlerStep \/ Interrupt \/ Halt
  BY <1>2, <1>7 DEF HandlerStep, FinishTo, LoopWrite, Exit, Interrupt, Halt, vars
<1> QED
  BY <1>3, <1>4, <1>5, <1>6, <1>7 DEF Next

(* An update in msg_buf is one that was loaded as the canvas. *)
LEMMA ParsedStep ==
  ASSUME TypeOK, Streams, Parsed, Next
  PROVE  Parsed'
<1> USE DEF bufVars, sendVars, clientVars, serverVars, ServerEnds, Parsed
<1>1. ASSUME UNCHANGED <<msgBuf, garbled>> PROVE Parsed'
  BY <1>1
<1>2. \A kind \in {"cells", "word", "cut"} : Plain(kind).kind # "s"
  BY LineKinds
<1>3. msgBuf \in [Clients -> Lines]
  BY DEF TypeOK
<1>4. ASSUME NEW c \in Clients, NEW line, Deserialize(c, line) PROVE Parsed'
  BY <1>2, <1>3, <1>4 DEF Deserialize
<1>5. ASSUME NEW c \in Clients, NEW line, NetHandler(c, line) PROVE Parsed'
  BY <1>2, <1>3, <1>5 DEF NetHandler, SetCell
<1>6. ASSUME NEW c \in Clients, ClientRead(c) PROVE Parsed'
  BY <1>1, <1>4, <1>5, <1>6, ClientCases
<1>7. ASSUME NEW c \in Clients,
             Join(c) \/ ThreadStep(c) \/ ResizeTerminal(c) \/ Leave(c)
               \/ \E k \in Writes[c] : Edit(c, k)
      PROVE  Parsed'
  BY <1>1, <1>7 DEF Join, ResizeTerminal, Leave, Edit, ThreadStep, SendVok, SendSize, SendCells,
       SendNewline, WriteSelf, LoadCell, StoreCell, ReadSet, SendLock, SendTo, LoopWrite,
       SendUnlock, EndThread
<1>8. CASE HandlerStep \/ Interrupt \/ Halt
  BY <1>1, <1>8 DEF HandlerStep, FinishTo, LoopWrite, Exit, Interrupt, Halt, vars
<1> QED
  BY <1>6, <1>7, <1>8 DEF Next

(* The table, the mutex, and where threads and clients stand *)
Control ==
  /\ registered \subseteq Clients
  /\ mutex \in Clients \cup {Handler, None}
  /\ todo \subseteq registered \ {mutex}
  /\ spc \in [Clients -> {"absent", "vok", "cs", "serialize", "nl", "serve",
                          "lock", "send", "gone"}]
  /\ cpc \in [Clients -> {"absent", "await_vok", "await_cs", "await_canvas",
                          "online", "reading", "writing", "offline", "dead"}]
  /\ missed \subseteq Clients
  /\ serverUp \in BOOLEAN

LEMMA ControlStep ==
  ASSUME TypeOK, Streams, Places, Next
  PROVE  Control' /\ Places'
<1> USE SessionAssumption DEF SAt, SGoto, CGoto, sendVars, clientVars, serverVars,
        ServerEnds, Control, Places
<1>1. Control /\ Places
  BY DEF TypeOK
<1>2. ASSUME UNCHANGED <<registered, mutex, todo, spc, pending, missed, serverUp>>,
             NEW c \in Clients, NEW label, cpc[c] # "absent",
             cpc' = [cpc EXCEPT ![c] = label],
             label \in {"await_cs", "await_canvas", "online", "reading", "writing",
                        "offline", "dead"}
      PROVE  Control' /\ Places'
  BY <1>1, <1>2
<1>3. ASSUME NEW c \in Clients, NEW from, NEW token, NEW to,
             WriteSelf(c, from, token, to), from # "absent",
             to \in {"cs", "serialize", "nl", "serve"}
      PROVE  Control' /\ Places'
  BY <1>1, <1>3 DEF WriteSelf
<1>4. ASSUME NEW d \in Clients, NEW token, LoopWrite(d, token), mutex # None
      PROVE  Control' /\ Places'
  BY <1>1, <1>4 DEF LoopWrite
<1>5. ASSUME NEW c \in Clients, ThreadStep(c) PROVE Control' /\ Places'
  <2>1. CASE SendVok(c) \/ SendSize(c) \/ SendCells(c) \/ SendNewline(c)
    BY <1>3, <2>1 DEF SendVok, SendSize, SendCells, SendNewline
  <2>2. CASE (\E k \in Cells : LoadCell(c, k)) \/ StoreCell(c)
    BY <1>1, <2>2 DEF LoadCell, StoreCell
  <2>3. CASE ReadSet(c)
    <3> DEFINE update == up[c][1]
    <3>1. /\ spc[c] = "serve" /\ spc' = [spc EXCEPT ![c] = "lock"]
          /\ pending' = [pending EXCEPT ![c] = update]
          /\ UNCHANGED <<registered, mutex, todo, cpc, missed, serverUp>>
      BY <2>3 DEF ReadSet
    <3>2. update \in Updates
      <4>1. up[c] \in Seq(Updates) /\ Len(up[c]) \in Nat
        BY LenProperties DEF Streams
      <4>2. 1 \in 1 .. Len(up[c])
        BY <2>3, <4>1, SessionAssumption DEF ReadSet
      <4> QED
        BY <4>1, <4>2, ElementOfSeq
    <3> HIDE DEF update
    <3> QED
      BY <1>1, <3>1, <3>2 DEF Streams
  <2>4. CASE SendLock(c)
    BY <1>1, <2>4 DEF SendLock, Recipients
  <2>5. ASSUME NEW d \in Clients, SendTo(c, d) PROVE Control' /\ Places'
    BY <1>1, <1>4, <2>5 DEF SendTo
  <2>6. CASE SendUnlock(c)
    <3>1. pending' = [pending EXCEPT ![c] = Plain("none")]
      BY <2>6 DEF SendUnlock
    <3>2. \A d \in Clients : d # c => pending'[d] = pending[d]
      BY <3>1 DEF Streams
    <3>3. spc' = [spc EXCEPT ![c] = "serve"] /\ spc[c] = "send" /\ mutex' = None /\ todo = {}
          /\ UNCHANGED <<registered, todo, cpc, missed, serverUp>>
      BY <2>6 DEF SendUnlock
    <3> QED
      BY <1>1, <3>2, <3>3
  <2>7. CASE EndThread(c)
    BY <1>1, <2>7 DEF EndThread
  <2> QED
    BY <1>5, <2>1, <2>2, <2>3, <2>4, <2>5, <2>6, <2>7 DEF ThreadStep
<1>6. ASSUME NEW c \in Clients, ClientRead(c) PROVE Control' /\ Places'
  <2>1. CASE ReadVok(c) \/ ReadSize(c) \/ ReadCanvas(c) \/ HandshakeEnds(c)
    BY <1>2, <2>1 DEF ReadVok, ReadSize, Expect, ReadCanvas, HandshakeEnds, Deserialize
  <2>2. CASE Receive(c) \/ ReceiveEnd(c)
    <3>1. \A line : NetHandler(c, line) =>
            \E label \in {"online", "offline", "dead"} : cpc' = [cpc EXCEPT ![c] = label]
      BY DEF NetHandler, SetCell
    <3> QED
      BY <1>2, <2>2, <3>1 DEF Receive, ReceiveEnd, Selected
  <2>3. CASE AwaitRest(c) \/ Written(c)
    BY <1>2, <2>3 DEF AwaitRest, Written
  <2> QED
    BY <1>6, <2>1, <2>2, <2>3 DEF ClientRead
<1>7. ASSUME NEW c \in Clients, NEW k \in Writes[c], Edit(c, k)
      PROVE  Control' /\ Places'
  <2>1. CASE cpc' = cpc
    BY <1>1, <1>7, <2>1 DEF Edit
  <2>2. CASE cpc' # cpc
    BY <1>2, <1>7, <2>2 DEF Edit
  <2> QED
    BY <2>1, <2>2
<1>8. ASSUME NEW c \in Clients, ResizeTerminal(c) \/ Leave(c)
      PROVE  Control' /\ Places'
  BY <1>2, <1>8 DEF ResizeTerminal, Leave
<1>9. ASSUME NEW c \in Clients, Join(c) PROVE Control' /\ Places'
  BY <1>1, <1>9 DEF Join
<1>10. CASE HandlerStep
  <2>1. ASSUME NEW d \in Clients, FinishTo(d) PROVE Control' /\ Places'
    BY <1>4, <2>1 DEF FinishTo
  <2>2. CASE Exit
    BY <1>1, <2>2 DEF Exit
  <2> QED
    BY <1>10, <2>1, <2>2 DEF HandlerStep
<1>11. CASE Interrupt \/ Halt
  BY <1>1, <1>11 DEF Interrupt, Halt, vars
<1> QED
  BY <1>5, <1>6, <1>7, <1>8, <1>9, <1>10, <1>11 DEF Next

LEMMA KeptInit == Init => Kept
<1> SUFFICES ASSUME Init PROVE Kept
  OBVIOUS
<1>1. canvas \in Canvases /\ local \in [Clients -> Canvases] /\ edits \in Values
  BY SessionAssumption DEF Init, Canvases, Values
<1>2. Streams
  BY EmptySeq DEF Init, Streams
<1>3. Control /\ Places /\ canvasBuf \in Canvases
  BY <1>1, SessionAssumption DEF Init, Control, Places
<1>5. Data /\ Parsed
  <2>1. /\ left \in [Clients -> SUBSET Cells] /\ held \in [Clients -> {Plain("none")}]
        /\ clobbered = {} /\ garbled = {}
        /\ msgBuf \in [Clients -> {Plain("cells"), Plain("none")}]
    BY DEF Init
  <2>2. /\ Plain("cells") \in Lines /\ Plain("none") \in Lines
        /\ Plain("cells").kind # "s" /\ Plain("none").kind # "s"
    BY LineKinds
  <2>3. Parsed
    BY <2>1, <2>2 DEF Parsed
  <2> QED
    BY <1>1, <1>3, <2>1, <2>2, <2>3 DEF Data
<1>4. \A c \in Clients : /\ DOMAIN up[c] = {} /\ DOMAIN down[c] = {}
                         /\ DOMAIN inbuf[c] = {} /\ pending[c] = Plain("none")
  BY DEF Init
<1> QED
  BY <1>1, <1>2, <1>3, <1>4, <1>5 DEF Kept, TypeOK, Control, Data

LEMMA KeptStep == Kept /\ [Next]_vars => Kept'
<1>1. CASE UNCHANGED vars
  BY <1>1 DEF vars, Kept, TypeOK, Streams, Places, Parsed
<1>2. ASSUME TypeOK, Streams, Places, Parsed, Next PROVE Kept'
  <2>1. Streams'
    BY <1>2, StreamsStep
  <2>2. Control' /\ Places'
    BY <1>2, ControlStep
  <2>3. Data'
    BY <1>2, DataStep
  <2>4. ASSUME NEW c \in Clients
        PROVE  /\ pending'[c] \in Updates \cup {Plain("none")}
               /\ \A i \in DOMAIN up'[c] : up'[c][i] \in Updates
               /\ \A i \in DOMAIN down'[c] : down'[c][i] \in Tokens
               /\ \A i \in DOMAIN inbuf'[c] : inbuf'[c][i] \in Tokens
    BY <2>1, LenProperties, ElementOfSeq DEF Streams
  <2>5. Parsed'
    BY <1>2, ParsedStep
  <2> QED
    BY <2>1, <2>2, <2>3, <2>4, <2>5 DEF Kept, TypeOK, Control, Data
<1> QED
  BY <1>1, <1>2 DEF Kept

(* Every variable keeps to its type: tokens are updates and canvases of the *)
(* session, and a write loop has only registered clients left to reach, not *)
(* the thread's own.                                                        *)
THEOREM SessionTypeCorrect == Spec => []TypeOK
<1>1. Kept => TypeOK
  BY DEF Kept
<1> QED
  BY <1>1, KeptInit, KeptStep, PTL DEF Spec

-----------------------------------------------------------------------------
(* The order of a cell that one user draws in *)

(* It has not loaded a canvas, and has not drawn. *)
Starting(c) == cpc[c] \in {"absent", "await_vok", "await_cs", "await_canvas"}

(* The author is ahead of the master, and no edit is numbered higher than   *)
(* his last; before he is in there is nothing.                              *)
Drawn(k) == \A c \in Clients : k \in Writes[c] =>
  /\ canvas[k] <= local[c][k] /\ local[c][k] <= edits
  /\ Starting(c) => canvas[k] = 0 /\ local[c][k] = 0

(* Commands come from the author, lie between him and the master, in order. *)
OnTheWayUp(k) == \A c \in Clients :
  /\ Strokes(up[c], k) # {} => k \in Writes[c]
  /\ \A v \in Strokes(up[c], k) : canvas[k] <= v /\ v <= local[c][k]
  /\ Ordered(up[c], k)

(* What his thread passes on is what the master has; what others copy, it   *)
(* has had.                                                                 *)
PassedOn(k) ==
  /\ canvasBuf[k] <= canvas[k]
  /\ \A c \in Clients : /\ \A v \in Mark(pending[c], k) : k \in Writes[c] /\ v = canvas[k]
                        /\ \A v \in Mark(held[c], k) : v <= canvas[k]

(* Updates go to the others, none older than what is ahead of it. *)
OnTheWayDown(k) == \A c \in Clients :
  /\ Strokes(Stream(c), k) # {} => k \notin Writes[c]
  /\ \A v \in Marks(Stream(c), k) : v <= canvas[k]
  /\ Ordered(Stream(c), k)

(* A viewer is behind the master and behind all it has yet to read. *)
Viewed(k) == \A c \in Clients : Online(c) /\ k \notin Writes[c] =>
  /\ local[c][k] <= canvas[k]
  /\ \A v \in Strokes(Stream(c), k) : local[c][k] <= v

(* Nor is the author sent his stroke as the canvas. *)
Loaded(k) == \A c \in Clients : Mark(msgBuf[c], k) # {} => k \notin Writes[c]

InOrderAt(k) ==
  Drawn(k) /\ OnTheWayUp(k) /\ PassedOn(k) /\ OnTheWayDown(k) /\ Viewed(k) /\ Loaded(k)

SInv == Kept /\ \A k \in SingleAuthor : InOrderAt(k)

LEMMA MarkValues ==
  ASSUME NEW s \in Seq(Tokens), NEW k
  PROVE  Strokes(s, k) \subseteq Marks(s, k) /\ Marks(s, k) \subseteq Values
<1>1. \A i \in DOMAIN s : s[i] \in Tokens
  BY LenProperties, ElementOfSeq
<1>2. \A i \in DOMAIN s : /\ Stroke(s[i], k) \subseteq Mark(s[i], k)
                          /\ Mark(s[i], k) \subseteq Values
  BY <1>1, TokenMarks
<1> QED
  BY <1>2 DEF Strokes, Marks

LEMMA UpMarks ==
  ASSUME NEW s \in Seq(Updates), NEW k
  PROVE  s \in Seq(Tokens) /\ Strokes(s, k) = Marks(s, k)
<1>1. \A i \in DOMAIN s : s[i] \in Updates
  BY LenProperties, ElementOfSeq
<1>2. \A i \in DOMAIN s : Stroke(s[i], k) = Mark(s[i], k)
  BY <1>1, TokenMarks
<1>3. Updates \subseteq Tokens
  BY DEF Tokens
<1> QED
  BY <1>2, <1>3, SeqMonotonic DEF Strokes, Marks

(* The numbers of the cell, wherever they are *)
LEMMA Numbers ==
  ASSUME Kept, NEW k \in SingleAuthor
  PROVE  /\ k \in Cells /\ canvas[k] \in Nat /\ canvasBuf[k] \in Nat /\ edits \in Nat
         /\ \A c \in Clients :
              /\ local[c][k] \in Nat
              /\ Strokes(up[c], k) \subseteq Nat /\ Mark(held[c], k) \subseteq Nat
              /\ Strokes(Stream(c), k) \subseteq Marks(Stream(c), k)
              /\ Marks(Stream(c), k) \subseteq Nat
              /\ \A d \in Clients : k \in Writes[c] /\ k \in Writes[d] => c = d
<1>1. k \in Cells /\ Values \subseteq Nat
  BY SessionAssumption DEF SingleAuthor, Values
<1>2. ASSUME NEW c \in Clients
      PROVE  /\ Strokes(up[c], k) \subseteq Nat /\ Mark(held[c], k) \subseteq Nat
             /\ Strokes(Stream(c), k) \subseteq Marks(Stream(c), k)
             /\ Marks(Stream(c), k) \subseteq Nat
  <2>1. up[c] \in Seq(Updates) /\ Stream(c) \in Seq(Tokens)
    BY StreamSeq DEF Kept, Streams
  <2>2. up[c] \in Seq(Tokens)
    BY <2>1, UpMarks
  <2>3. Mark(held[c], k) \subseteq Values
    <3>1. held[c] \in Updates \/ held[c] = Plain("none")
      BY DEF Kept, TypeOK
    <3> QED
      BY <3>1, TokenKinds, TokenMarks
  <2> QED
    BY <1>1, <2>1, <2>2, <2>3, MarkValues
<1>3. /\ canvas[k] \in Nat /\ canvasBuf[k] \in Nat /\ edits \in Nat
      /\ \A c \in Clients : local[c][k] \in Nat
  BY <1>1 DEF Kept, TypeOK, Canvases
<1> QED
  BY <1>1, <1>2, <1>3 DEF SingleAuthor

(* Updates come into msg_buf from the stream only. *)
Loads(k) == \A c \in Clients :
  Mark(msgBuf'[c], k) \subseteq Mark(msgBuf[c], k) \cup Strokes(Stream(c), k)

(* Nothing new is said of the cell. *)
Quiet(k) ==
  /\ Loads(k)
  /\ canvas'[k] = canvas[k] /\ canvasBuf'[k] = canvasBuf[k]
  /\ edits' \in Nat /\ edits' >= edits
  /\ \A c \in Clients :
       /\ local'[c][k] = local[c][k]
       /\ Tells(up[c], up'[c], k) /\ Tells(Stream(c), Stream(c)', k)
       /\ Mark(pending'[c], k) \subseteq Mark(pending[c], k)
       /\ Mark(held'[c], k) \subseteq Mark(held[c], k)
       /\ Online(c)' => Online(c)
       /\ Starting(c)' => Starting(c)

LEMMA QuietStep ==
  ASSUME Kept, NEW k \in SingleAuthor, InOrderAt(k), Quiet(k)
  PROVE  InOrderAt(k)'
<1> USE Numbers DEF InOrderAt, Tells, Quiet
<1>1. Drawn(k)'
  BY DEF Drawn
<1>2. OnTheWayUp(k)'
  BY DEF OnTheWayUp
<1>3. PassedOn(k)'
  BY DEF PassedOn
<1>4. OnTheWayDown(k)'
  BY DEF OnTheWayDown
<1>5. Viewed(k)'
  BY DEF Viewed
<1>6. Loaded(k)'
  BY DEF Loaded, Loads, OnTheWayDown
<1> QED
  BY <1>1, <1>2, <1>3, <1>4, <1>5, <1>6

(* A token that says no more than the master has is on its way to a viewer. *)
LEMMA DeliveredStep ==
  ASSUME Kept, NEW k \in SingleAuthor, InOrderAt(k), NEW d \in Clients, NEW token \in Tokens,
         Deliver(d, token),
         UNCHANGED <<canvas, bufVars, local, edits, cpc, inbuf, pending, up, msgBuf, garbled>>,
         \A v \in Mark(token, k) : v <= canvas[k],
         \A v \in Stroke(token, k) : v = canvas[k] /\ k \notin Writes[d]
  PROVE  InOrderAt(k)'
<1> DEFINE s == Stream(d)
           t == Stream(d)'
<1>1. /\ \A c \in Clients : c # d => Stream(c)' = Stream(c)
      /\ t = IF Closed(d) THEN s ELSE Append(s, token)
      /\ s \in Seq(Tokens)
  BY DeliverStream, StreamSeq DEF Kept
<1>2. /\ Strokes(s, k) # {} => k \notin Writes[d]
      /\ \A v \in Marks(s, k) : v <= canvas[k]
      /\ Ordered(s, k)
  BY DEF InOrderAt, OnTheWayDown
<1> HIDE DEF s, t
<1>3. /\ Strokes(t, k) \subseteq Strokes(s, k) \cup Stroke(token, k)
      /\ Marks(t, k) \subseteq Marks(s, k) \cup Mark(token, k)
      /\ Ordered(t, k)
  <2>1. /\ Strokes(Append(s, token), k) = Strokes(s, k) \cup Stroke(token, k)
        /\ Marks(Append(s, token), k) = Marks(s, k) \cup Mark(token, k)
        /\ Ordered(s, k) /\ (\A v \in Marks(s, k), w \in Stroke(token, k) : v <= w)
             => Ordered(Append(s, token), k)
    BY <1>1, AppendTells
  <2>2. Ordered(Append(s, token), k)
    BY <1>2, <2>1
  <2> QED
    BY <1>1, <1>2, <2>1, <2>2
<1>4. Drawn(k)' /\ OnTheWayUp(k)' /\ PassedOn(k)' /\ Loaded(k)'
  BY DEF InOrderAt, Drawn, OnTheWayUp, PassedOn, Starting, Loaded, bufVars
<1>5. OnTheWayDown(k)'
  BY <1>1, <1>2, <1>3 DEF InOrderAt, OnTheWayDown, s, t
<1>6. Viewed(k)'
  <2>1. ASSUME NEW c \in Clients, Online(c), k \notin Writes[c], NEW v \in Strokes(Stream(c)', k)
        PROVE  local[c][k] <= v
    <3>1. /\ local[c][k] <= canvas[k]
          /\ \A w \in Strokes(Stream(c), k) : local[c][k] <= w
      BY <2>1 DEF InOrderAt, Viewed
    <3>2. v \in Strokes(Stream(c), k) \/ v = canvas[k]
      BY <1>1, <1>3, <2>1 DEF s, t
    <3> QED
      BY <3>1, <3>2
  <2>2. \A c \in Clients : Online(c)' = Online(c)
    BY DEF Online, Networked
  <2> QED
    BY <2>1, <2>2 DEF InOrderAt, Viewed
<1> QED
  BY <1>4, <1>5, <1>6 DEF InOrderAt

(* A client shows what a token says that was the first of its stream.       *)
LEMMA ShownStep ==
  ASSUME Kept, NEW k \in SingleAuthor, InOrderAt(k), NEW c \in Clients, NEW v,
         v \in Marks(Stream(c), k), k \in Writes[c] => Starting(c),
         UNCHANGED <<canvas, bufVars, edits, up, pending>>, Loads(k),
         \A d \in Clients : d # c => (d \in garbled' <=> d \in garbled),
         local'[c][k] = v, Tells(Stream(c), Stream(c)', k),
         \A w \in Strokes(Stream(c)', k) : v <= w,
         Starting(c)' => Starting(c),
         \A d \in Clients : d # c => /\ local'[d] = local[d] /\ cpc'[d] = cpc[d]
                                     /\ Stream(d)' = Stream(d)
  PROVE  InOrderAt(k)'
<1>1. \A d \in Clients : d # c => /\ Online(d)' = Online(d) /\ Starting(d)' = Starting(d)
                                  /\ local'[d][k] = local[d][k]
  BY DEF Online, Networked, Starting
<1>2. v \in Nat /\ v <= canvas[k]
  BY Numbers DEF InOrderAt, OnTheWayDown
<1>3. k \in Writes[c] => /\ canvas[k] = 0 /\ local[c][k] = 0 /\ v = 0
  BY <1>2, Numbers DEF InOrderAt, Drawn
<1>4. Drawn(k)'
  BY <1>1, <1>2, <1>3, Numbers DEF InOrderAt, Drawn
<1>5. OnTheWayUp(k)'
  <2>1. \A w \in Strokes(up[c], k) : w <= local'[c][k]
    BY <1>3 DEF InOrderAt, OnTheWayUp
  <2> QED
    BY <1>1, <2>1 DEF InOrderAt, OnTheWayUp
<1>6. PassedOn(k)' /\ Loaded(k)'
  BY DEF InOrderAt, PassedOn, Loaded, Loads, OnTheWayDown, bufVars
<1>7. OnTheWayDown(k)'
  BY DEF InOrderAt, OnTheWayDown, Tells
<1>8. Viewed(k)'
  BY <1>1, <1>2 DEF InOrderAt, Viewed
<1> QED
  BY <1>4, <1>5, <1>6, <1>7, <1>8 DEF InOrderAt

(* What a garbled client shows of another's cell is of no account. *)
LEMMA AsideStep ==
  ASSUME Kept, NEW k \in SingleAuthor, InOrderAt(k), NEW c \in Clients,
         k \notin Writes[c], ~Online(c)',
         UNCHANGED <<canvas, bufVars, edits, up, pending>>, Loads(k),
         \A d \in Clients : d # c => (d \in garbled' <=> d \in garbled),
         \A d \in Clients : Tells(Stream(d), Stream(d)', k),
         \A d \in Clients : d # c => local'[d] = local[d] /\ cpc'[d] = cpc[d]
  PROVE  InOrderAt(k)'
<1>1. \A d \in Clients : d # c => /\ Online(d)' = Online(d) /\ Starting(d)' = Starting(d)
                                  /\ local'[d][k] = local[d][k]
  BY DEF Online, Networked, Starting
<1>2. Drawn(k)'
  BY <1>1 DEF InOrderAt, Drawn
<1>3. OnTheWayUp(k)'
  BY <1>1 DEF InOrderAt, OnTheWayUp
<1>4. PassedOn(k)' /\ Loaded(k)'
  BY DEF InOrderAt, PassedOn, Loaded, Loads, OnTheWayDown, bufVars
<1>5. OnTheWayDown(k)'
  BY DEF InOrderAt, OnTheWayDown, Tells
<1>6. Viewed(k)'
  BY <1>1 DEF InOrderAt, Viewed, Tells
<1> QED
  BY <1>2, <1>3, <1>4, <1>5, <1>6 DEF InOrderAt

LEMMA FirstUpdate ==
  ASSUME Kept, NEW c \in Clients, ReadSet(c)
  PROVE  \E n \in 1 .. Len(up[c]), x \in Cells, v \in Values :
           /\ n <= MaxRead /\ up' = [up EXCEPT ![c] = Rest(@, n)]
           /\ up[c] \in Seq(Updates) /\ up[c][1] = Update(x, v)
           /\ canvas' = [canvas EXCEPT ![x] = v]
           /\ pending' = [pending EXCEPT ![c] = Update(x, v)]
<1> DEFINE update == up[c][1]
<1>1. up[c] \in Seq(Updates) /\ Len(up[c]) \in Nat
  BY LenProperties DEF Kept, Streams
<1>2. PICK n \in 1 .. MaxRead : n <= Len(up[c]) /\ up' = [up EXCEPT ![c] = Rest(@, n)]
  BY DEF ReadSet, Rest
<1>3. n \in 1 .. Len(up[c]) /\ n <= MaxRead /\ 1 \in 1 .. Len(up[c])
  BY <1>1, <1>2, SessionAssumption
<1>4. update \in Updates
  BY <1>1, <1>3, ElementOfSeq
<1>5. /\ canvas' = [y \in Cells |-> IF y \in DOMAIN update.cells
                                    THEN update.cells[y] ELSE canvas[y]]
      /\ pending' = [pending EXCEPT ![c] = update]
  BY DEF ReadSet
<1> HIDE DEF update
<1>6. canvas \in Canvases
  BY DEF Kept, TypeOK
<1>7. \E x \in Cells, v \in Values :
           /\ update = Update(x, v)
           /\ [canvas EXCEPT ![x] = v] \in Canvases
           /\ [y \in Cells |-> IF y \in DOMAIN update.cells THEN update.cells[y] ELSE canvas[y]]
                = [canvas EXCEPT ![x] = v]
  BY <1>4, <1>6, Painted
<1>8. PICK x \in Cells, v \in Values : update = Update(x, v) /\ canvas' = [canvas EXCEPT ![x] = v]
  BY <1>5, <1>7
<1>9. up[c][1] = Update(x, v) /\ pending' = [pending EXCEPT ![c] = Update(x, v)]
  BY <1>5, <1>8 DEF update
<1> QED
  BY <1>1, <1>2, <1>3, <1>8, <1>9

(* The master takes the author's next stroke, perhaps leaving some out.     *)
LEMMA StoredStep ==
  ASSUME Kept, NEW k \in SingleAuthor, InOrderAt(k), NEW c \in Clients, ReadSet(c)
  PROVE  InOrderAt(k)'
<1>1. PICK n \in 1 .. Len(up[c]), x \in Cells, v \in Values :
           /\ n <= MaxRead /\ up' = [up EXCEPT ![c] = Rest(@, n)]
           /\ up[c] \in Seq(Updates) /\ up[c][1] = Update(x, v)
           /\ canvas' = [canvas EXCEPT ![x] = v]
           /\ pending' = [pending EXCEPT ![c] = Update(x, v)]
  BY FirstUpdate
<1>2. /\ UNCHANGED <<canvasBuf, held, down, cpc, inbuf, local, edits, msgBuf, garbled>>
      /\ Loads(k)
  BY DEF ReadSet, clientVars, bufVars, Loads
<1>3. /\ \A d \in Clients : /\ Stream(d)' = Stream(d) /\ Online(d)' = Online(d)
                            /\ Starting(d)' = Starting(d)
      /\ \A d \in Clients : d # c => up'[d] = up[d] /\ pending'[d] = pending[d]
      /\ up'[c] = Rest(up[c], n) /\ pending'[c] = Update(x, v)
  BY <1>1, <1>2 DEF Kept, Streams, Stream, Online, Networked, Starting
<1>4. /\ up[c] \in Seq(Tokens) /\ Strokes(up[c], k) = Marks(up[c], k)
      /\ n \in 0 .. Len(up[c]) /\ 1 \in 1 .. n /\ 1 \in DOMAIN up[c]
  BY <1>1, UpMarks, LenProperties
<1>5. /\ Tells(up[c], up'[c], k)
      /\ Ordered(up[c], k) =>
           \A u \in Mark(Update(x, v), k), w \in Strokes(up'[c], k) : u <= w
  BY <1>1, <1>3, <1>4, RestTells
<1>6. /\ Mark(Update(x, v), k) = IF k = x THEN {v} ELSE {}
      /\ Mark(Update(x, v), k) \subseteq Strokes(up[c], k)
  <2>1. Mark(Update(x, v), k) = IF k = x THEN {v} ELSE {}
    BY TokenMarks
  <2>2. Mark(up[c][1], k) \subseteq Marks(up[c], k)
    BY <1>4 DEF Marks
  <2> QED
    BY <1>1, <1>4, <2>1, <2>2
<1>7. CASE k # x
  <2>1. canvas'[k] = canvas[k] /\ Mark(pending'[c], k) = {}
    BY <1>1, <1>3, <1>6, <1>7
  <2>2. \A d \in Clients : /\ Tells(up[d], up'[d], k) /\ Tells(Stream(d), Stream(d)', k)
                           /\ Mark(pending'[d], k) \subseteq Mark(pending[d], k)
    BY <1>3, <1>5, <2>1, NothingTold
  <2> QED
    BY <1>2, <1>3, <2>1, <2>2, QuietStep, Numbers DEF Quiet
<1>8. CASE k = x
  <2>1. /\ k \in Cells /\ canvas'[k] = v /\ v \in Strokes(up[c], k)
        /\ v \in Mark(Update(x, v), k)
    BY <1>1, <1>6, <1>8 DEF Kept, TypeOK, Canvases
  <2>2. /\ k \in Writes[c] /\ canvas[k] <= v /\ v <= local[c][k] /\ v \in Nat
        /\ \A w \in Strokes(up'[c], k) : v <= w
    BY <1>5, <2>1, Numbers DEF InOrderAt, OnTheWayUp
  <2>3. \A d \in Clients : d # c => k \notin Writes[d] /\ Strokes(up[d], k) = {}
                                 /\ Mark(pending[d], k) = {}
    BY <2>2, Numbers DEF InOrderAt, OnTheWayUp, PassedOn
  <2>4. Drawn(k)'
    BY <1>2, <1>3, <2>1, <2>2, <2>3, Numbers DEF InOrderAt, Drawn
  <2>5. OnTheWayUp(k)'
    BY <1>2, <1>3, <1>5, <2>1, <2>2, <2>3 DEF InOrderAt, OnTheWayUp, Tells
  <2>6. PassedOn(k)'
    <3>1. canvasBuf'[k] <= canvas'[k]
      BY <1>2, <2>1, <2>2, Numbers DEF InOrderAt, PassedOn
    <3>2. \A d \in Clients : \A w \in Mark(pending'[d], k) : k \in Writes[d] /\ w = canvas'[k]
      BY <1>3, <1>6, <1>8, <2>1, <2>2, <2>3
    <3>3. ASSUME NEW d \in Clients, NEW w \in Mark(held'[d], k) PROVE w <= canvas'[k]
      <4>1. w \in Mark(held[d], k)
        BY <1>2
      <4>2. w <= canvas[k] /\ w \in Nat /\ canvas[k] \in Nat
        BY <4>1, Numbers DEF InOrderAt, PassedOn
      <4> QED
        BY <2>1, <2>2, <4>2
    <3> QED
      BY <3>1, <3>2, <3>3 DEF PassedOn
  <2>7. OnTheWayDown(k)'
    BY <1>3, <2>1, <2>2, Numbers DEF InOrderAt, OnTheWayDown
  <2>8. Viewed(k)'
    BY <1>2, <1>3, <2>1, <2>2, Numbers DEF InOrderAt, Viewed
  <2>9. Loaded(k)'
    BY <1>2 DEF InOrderAt, Loaded
  <2> QED
    BY <2>4, <2>5, <2>6, <2>7, <2>8, <2>9 DEF InOrderAt
<1> QED
  BY <1>7, <1>8

(* The author draws: his number is the highest yet.                         *)
LEMMA DrawnStep ==
  ASSUME Kept, NEW k \in SingleAuthor, InOrderAt(k), NEW c \in Clients,
         NEW x \in Writes[c], Edit(c, x)
  PROVE  InOrderAt(k)'
<1> DEFINE n == edits + 1
<1>1. /\ edits' = n /\ n \in Values /\ n \in Nat /\ n > edits
      /\ x \in Cells /\ local' = [local EXCEPT ![c][x] = n]
      /\ UNCHANGED <<canvas, canvasBuf, held, pending, down, inbuf, msgBuf, garbled>>
      /\ Loads(k)
  <2>1. /\ edits < MaxEdits /\ edits' = edits + 1 /\ local' = [local EXCEPT ![c][x] = edits']
        /\ UNCHANGED <<canvas, canvasBuf, held, pending, down, inbuf, msgBuf, garbled>>
    BY DEF Edit, serverVars, bufVars
  <2>2. edits \in Nat /\ MaxEdits \in Nat /\ x \in Cells
    BY Numbers, SessionAssumption
  <2>3. edits + 1 \in Values /\ edits + 1 \in Nat /\ edits + 1 > edits
    BY <2>1, <2>2 DEF Values
  <2> QED
    BY <2>1, <2>2, <2>3 DEF Loads
<1>2. /\ \A d \in Clients : d # c => up'[d] = up[d]
      /\ up'[c] = up[c] \/ up'[c] = Append(up[c], Update(x, n))
  BY <1>1 DEF Edit, Kept, Streams
<1>3. /\ \A d \in Clients : /\ Stream(d)' = Stream(d)
                            /\ Online(d)' => Online(d)
                            /\ Starting(d)' => Starting(d)
      /\ ~Starting(c)'
  BY <1>1 DEF Edit, CGoto, Stream, Online, Networked, Starting, Kept, TypeOK
<1>4. /\ \A d \in Clients : \A y \in Cells :
           local'[d][y] = IF d = c /\ y = x THEN n ELSE local[d][y]
  BY <1>1 DEF Kept, TypeOK, Canvases
<1>5. /\ up[c] \in Seq(Tokens) /\ Update(x, n) \in Tokens
      /\ Strokes(up[c], k) = Marks(up[c], k)
      /\ Stroke(Update(x, n), k) = IF k = x THEN {n} ELSE {}
      /\ Mark(Update(x, n), k) = IF k = x THEN {n} ELSE {}
  <2>1. Update(x, n) \in Updates
    BY <1>1 DEF Updates
  <2>2. up[c] \in Seq(Updates)
    BY DEF Kept, Streams
  <2>3. up[c] \in Seq(Tokens) /\ Strokes(up[c], k) = Marks(up[c], k)
    BY <2>2, UpMarks
  <2>4. Update(x, n) \in Tokens
    BY <2>1, TokenKinds
  <2>5. /\ Stroke(Update(x, n), k) = Mark(Update(x, n), k)
        /\ Mark(Update(x, n), k) = IF k = x THEN {n} ELSE {}
    BY <2>1, TokenMarks
  <2> QED
    BY <2>3, <2>4, <2>5
<1> HIDE DEF n
<1>6. /\ Strokes(Append(up[c], Update(x, n)), k) = Strokes(up[c], k) \cup Stroke(Update(x, n), k)
      /\ Marks(Append(up[c], Update(x, n)), k) = Marks(up[c], k) \cup Mark(Update(x, n), k)
      /\ Ordered(up[c], k) /\ (\A v \in Marks(up[c], k), w \in Stroke(Update(x, n), k) : v <= w)
           => Ordered(Append(up[c], Update(x, n)), k)
  BY <1>5, AppendTells
<1>7. CASE k # x
  <2>1. \A d \in Clients : Tells(up[d], up'[d], k) /\ Tells(Stream(d), Stream(d)', k)
    BY <1>2, <1>3, <1>5, <1>6, <1>7, NothingTold DEF Tells
  <2>2. \A d \in Clients : local'[d][k] = local[d][k]
    BY <1>4, <1>7, Numbers
  <2> QED
    BY <1>1, <1>3, <2>1, <2>2, QuietStep, Numbers DEF Quiet
<1>8. CASE k = x
  <2>1. /\ k \in Writes[c] /\ local'[c][k] = n
        /\ \A d \in Clients : d # c => k \notin Writes[d] /\ local'[d][k] = local[d][k]
    BY <1>4, <1>8, Numbers
  <2>2. canvas[k] <= local[c][k] /\ local[c][k] <= edits
    BY <2>1 DEF InOrderAt, Drawn
  <2>3. Drawn(k)'
    BY <1>1, <1>3, <2>1, <2>2, Numbers DEF Drawn
  <2>4. \A v \in Strokes(up[c], k) : canvas[k] <= v /\ v <= local[c][k] /\ v \in Nat /\ v <= n
    BY <1>1, <2>2, Numbers DEF InOrderAt, OnTheWayUp
  <2>5. /\ Strokes(up'[c], k) \subseteq Strokes(up[c], k) \cup {n}
        /\ Ordered(up'[c], k)
    BY <1>2, <1>5, <1>6, <1>8, <2>4 DEF InOrderAt, OnTheWayUp
  <2>6. canvas[k] <= n /\ n <= n
    BY <1>1, <2>2, Numbers
  <2>7. OnTheWayUp(k)'
    BY <1>1, <1>2, <2>1, <2>4, <2>5, <2>6 DEF InOrderAt, OnTheWayUp
  <2>8. PassedOn(k)' /\ OnTheWayDown(k)' /\ Loaded(k)'
    BY <1>1, <1>3 DEF InOrderAt, PassedOn, OnTheWayDown, Loaded
  <2>9. Viewed(k)'
    BY <1>1, <1>3, <2>1 DEF InOrderAt, Viewed
  <2> QED
    BY <2>3, <2>7, <2>8, <2>9 DEF InOrderAt
<1> QED
  BY <1>7, <1>8

(* A line leaves the stream, and what is behind it is no older.             *)
LEMMA FirstLine ==
  ASSUME Streams, NEW k, NEW c \in Clients, HasLine(c), Getline(c), Ordered(Stream(c), k)
  PROVE  /\ Tells(Stream(c), Stream(c)', k)
         /\ \A d \in Clients : d # c => Stream(d)' = Stream(d)
         /\ Line(c) \in Tokens
         /\ Mark(Line(c), k) \subseteq Marks(Stream(c), k)
         /\ Stroke(Line(c), k) \subseteq Strokes(Stream(c), k)
         /\ \A v \in Mark(Line(c), k), w \in Strokes(Stream(c)', k) : v <= w
<1> DEFINE s == Stream(c)
           t == Stream(c)'
           line == Line(c)
<1>1. /\ \A d \in Clients : d # c => Stream(d)' = Stream(d)
      /\ line = s[1] /\ line \in Tokens /\ 1 \in DOMAIN s
      /\ \E n \in 1 .. Len(s) : t = Rest(s, n)
  BY GetlineStream
<1>2. s \in Seq(Tokens) /\ Ordered(s, k)
  BY StreamSeq
<1> HIDE DEF s, t, line
<1>3. PICK n \in 1 .. Len(s) : t = Rest(s, n)
  BY <1>1
<1>4. n \in 0 .. Len(s) /\ 1 \in 1 .. n
  BY <1>2, <1>3, LenProperties
<1>5. /\ Tells(s, Rest(s, n), k)
      /\ \A i \in 1 .. n : \A v \in Mark(s[i], k), w \in Strokes(Rest(s, n), k) : v <= w
  BY <1>2, <1>4, RestTells
<1>6. Mark(line, k) \subseteq Marks(s, k) /\ Stroke(line, k) \subseteq Strokes(s, k)
  BY <1>1 DEF Marks, Strokes
<1> QED
  BY <1>1, <1>3, <1>4, <1>5, <1>6 DEF s, t, line

LEMMA Emptied ==
  ASSUME NEW c \in Clients,
         inbuf' = [inbuf EXCEPT ![c] = <<>>], down' = [down EXCEPT ![c] = <<>>]
  PROVE  Streams => /\ Stream(c)' = <<>>
                    /\ \A d \in Clients : d # c => Stream(d)' = Stream(d)
<1> SUFFICES ASSUME Streams
             PROVE  /\ Stream(c)' = <<>>
                    /\ \A d \in Clients : d # c => Stream(d)' = Stream(d)
  OBVIOUS
<1>1. /\ inbuf'[c] = <<>> /\ down'[c] = <<>>
      /\ \A d \in Clients : d # c => inbuf'[d] = inbuf[d] /\ down'[d] = down[d]
  BY DEF Streams
<1>2. <<>> \o <<>> = <<>>
  BY EmptySeq, ConcatEmptySeq
<1> QED
  BY <1>1, <1>2 DEF Stream

(* A client comes in with a canvas that was the first of its stream.        *)
LEMMA EnterStep ==
  ASSUME Kept, NEW k \in SingleAuthor, InOrderAt(k), NEW c \in Clients,
         cpc[c] = "await_canvas", cpc' = [cpc EXCEPT ![c] = "online"],
         Line(c) \in Tokens, Line(c).kind = "cells",
         local' = [local EXCEPT ![c] = Line(c).cells],
         Mark(Line(c), k) \subseteq Marks(Stream(c), k), Tells(Stream(c), Stream(c)', k),
         \A v \in Mark(Line(c), k), w \in Strokes(Stream(c)', k) : v <= w,
         \A d \in Clients : d # c => Stream(d)' = Stream(d),
         UNCHANGED <<canvas, bufVars, edits, pending, up, garbled>>, Loads(k)
  PROVE  InOrderAt(k)'
<1> DEFINE v == Line(c).cells[k]
<1>1. v \in Mark(Line(c), k)
  BY Numbers, TokenKinds DEF Mark, Canvases
<1>2. local'[c][k] = v /\ \A d \in Clients : d # c => local'[d] = local[d] /\ cpc'[d] = cpc[d]
  BY DEF Kept, TypeOK
<1>3. Starting(c)
  BY DEF Starting
<1> HIDE DEF v
<1> QED
  BY <1>1, <1>2, <1>3, ShownStep

(* An update is shown. *)
LEMMA CellSet ==
  ASSUME Kept, NEW c \in Clients, NEW line \in Tokens \cup {msgBuf[c]}, SetCell(c, line)
  PROVE  \E x \in Cells, v \in Values :
           line = Update(x, v) /\ local' = [local EXCEPT ![c][x] = v]
<1> DEFINE mine == local[c]
<1>1. line \in Updates
  <2>1. msgBuf[c] \in Lines
    BY DEF Kept, TypeOK
  <2> QED
    BY <2>1, TokenKinds, LineKinds DEF SetCell
<1>2. local' = [local EXCEPT ![c] = [y \in Cells |->
                   IF y \in DOMAIN line.cells THEN line.cells[y] ELSE mine[y]]]
  BY DEF SetCell, Kept, TypeOK
<1>3. mine \in Canvases
  BY DEF Kept, TypeOK
<1> HIDE DEF mine
<1>4. \E x \in Cells, v \in Values :
        /\ line = Update(x, v)
        /\ [mine EXCEPT ![x] = v] \in Canvases
        /\ [y \in Cells |-> IF y \in DOMAIN line.cells THEN line.cells[y] ELSE mine[y]]
             = [mine EXCEPT ![x] = v]
  BY <1>1, <1>3, Painted
<1>5. PICK x \in Cells, v \in Values :
        line = Update(x, v) /\ local' = [local EXCEPT ![c] = [mine EXCEPT ![x] = v]]
  BY <1>2, <1>4
<1> QED
  BY <1>5 DEF mine

(* Of the lines net_handler() is given, only "s" sets a cell of a client    *)
(* that has the session's picture, and it is the first of its stream.       *)
LEMMA HandledLine ==
  ASSUME Kept, NEW c \in Clients, NEW line, NetHandler(c, line)
  PROVE  /\ SetCell(c, line) \/ UNCHANGED local
         /\ \E label \in {"online", "offline", "dead"} : cpc' = [cpc EXCEPT ![c] = label]
         /\ garbled' = garbled \/ garbled' = garbled \cup {c}
         /\ \E kind \in {"cut", "word"} :
              msgBuf' = msgBuf \/ msgBuf' = [msgBuf EXCEPT ![c] = Plain(kind)]
         /\ Online(c)' => /\ line.kind \in {"s", "vok", "cs", "word", "cells"}
                          /\ c \notin garbled
BY DEF NetHandler, SetCell, CGoto, Online, Networked, Kept, TypeOK

(* The line is one of its stream, or that in msg_buf after the server's end. *)
LEMMA ReceivedLine ==
  ASSUME Kept, NEW c \in Clients, Receive(c) \/ ReceiveEnd(c)
  PROVE  /\ Networked(c)
         /\ \E line \in Tokens \cup {msgBuf[c]} :
              /\ NetHandler(c, line)
              /\ \/ line = msgBuf[c] /\ (line.kind = "s" => c \in garbled)
                 \/ line = Line(c) /\ HasLine(c) /\ Getline(c)
                 \/ line.kind = "cells"
<1>1. CASE Receive(c)
  BY <1>1, GetlineStream DEF Receive, Selected, Networked, Kept
<1>2. CASE ReceiveEnd(c)
  BY <1>2, UnendedLine DEF ReceiveEnd, LastLine, Selected, Networked, Kept, Parsed
<1> QED
  BY <1>1, <1>2

(* It does not set a cell of the client's own. *)
LEMMA OwnCellsKept ==
  ASSUME Kept, NEW c \in Clients, NEW k \in SingleAuthor, InOrderAt(k), k \in Writes[c],
         Receive(c) \/ ReceiveEnd(c)
  PROVE  local'[c][k] = local[c][k]
<1>1. PICK line \in Tokens \cup {msgBuf[c]} :
        /\ NetHandler(c, line)
        /\ \/ line = msgBuf[c] /\ (line.kind = "s" => c \in garbled)
           \/ line = Line(c) /\ HasLine(c) /\ Getline(c)
           \/ line.kind = "cells"
  BY ReceivedLine
<1>2. CASE ~SetCell(c, line)
  BY <1>1, <1>2, HandledLine
<1>3. CASE SetCell(c, line)
  <2>1. PICK x \in Cells, v \in Values :
          line = Update(x, v) /\ local' = [local EXCEPT ![c][x] = v]
    BY <1>3, CellSet
  <2>2. line.kind = "s"
    BY <1>3 DEF SetCell
  <2>3. ASSUME x = k PROVE FALSE
    <3>1. Mark(line, k) = {v} /\ Stroke(line, k) = {v}
      BY <2>1, <2>3 DEF Stroke, Mark, Update
    <3>2. CASE line = msgBuf[c]
      BY <3>1, <3>2 DEF InOrderAt, Loaded
    <3>3. CASE line = Line(c) /\ HasLine(c) /\ Getline(c)
      <4>1. Stroke(Line(c), k) \subseteq Strokes(Stream(c), k)
        BY <3>3, FirstLine DEF Kept, InOrderAt, OnTheWayDown
      <4> QED
        BY <3>1, <3>3, <4>1 DEF InOrderAt, OnTheWayDown
    <3> QED
      BY <1>1, <2>2, <3>2, <3>3
  <2> QED
    BY <2>1, <2>3 DEF Kept, TypeOK, Canvases, SingleAuthor
<1> QED
  BY <1>2, <1>3

(* A thread copies a cell to the buffer. *)
LEMMA CopiedStep ==
  ASSUME Kept, NEW k \in SingleAuthor, PassedOn(k), NEW c \in Clients,
         (\E x \in Cells : LoadCell(c, x)) \/ StoreCell(c)
  PROVE  PassedOn(k)'
<1> USE Numbers DEF PassedOn
<1>1. ASSUME NEW x \in Cells, LoadCell(c, x) PROVE PassedOn(k)'
  <2>1. /\ held' = [held EXCEPT ![c] = Update(x, canvas[x])]
        /\ UNCHANGED <<canvas, canvasBuf, pending>>
    BY <1>1 DEF LoadCell
  <2>2. Mark(Update(x, canvas[x]), k) = IF k = x THEN {canvas[x]} ELSE {}
    BY TokenMarks
  <2>3. ASSUME NEW d \in Clients, NEW v \in Mark(held'[d], k) PROVE v <= canvas[k]
    <3>1. v \in Mark(held[d], k) \/ v = canvas[k]
      BY <2>1, <2>2, <2>3 DEF Kept, TypeOK
    <3> QED
      BY <3>1
  <2> QED
    BY <2>1, <2>3
<1>2. CASE StoreCell(c)
  <2>1. held \in [Clients -> Updates \cup {Plain("none")}]
    BY DEF Kept, TypeOK
  <2>2. PICK x \in Cells, v \in Values :
          held[c] = Update(x, v) /\ canvasBuf' = [canvasBuf EXCEPT ![x] = v]
    BY <1>2, <2>1, StoredCell
  <2>3. /\ held' = [held EXCEPT ![c] = Plain("none")]
        /\ UNCHANGED <<canvas, pending>>
    BY <1>2 DEF StoreCell
  <2>4. /\ Mark(Plain("none"), k) = {}
        /\ Mark(held[c], k) = IF k = x THEN {v} ELSE {}
    BY <2>2, TokenMarks
  <2>5. canvasBuf'[k] = canvasBuf[k] \/ canvasBuf'[k] \in Mark(held[c], k)
    BY <2>2, <2>4 DEF Kept, TypeOK, Canvases
  <2>6. canvasBuf'[k] <= canvas'[k]
    BY <2>3, <2>5
  <2>7. \A d \in Clients : Mark(held'[d], k) \subseteq Mark(held[d], k)
    BY <2>1, <2>3, <2>4
  <2> QED
    BY <2>3, <2>6, <2>7
<1> QED
  BY <1>1, <1>2

LEMMA OrderStep ==
  ASSUME Kept, NEW k \in SingleAuthor, InOrderAt(k), Next
  PROVE  InOrderAt(k)'
<1> USE DEF SAt, SGoto, bufVars, sendVars, clientVars, serverVars, ServerEnds
<1>1. ASSUME UNCHANGED <<canvas, bufVars, edits, pending>>, Loads(k),
             up' = up \/ up' = [d \in Clients |-> <<>>],
             \A d \in Clients : /\ local'[d][k] = local[d][k]
                                /\ Tells(Stream(d), Stream(d)', k)
                                /\ Online(d)' => Online(d)
                                /\ Starting(d)' => Starting(d)
      PROVE  InOrderAt(k)'
  <2>1. \A d \in Clients : Tells(up[d], up'[d], k)
    BY <1>1, NothingTold
  <2>2. \A d \in Clients : /\ Mark(pending'[d], k) \subseteq Mark(pending[d], k)
                           /\ Mark(held'[d], k) \subseteq Mark(held[d], k)
    BY <1>1
  <2>3. /\ canvas'[k] = canvas[k] /\ canvasBuf'[k] = canvasBuf[k]
        /\ edits' \in Nat /\ edits' >= edits
    BY <1>1, Numbers
  <2>4. Quiet(k)
    BY <1>1, <2>1, <2>2, <2>3 DEF Quiet
  <2> QED
    BY <2>4, QuietStep
<1>2. ASSUME UNCHANGED <<canvas, bufVars, local, edits, pending, inbuf, down, cpc,
                         msgBuf, garbled>>,
             up' = up \/ up' = [d \in Clients |-> <<>>]
      PROVE  InOrderAt(k)'
  <2>1. \A d \in Clients : /\ Tells(Stream(d), Stream(d)', k)
                           /\ Online(d)' => Online(d)
                           /\ Starting(d)' => Starting(d)
    BY <1>2, NothingTold DEF Stream, Online, Networked, Starting
  <2>2. \A d \in Clients : local'[d][k] = local[d][k]
    BY <1>2
  <2>3. /\ \A d \in Clients : /\ Tells(up[d], up'[d], k)
                             /\ Mark(pending'[d], k) = Mark(pending[d], k)
                             /\ Mark(held'[d], k) = Mark(held[d], k)
        /\ Loads(k)
    BY <1>2, NothingTold DEF Loads
  <2>4. /\ canvas'[k] = canvas[k] /\ canvasBuf'[k] = canvasBuf[k]
        /\ edits' \in Nat /\ edits' >= edits
    BY <1>2, Numbers
  <2>5. Quiet(k)
    BY <2>1, <2>2, <2>3, <2>4 DEF Quiet
  <2> QED
    BY <2>5, QuietStep
<1>3. ASSUME NEW c \in Clients, NEW from, NEW token \in Tokens, NEW to,
             WriteSelf(c, from, token, to), Stroke(token, k) = {},
             \A v \in Mark(token, k) : v <= canvas[k]
      PROVE  InOrderAt(k)'
  <2>1. UNCHANGED <<canvas, bufVars, local, edits, pending, inbuf, cpc, msgBuf, garbled>>
    BY <1>3 DEF WriteSelf
  <2>2. CASE Deliver(c, token) /\ UNCHANGED up
    BY <1>3, <2>1, <2>2, DeliveredStep
  <2>3. CASE ServerEnds /\ UNCHANGED down
    BY <1>2, <2>1, <2>3
  <2> QED
    BY <1>3, <2>2, <2>3 DEF WriteSelf
<1>4. ASSUME NEW d \in Clients, NEW token \in Tokens, LoopWrite(d, token),
             \A v \in Mark(token, k) : v <= canvas[k],
             \A v \in Stroke(token, k) : v = canvas[k] /\ k \notin Writes[d]
      PROVE  InOrderAt(k)'
  <2>1. UNCHANGED <<canvas, bufVars, local, edits, pending, inbuf, cpc, up, msgBuf, garbled>>
    BY <1>4 DEF LoopWrite
  <2>2. CASE Deliver(d, token)
    BY <1>4, <2>1, <2>2, DeliveredStep
  <2>3. CASE UNCHANGED down
    BY <1>2, <2>1, <2>3
  <2> QED
    BY <1>4, <2>2, <2>3 DEF LoopWrite
<1>5. ASSUME NEW c \in Clients, ThreadStep(c) PROVE InOrderAt(k)'
  <2>1. CASE SendVok(c) \/ SendSize(c) \/ SendNewline(c)
    <3>1. ASSUME NEW kind \in {"vok", "cs", "nl"}
          PROVE  /\ Plain(kind) \in Tokens /\ Mark(Plain(kind), k) = {}
                 /\ Stroke(Plain(kind), k) = {}
      BY TokenKinds, TokenMarks
    <3> QED
      BY <1>3, <2>1, <3>1 DEF SendVok, SendSize, SendNewline
  <2>2. CASE SendCells(c)
    <3>1. /\ Whole(canvasBuf) \in Tokens /\ Stroke(Whole(canvasBuf), k) = {}
          /\ Mark(Whole(canvasBuf), k) = {canvasBuf[k]}
      BY Numbers, TokenKinds, TokenMarks DEF Kept, TypeOK
    <3>2. canvasBuf[k] <= canvas[k]
      BY DEF InOrderAt, PassedOn
    <3> QED
      BY <1>3, <2>2, <3>1, <3>2 DEF SendCells
  <2>3. CASE (\E x \in Cells : LoadCell(c, x)) \/ StoreCell(c)
    <3>1. UNCHANGED <<canvas, local, edits, pending, up, down, inbuf, cpc, msgBuf, garbled>>
      BY <2>3 DEF LoadCell, StoreCell
    <3>2. PassedOn(k)'
      BY <2>3, CopiedStep DEF InOrderAt
    <3> QED
      BY <3>1, <3>2 DEF InOrderAt, Drawn, OnTheWayUp, OnTheWayDown, Viewed,
           Loaded, Stream, Online, Networked, Starting
  <2>4. CASE ReadSet(c)
    BY <2>4, StoredStep
  <2>5. ASSUME NEW d \in Clients, SendTo(c, d) PROVE InOrderAt(k)'
    <3>1. pending[c] \in Updates /\ mutex = c /\ d \in todo /\ LoopWrite(d, pending[c])
      BY <2>5 DEF SendTo, LoopWrite, Kept, Places
    <3>2. pending[c] \in Tokens /\ Stroke(pending[c], k) = Mark(pending[c], k)
      BY <3>1, TokenKinds, TokenMarks
    <3>3. d # c
      BY <3>1 DEF Kept, TypeOK
    <3>4. \A v \in Mark(pending[c], k) : /\ v = canvas[k] /\ v <= canvas[k]
                                         /\ k \notin Writes[d]
      BY <3>3, Numbers DEF InOrderAt, PassedOn
    <3> QED
      BY <1>4, <3>1, <3>2, <3>4
  <2>6. CASE SendUnlock(c)
    <3>1. /\ UNCHANGED <<canvas, bufVars, local, edits, up, down, inbuf, cpc, msgBuf, garbled>>
          /\ pending' = [pending EXCEPT ![c] = Plain("none")]
      BY <2>6 DEF SendUnlock
    <3>2. \A d \in Clients : /\ Mark(pending'[d], k) \subseteq Mark(pending[d], k)
                             /\ Mark(held'[d], k) \subseteq Mark(held[d], k)
                             /\ Tells(Stream(d), Stream(d)', k) /\ Tells(up[d], up'[d], k)
                             /\ Online(d)' => Online(d)
                             /\ Starting(d)' => Starting(d)
      <4>1. Mark(Plain("none"), k) = {}
        BY TokenMarks
      <4> QED
        BY <3>1, <4>1, NothingTold DEF Kept, Streams, Stream, Online, Networked, Starting
    <3>3. /\ canvas'[k] = canvas[k] /\ canvasBuf'[k] = canvasBuf[k]
          /\ edits' \in Nat /\ edits' >= edits
          /\ \A d \in Clients : local'[d][k] = local[d][k]
          /\ Loads(k)
      BY <3>1, Numbers DEF Loads
    <3>4. Quiet(k)
      BY <3>2, <3>3 DEF Quiet
    <3> QED
      BY <3>4, QuietStep
  <2>7. CASE SendLock(c) \/ EndThread(c)
    BY <1>2, <2>7 DEF SendLock, EndThread
  <2> QED
    BY <1>5, <2>1, <2>2, <2>3, <2>4, <2>5, <2>6, <2>7 DEF ThreadStep
<1>6. ASSUME NEW c \in Clients, HasLine(c), Getline(c)
      PROVE  /\ Tells(Stream(c), Stream(c)', k)
             /\ \A d \in Clients : d # c => Stream(d)' = Stream(d)
             /\ Line(c) \in Tokens
             /\ Mark(Line(c), k) \subseteq Marks(Stream(c), k)
             /\ Stroke(Line(c), k) \subseteq Strokes(Stream(c), k)
             /\ \A v \in Mark(Line(c), k), w \in Strokes(Stream(c)', k) : v <= w
  BY <1>6, FirstLine DEF Kept, InOrderAt, OnTheWayDown
<1>7. ASSUME NEW c \in Clients, NEW label, cpc' = [cpc EXCEPT ![c] = label],
             \/ label \in {"await_cs", "await_canvas"} /\ Starting(c)
             \/ label \in {"online", "reading", "writing"} /\ (Networked(c) \/ c \in garbled')
             \/ label \in {"offline", "dead"},
             garbled \subseteq garbled'
      PROVE  \A d \in Clients : /\ Online(d)' => Online(d)
                                /\ Starting(d)' => Starting(d)
  BY <1>7 DEF Online, Networked, Starting, Kept, TypeOK
<1>8. ASSUME NEW c \in Clients,
             \A d \in Clients : Tells(Stream(d), Stream(d)', k),
             NEW label, cpc' = [cpc EXCEPT ![c] = label],
             \/ label \in {"await_cs", "await_canvas"} /\ Starting(c)
             \/ label \in {"online", "reading", "writing"} /\ (Networked(c) \/ c \in garbled')
             \/ label \in {"offline", "dead"},
             garbled \subseteq garbled', Loads(k),
             UNCHANGED <<canvas, bufVars, edits, pending, up>>,
             \A d \in Clients : local'[d][k] = local[d][k]
      PROVE  InOrderAt(k)'
  <2>1. \A d \in Clients : /\ Online(d)' => Online(d)
                           /\ Starting(d)' => Starting(d)
    BY <1>7, <1>8
  <2> QED
    BY <1>1, <1>8, <2>1
<1>9. ASSUME NEW c \in Clients, \/ HasLine(c) /\ Getline(c)
                               \/ Drain(c)
                               \/ UNCHANGED <<inbuf, down>>
      PROVE  \A d \in Clients : Tells(Stream(d), Stream(d)', k)
  <2>1. CASE HasLine(c) /\ Getline(c)
    BY <1>6, <2>1, NothingTold
  <2>2. CASE Drain(c)
    <3>1. \A d \in Clients : Stream(d)' = Stream(d) \/ Stream(d)' = <<>>
      BY <2>2, Emptied DEF Drain, Kept
    <3> QED
      BY <3>1, NothingTold
  <2>3. CASE UNCHANGED <<inbuf, down>>
    BY <2>3, NothingTold DEF Stream
  <2> QED
    BY <1>9, <2>1, <2>2, <2>3
<1>20. UNCHANGED msgBuf => Loads(k)
  BY DEF Loads
<1>21. ASSUME NEW c \in Clients, NEW kind, msgBuf' = [msgBuf EXCEPT ![c] = Plain(kind)]
       PROVE  Loads(k)
  <2>1. Mark(Plain(kind), k) = {}
    BY TokenMarks
  <2> QED
    BY <1>21, <2>1 DEF Loads, Kept, TypeOK
<1>10. ASSUME NEW c \in Clients, ClientRead(c) PROVE InOrderAt(k)'
  <2>1. CASE ReadVok(c) \/ ReadSize(c)
    <3>1. \E label \in {"await_cs", "await_canvas", "dead"} : cpc' = [cpc EXCEPT ![c] = label]
      BY <2>1 DEF ReadVok, ReadSize, Expect, CGoto
    <3>2. /\ HasLine(c) /\ Getline(c) /\ Starting(c)
          /\ UNCHANGED <<canvas, bufVars, edits, pending, up, msgBuf, local, garbled>>
      BY <2>1 DEF ReadVok, ReadSize, Expect, Starting
    <3>3. \A d \in Clients : local'[d][k] = local[d][k]
      BY <3>2
    <3> QED
      BY <1>8, <1>9, <1>20, <3>1, <3>2, <3>3
  <2>2. CASE ReadCanvas(c) \/ (HandshakeEnds(c) /\ cpc[c] = "await_canvas")
    <3>1. PICK line \in Tokens :
            /\ cpc[c] = "await_canvas" /\ Deserialize(c, line)
            /\ line = Plain("cs") \/ (line = Line(c) /\ 1 \in DOMAIN Stream(c) /\ line = Stream(c)[1])
            /\ line.kind = "cells" =>
                 \A v \in Mark(Line(c), k), w \in Strokes(Stream(c)', k) : v <= w
      <4>1. CASE ReadCanvas(c)
        BY <1>6, <4>1, GetlineStream DEF ReadCanvas, Kept
      <4>2. CASE HandshakeEnds(c) /\ cpc[c] = "await_canvas"
        <5>1. Deserialize(c, LastLine(c, Plain("cs"))) /\ ~HasLine(c) /\ Drain(c)
          BY <4>2 DEF HandshakeEnds
        <5>2. Strokes(Stream(c)', k) = {}
          BY <5>1, Emptied, NothingTold DEF Drain, Kept
        <5>3. Plain("cs") \in Tokens
          BY TokenKinds
        <5> QED
          BY <4>2, <5>1, <5>2, <5>3, UnendedLine DEF LastLine, Kept
      <4> QED
        BY <2>2, <4>1, <4>2
    <3>2. /\ (HasLine(c) /\ Getline(c)) \/ Drain(c)
          /\ UNCHANGED <<canvas, bufVars, edits, pending, up>>
      BY <2>2 DEF ReadCanvas, HandshakeEnds
    <3>3. \A d \in Clients : Tells(Stream(d), Stream(d)', k)
      BY <1>9, <3>2
    <3>4. \A d \in Clients : d # c => Stream(d)' = Stream(d)
      BY <1>6, <3>2, Emptied DEF Drain, Kept
    <3>5. cpc' = [cpc EXCEPT ![c] = "online"]
      BY <3>1 DEF Deserialize, CGoto
    <3>6. CASE line.kind = "cells"
      <4>1. line = Line(c) /\ Mark(Line(c), k) \subseteq Marks(Stream(c), k)
        BY <3>1, <3>6 DEF Plain, Marks
      <4>2. /\ local' = [local EXCEPT ![c] = line.cells] /\ garbled' = garbled
            /\ msgBuf' = [msgBuf EXCEPT ![c] = Plain("cells")]
        BY <3>1, <3>6 DEF Deserialize
      <4>3. Loads(k)
        BY <1>21, <4>2
      <4> QED
        BY <3>1, <3>2, <3>3, <3>4, <3>5, <3>6, <4>1, <4>2, <4>3, EnterStep
    <3>7. CASE line.kind # "cells"
      <4>1. /\ local' = local /\ garbled' = garbled \cup {c}
            /\ msgBuf' = [msgBuf EXCEPT ![c] = line]
        BY <3>1, <3>7 DEF Deserialize
      <4>2. Mark(line, k) \subseteq Strokes(Stream(c), k)
        <5>1. CASE line = Plain("cs")
          BY <5>1, TokenMarks
        <5>2. CASE line = Stream(c)[1] /\ 1 \in DOMAIN Stream(c) /\ line.kind = "s"
          BY <5>2 DEF Strokes, Stroke, Mark
        <5>3. CASE line.kind # "s"
          <6>0. line \notin Updates /\ \A cells : line # Whole(cells)
            BY <3>7, <5>3, TokenKinds DEF Whole
          <6>1. \E kind \in {"vok", "cs", "nl", "q"} : line = Plain(kind)
            BY <6>0 DEF Tokens
          <6> QED
            BY <6>1, TokenMarks
        <5> QED
          BY <3>1, <5>1, <5>2, <5>3
      <4>3. Loads(k)
        BY <4>1, <4>2 DEF Loads, Kept, TypeOK
      <4>4. \A d \in Clients : local'[d][k] = local[d][k]
        BY <4>1
      <4> QED
        BY <1>8, <3>2, <3>3, <3>5, <4>1, <4>3, <4>4
    <3> QED
      BY <3>6, <3>7
  <2>3. CASE HandshakeEnds(c) /\ cpc[c] # "await_canvas"
    <3>1. /\ Drain(c) /\ cpc' = [cpc EXCEPT ![c] = "dead"]
          /\ UNCHANGED <<canvas, bufVars, edits, pending, up, msgBuf, local, garbled>>
      BY <2>3 DEF HandshakeEnds, CGoto
    <3>2. \A d \in Clients : local'[d][k] = local[d][k]
      BY <3>1
    <3> QED
      BY <1>8, <1>9, <1>20, <3>1, <3>2
  <2>4. CASE Receive(c) \/ ReceiveEnd(c)
    <3>1. PICK line \in Tokens \cup {msgBuf[c]} :
            /\ NetHandler(c, line)
            /\ \/ line = msgBuf[c] /\ (line.kind = "s" => c \in garbled)
               \/ line = Line(c) /\ HasLine(c) /\ Getline(c)
               \/ line.kind = "cells"
      BY <2>4, ReceivedLine
    <3>2. /\ Networked(c)
          /\ (HasLine(c) /\ Getline(c)) \/ Drain(c)
          /\ UNCHANGED <<canvas, bufVars, edits, pending, up>>
      BY <2>4 DEF Receive, ReceiveEnd, Selected, Networked
    <3>3. \A d \in Clients : Tells(Stream(d), Stream(d)', k)
      BY <1>9, <3>2
    <3>4. /\ \E label \in {"online", "offline", "dead"} : cpc' = [cpc EXCEPT ![c] = label]
          /\ garbled' = garbled \/ garbled' = garbled \cup {c}
          /\ \E kind \in {"cut", "word"} :
               msgBuf' = msgBuf \/ msgBuf' = [msgBuf EXCEPT ![c] = Plain(kind)]
          /\ SetCell(c, line) \/ UNCHANGED local
      BY <3>1, HandledLine
    <3>5. Loads(k)
      BY <3>4, <1>20, <1>21
    <3>6. (\A d \in Clients : local'[d][k] = local[d][k]) => InOrderAt(k)'
      BY <1>8, <3>2, <3>3, <3>4, <3>5
    <3>7. ASSUME SetCell(c, line) PROVE InOrderAt(k)'
      <4>1. PICK x \in Cells, v \in Values :
              line = Update(x, v) /\ local' = [local EXCEPT ![c][x] = v]
        BY <3>7, CellSet
      <4>2. /\ garbled' = garbled /\ line.kind = "s"
            /\ \A d \in Clients : d # c => local'[d] = local[d] /\ cpc'[d] = cpc[d]
        BY <3>4, <3>7, <4>1 DEF SetCell, Kept, TypeOK
      <4>3. CASE x # k
        BY <3>6, <4>1, <4>3 DEF Kept, TypeOK, Canvases
      <4>4. CASE x = k /\ line = Line(c) /\ HasLine(c) /\ Getline(c)
        <5>1. Mark(line, k) = {v} /\ Stroke(line, k) = {v}
          BY <4>1, <4>4, TokenMarks DEF Stroke, Mark, Update
        <5>2. local'[c][k] = v
          BY <4>1, <4>4 DEF Kept, TypeOK, Canvases
        <5>3. /\ v \in Marks(Stream(c), k) /\ v \in Strokes(Stream(c), k)
              /\ \A w \in Strokes(Stream(c)', k) : v <= w
              /\ \A d \in Clients : d # c => Stream(d)' = Stream(d)
          BY <1>6, <4>4, <5>1
        <5>4. k \notin Writes[c]
          BY <5>3 DEF InOrderAt, OnTheWayDown
        <5>5. Starting(c)' => Starting(c)
          BY <3>7 DEF SetCell, CGoto, Starting, Kept, TypeOK
        <5> QED
          BY <3>2, <3>3, <3>5, <4>2, <5>2, <5>3, <5>4, <5>5, ShownStep
      <4>5. CASE x = k /\ line = msgBuf[c]
        <5>1. CASE c \notin garbled
          BY <3>1, <4>2, <4>4, <4>5, <5>1
        <5>2. CASE c \in garbled
          <6>1. Mark(msgBuf[c], k) # {}
            BY <4>1, <4>5 DEF Mark, Update
          <6>2. k \notin Writes[c]
            BY <6>1 DEF InOrderAt, Loaded
          <6> QED
            BY <3>2, <3>3, <3>5, <4>2, <5>2, <6>2, AsideStep DEF Online
        <5> QED
          BY <5>1, <5>2
      <4> QED
        BY <3>1, <4>2, <4>3, <4>4, <4>5
    <3> QED
      BY <3>4, <3>6, <3>7
  <2>5. CASE AwaitRest(c) \/ Written(c)
    <3>1. /\ UNCHANGED <<canvas, bufVars, edits, pending, up, local, inbuf, down, msgBuf, garbled>>
          /\ Networked(c)
          /\ \E label \in {"online", "reading", "dead"} : cpc' = [cpc EXCEPT ![c] = label]
      BY <2>5 DEF AwaitRest, Written, CGoto, Networked
    <3>2. \A d \in Clients : local'[d][k] = local[d][k]
      BY <3>1
    <3> QED
      BY <1>8, <1>9, <1>20, <3>1, <3>2
  <2> QED
    BY <1>10, <2>1, <2>2, <2>3, <2>4, <2>5 DEF ClientRead, HandshakeEnds
<1>11. ASSUME NEW c \in Clients, NEW x \in Writes[c], Edit(c, x) PROVE InOrderAt(k)'
  BY <1>11, DrawnStep
<1>12. ASSUME NEW c \in Clients, ResizeTerminal(c) \/ Leave(c) PROVE InOrderAt(k)'
  <2>1. /\ UNCHANGED <<canvas, bufVars, edits, pending, up, local, msgBuf, garbled>>
        /\ UNCHANGED <<inbuf, down>> \/ Drain(c)
        /\ \/ cpc' = [cpc EXCEPT ![c] = "reading"] /\ Networked(c)
           \/ cpc' = [cpc EXCEPT ![c] = "dead"]
    BY <1>12 DEF ResizeTerminal, Leave, CGoto, Networked
  <2>2. \A d \in Clients : local'[d][k] = local[d][k]
    BY <2>1
  <2> QED
    BY <1>8, <1>9, <1>20, <2>1, <2>2
<1>14. ASSUME NEW c \in Clients, Join(c) PROVE InOrderAt(k)'
  <2>1. /\ UNCHANGED <<canvas, bufVars, edits, pending, up, local, inbuf, down, msgBuf, garbled>>
        /\ cpc[c] = "absent" /\ cpc' = [cpc EXCEPT ![c] = "await_vok"]
    BY <1>14 DEF Join, Kept, Places
  <2>2. \A d \in Clients : /\ Online(d)' => Online(d)
                           /\ Starting(d)' => Starting(d)
    BY <2>1 DEF Online, Networked, Starting, Kept, TypeOK
  <2>3. \A d \in Clients : Tells(Stream(d), Stream(d)', k)
    BY <1>9, <2>1
  <2> QED
    BY <1>1, <1>20, <2>1, <2>2, <2>3
<1>15. CASE HandlerStep \/ Interrupt \/ Halt
  <2>1. Plain("q") \in Tokens /\ Mark(Plain("q"), k) = {} /\ Stroke(Plain("q"), k) = {}
    BY TokenKinds, TokenMarks
  <2>2. ASSUME NEW d \in Clients, FinishTo(d) PROVE InOrderAt(k)'
    BY <1>4, <2>1, <2>2 DEF FinishTo
  <2>3. CASE Exit \/ Interrupt \/ Halt
    BY <1>2, <2>3 DEF Exit, Interrupt, Halt, vars
  <2> QED
    BY <1>15, <2>2, <2>3 DEF HandlerStep
<1> QED
  BY <1>5, <1>10, <1>11, <1>12, <1>14, <1>15 DEF Next

LEMMA OrderInit ==
  ASSUME Init, NEW k \in SingleAuthor
  PROVE  InOrderAt(k)
<1>1. Kept
  BY KeptInit
<1>2. k \in Cells /\ canvas[k] = 0 /\ canvasBuf[k] = 0 /\ edits = 0
  BY DEF Init, SingleAuthor
<1>3. \A c \in Clients : /\ up[c] = <<>> /\ inbuf[c] = <<>> /\ down[c] = <<>>
                         /\ local[c][k] = 0 /\ pending[c] = Plain("none")
                         /\ held[c] = Plain("none")
                         /\ msgBuf[c] \in {Plain("none"), Plain("cells")}
  BY <1>2 DEF Init
<1>4. \A c \in Clients : Stream(c) = <<>>
  BY <1>3 DEF Stream
<1>5. Mark(Plain("none"), k) = {} /\ Mark(Plain("cells"), k) = {}
  BY DEF Mark, Plain
<1>6. Strokes(<<>>, k) = {} /\ Marks(<<>>, k) = {} /\ Ordered(<<>>, k)
  BY NothingTold
<1>7. Drawn(k)
  BY <1>2, <1>3 DEF Drawn
<1>8. OnTheWayUp(k) /\ OnTheWayDown(k)
  BY <1>3, <1>4, <1>6 DEF OnTheWayUp, OnTheWayDown
<1>9. PassedOn(k)
  BY <1>2, <1>3, <1>5 DEF PassedOn
<1>10. Viewed(k) /\ Loaded(k)
  BY <1>2, <1>3, <1>4, <1>5, <1>6 DEF Viewed, Loaded
<1> QED
  BY <1>7, <1>8, <1>9, <1>10 DEF InOrderAt

LEMMA OrderKept == SInv /\ [Next]_vars => SInv'
<1> SUFFICES ASSUME SInv, [Next]_vars PROVE SInv'
  OBVIOUS
<1>1. Kept'
  BY KeptStep DEF SInv
<1> SUFFICES ASSUME NEW k \in SingleAuthor PROVE InOrderAt(k)'
  BY <1>1 DEF SInv, SingleAuthor
<1>2. Kept /\ InOrderAt(k)
  BY DEF SInv
<1>3. CASE Next
  BY <1>2, <1>3, OrderStep
<1>4. CASE UNCHANGED vars
  <2>1. /\ canvas'[k] = canvas[k] /\ canvasBuf'[k] = canvasBuf[k]
        /\ edits' \in Nat /\ edits' >= edits
    BY <1>2, <1>4, Numbers DEF vars, bufVars
  <2>2. \A c \in Clients : /\ local'[c][k] = local[c][k]
                           /\ up'[c] = up[c] /\ Stream(c)' = Stream(c)
                           /\ pending'[c] = pending[c] /\ held'[c] = held[c]
                           /\ msgBuf'[c] = msgBuf[c]
                           /\ Online(c)' => Online(c)
                           /\ Starting(c)' => Starting(c)
    BY <1>4 DEF vars, bufVars, Stream, Online, Networked, Starting
  <2>3. Quiet(k)
    BY <2>1, <2>2, NothingTold DEF Quiet, Loads
  <2> QED
    BY <1>2, <2>3, QuietStep
<1> QED
  BY <1>3, <1>4

LEMMA SessionOrder == Spec => []SInv
<1>1. Init => SInv
  BY KeptInit, OrderInit DEF SInv
<1> QED
  BY <1>1, OrderKept, PTL DEF Spec

(* Whatever the threads, sockets and readers do between an author and those *)
(* who look on, the master has no stroke the author has not drawn, and no   *)
(* viewer shows one the master has not had.                                 *)
THEOREM SessionInBetween == Spec => []MasterInBetween
<1>1. SInv => MasterInBetween
  <2> SUFFICES ASSUME SInv, NEW k \in SingleAuthor, NEW c \in Clients, Online(c)
               PROVE  IF k \in Writes[c] THEN local[c][k] >= canvas[k]
                                         ELSE local[c][k] <= canvas[k]
    BY DEF MasterInBetween
  <2> QED
    BY Numbers DEF SInv, InOrderAt, Drawn, Viewed
<1> QED
  BY <1>1, SessionOrder, PTL

-----------------------------------------------------------------------------
(* What a step does to a client that stays in. *)

LEMMA LocalStep ==
  ASSUME Kept, Next, NEW c \in Clients, Online(c)
  PROVE  \/ local'[c] = local[c]
         \/ Receive(c) /\ SetCell(c, Line(c))
         \/ \E k \in Writes[c] : Edit(c, k)
<1> USE DEF bufVars, sendVars, clientVars, serverVars, ServerEnds, CGoto, SGoto
<1>1. ASSUME NEW d \in Clients, ThreadStep(d) PROVE local' = local
  BY <1>1 DEF ThreadStep, SendVok, SendSize, LoadCell, StoreCell, SendCells, SendNewline,
              WriteSelf, ReadSet, SendLock, SendTo, LoopWrite, SendUnlock, EndThread
<1>2. ASSUME NEW d \in Clients, ReadVok(d) \/ ReadSize(d) \/ AwaitRest(d) \/ Written(d)
      PROVE  local' = local
  BY <1>2 DEF ReadVok, ReadSize, Expect, AwaitRest, Written
<1>3. ASSUME NEW d \in Clients, ReadCanvas(d) \/ HandshakeEnds(d) PROVE local'[c] = local[c]
  <2>1. cpc[d] \in {"await_vok", "await_cs", "await_canvas"}
    BY <1>3 DEF ReadCanvas, HandshakeEnds
  <2>2. c # d
    BY <2>1 DEF Online, Networked
  <2>3. local' = local \/ \E cells : local' = [local EXCEPT ![d] = cells]
    BY <1>3 DEF ReadCanvas, HandshakeEnds, Deserialize
  <2> QED
    BY <2>2, <2>3 DEF Kept, TypeOK
<1>4. ASSUME NEW d \in Clients, Receive(d) PROVE local'[c] = local[c] \/ SetCell(c, Line(c))
  <2>1. CASE SetCell(d, Line(d)) /\ d # c
    BY <2>1 DEF SetCell, Kept, TypeOK
  <2>2. CASE ~SetCell(d, Line(d))
    BY <1>4, <2>2 DEF Receive, NetHandler
  <2> QED
    BY <2>1, <2>2
<1>5. ASSUME NEW d \in Clients, ReceiveEnd(d) PROVE local'[c] = local[c]
  <2> DEFINE line == LastLine(d, msgBuf[d])
  <2>1. CASE SetCell(d, line) /\ d # c
    BY <2>1 DEF SetCell, Kept, TypeOK
  <2>2. CASE ~SetCell(d, line)
    BY <1>5, <2>2 DEF ReceiveEnd, NetHandler
  <2>3. CASE d = c /\ SetCell(d, line)
    <3>1. line.kind = "s"
      BY <2>3 DEF SetCell
    <3>2. line.kind = "cells" \/ line = msgBuf[c]
      BY <1>5, <2>3, UnendedLine DEF ReceiveEnd, LastLine, Kept
    <3> QED
      BY <3>1, <3>2 DEF Kept, Parsed, Online
  <2> QED
    BY <2>1, <2>2, <2>3
<1>6. ASSUME NEW d \in Clients, NEW k \in Writes[d], Edit(d, k), d # c
      PROVE  local'[c] = local[c]
  BY <1>6 DEF Edit, Kept, TypeOK
<1>7. ASSUME NEW d \in Clients, Join(d) \/ Leave(d) \/ ResizeTerminal(d) PROVE local' = local
  BY <1>7 DEF Join, Leave, ResizeTerminal
<1>8. CASE Interrupt \/ HandlerStep \/ Halt
  BY <1>8 DEF Interrupt, HandlerStep, FinishTo, LoopWrite, Exit, Halt, vars
<1>9. ASSUME NEW d \in Clients, Receive(d), d # c PROVE local'[c] = local[c]
  <2>1. CASE SetCell(d, Line(d))
    BY <1>9, <2>1 DEF SetCell, Kept, TypeOK
  <2>2. CASE ~SetCell(d, Line(d))
    BY <1>9, <2>2 DEF Receive, NetHandler
  <2> QED
    BY <2>1, <2>2
<1> QED
  BY <1>1, <1>2, <1>3, <1>4, <1>5, <1>6, <1>7, <1>8, <1>9 DEF Next, ClientRead

(* Neither an author nor a viewer sees a cell fall back to an earlier edit, *)
(* however lines wait in sockets and buffers.                               *)
THEOREM SessionForward == Spec => NeverRegress
<1> DEFINE Forward == \A c \in Clients : Online(c) =>
                        \A k \in SingleAuthor : local'[c][k] >= local[c][k]
<1>1. SInv /\ [Next]_vars => Forward
  <2> SUFFICES ASSUME SInv, [Next]_vars, NEW c \in Clients, Online(c), NEW k \in SingleAuthor
               PROVE  local'[c][k] >= local[c][k]
    OBVIOUS
  <2>1. Kept /\ InOrderAt(k) /\ local[c][k] \in Nat /\ k \in Cells /\ edits \in Nat
    BY Numbers DEF SInv
  <2>2. local[c] \in [Cells -> Values]
    BY <2>1 DEF Kept, TypeOK, Canvases
  <2>3. CASE local'[c] = local[c]
    BY <2>1, <2>3
  <2>4. CASE Receive(c) /\ SetCell(c, Line(c))
    <3>0. Line(c) \in Tokens
      BY <2>1, <2>4, GetlineStream DEF Kept, Receive
    <3>1. PICK x \in Cells, v \in Values :
                 Line(c) = Update(x, v) /\ local' = [local EXCEPT ![c][x] = v]
      BY <2>1, <2>4, <3>0, CellSet
    <3>2. local'[c][k] = IF k = x THEN v ELSE local[c][k]
      BY <2>1, <2>2, <3>1 DEF Kept, TypeOK
    <3>3. Line(c) = Stream(c)[1] /\ 1 \in DOMAIN Stream(c)
      BY <2>1, <2>4, GetlineStream DEF Kept, Receive
    <3>4. CASE k = x
      <4>1. v \in Stroke(Line(c), k)
        BY <3>1, <3>4 DEF Update, Stroke
      <4>2. v \in Strokes(Stream(c), k)
        BY <3>3, <4>1 DEF Strokes
      <4>3. k \notin Writes[c]
        BY <2>1, <4>2 DEF InOrderAt, OnTheWayDown
      <4>4. local[c][k] <= v
        BY <2>1, <4>2, <4>3 DEF InOrderAt, Viewed
      <4> QED
        BY <2>1, <3>2, <3>4, <4>4, SessionAssumption DEF Values
    <3> QED
      BY <2>1, <3>2, <3>4
  <2>5. ASSUME NEW x \in Writes[c], Edit(c, x) PROVE local'[c][k] >= local[c][k]
    <3>1. edits' = edits + 1 /\ local' = [local EXCEPT ![c][x] = edits']
      BY <2>5 DEF Edit
    <3>2. local'[c][k] = IF k = x THEN edits + 1 ELSE local[c][k]
      BY <2>1, <2>2, <3>1 DEF Kept, TypeOK
    <3>3. k = x => local[c][k] <= edits
      BY <2>1, <2>5 DEF InOrderAt, Drawn
    <3> QED
      BY <2>1, <3>2, <3>3
  <2>6. CASE UNCHANGED vars
    BY <2>3, <2>6 DEF vars
  <2> QED
    BY <2>1, <2>3, <2>4, <2>5, <2>6, LocalStep
<1>2. Spec => [][Forward]_vars
  BY <1>1, SessionOrder, PTL DEF Spec
<1> QED
  BY <1>2 DEF NeverRegress

LEMMA StreamMoves ==
  ASSUME Kept, Next, NEW c \in Clients
  PROVE  \/ Stream(c)' = Stream(c)
         \/ \E token \in Tokens : /\ Stream(c)' = Append(Stream(c), token)
                                  /\ token.kind = "cells" =>
                                       spc[c] = "serialize" /\ spc'[c] = "nl"
         \/ /\ HasLine(c) /\ Getline(c)
            /\ ReadVok(c) \/ ReadSize(c) \/ ReadCanvas(c) \/ Receive(c)
         \/ /\ Stream(c)' = <<>>
            /\ Leave(c) \/ HandshakeEnds(c) \/ ReceiveEnd(c)
<1> DEFINE Same == Stream(c)' = Stream(c)
           Joined == \E token \in Tokens : /\ Stream(c)' = Append(Stream(c), token)
                                           /\ token.kind = "cells" =>
                                                spc[c] = "serialize" /\ spc'[c] = "nl"
<1> USE DEF bufVars, sendVars, clientVars, serverVars, ServerEnds, CGoto, SGoto, SAt
<1>1. UNCHANGED <<inbuf, down>> => Same
  BY DEF Stream
<1>2. ASSUME NEW d \in Clients, NEW token \in Tokens, Deliver(d, token), UNCHANGED inbuf,
             token.kind = "cells" => spc[d] = "serialize" /\ spc'[d] = "nl"
      PROVE  Same \/ Joined
  BY <1>2, DeliverStream DEF Kept
<1>3. ASSUME NEW d \in Clients, NEW token \in Tokens, token.kind # "cells", LoopWrite(d, token)
      PROVE  Same \/ Joined
  BY <1>1, <1>2, <1>3 DEF LoopWrite
<1>4. ASSUME NEW d \in Clients, NEW token \in Tokens, NEW from, NEW to,
             WriteSelf(d, from, token, to),
             token.kind = "cells" => from = "serialize" /\ to = "nl"
      PROVE  Same \/ Joined
  <2>1. UNCHANGED inbuf /\ spc[d] = from
    BY <1>4 DEF WriteSelf
  <2>2. CASE UNCHANGED down
    BY <1>1, <2>1, <2>2
  <2>3. CASE Deliver(d, token) /\ spc' = [spc EXCEPT ![d] = to]
    <3>1. spc'[d] = to
      BY <2>3 DEF Kept, TypeOK
    <3> QED
      BY <1>2, <1>4, <2>1, <2>3, <3>1
  <2> QED
    BY <1>4, <2>2, <2>3 DEF WriteSelf
<1> HIDE DEF Same, Joined
<1>5. ASSUME NEW d \in Clients, ThreadStep(d) PROVE Same \/ Joined
  <2>1. CASE SendVok(d) \/ SendSize(d) \/ SendNewline(d)
    <3>1. \A kind \in {"vok", "cs", "nl"} : Plain(kind) \in Tokens /\ Plain(kind).kind # "cells"
      BY TokenKinds DEF Plain
    <3> QED
      BY <1>4, <2>1, <3>1 DEF SendVok, SendSize, SendNewline
  <2>2. CASE SendCells(d)
    <3>1. canvasBuf \in Canvases
      BY DEF Kept, TypeOK
    <3>2. Whole(canvasBuf) \in Tokens
      BY <3>1, TokenKinds
    <3> QED
      BY <1>4, <2>2, <3>2 DEF SendCells
  <2>3. ASSUME NEW e \in Clients, SendTo(d, e) PROVE Same \/ Joined
    <3>1. pending[d] \in Tokens /\ pending[d].kind # "cells"
      BY <2>3, TokenKinds DEF SendTo, Kept, Places
    <3> QED
      BY <1>3, <2>3, <3>1 DEF SendTo
  <2>4. CASE (\E k \in Cells : LoadCell(d, k)) \/ StoreCell(d)
    BY <1>1, <2>4 DEF LoadCell, StoreCell
  <2>5. CASE ReadSet(d) \/ SendLock(d) \/ SendUnlock(d) \/ EndThread(d)
    BY <1>1, <2>5 DEF ReadSet, SendLock, SendUnlock, EndThread
  <2> QED
    BY <1>5, <2>1, <2>2, <2>3, <2>4, <2>5 DEF ThreadStep
<1>6. ASSUME NEW d \in Clients, d # c, HasLine(d), Getline(d) PROVE Same
  BY <1>6, GetlineStream DEF Kept, Same
<1>7. ASSUME NEW d \in Clients, Drain(d)
      PROVE  IF d = c THEN Stream(c)' = <<>> ELSE Same
  BY <1>7, Emptied DEF Kept, Same, Drain
<1>8. ASSUME NEW d \in Clients, AwaitRest(d) \/ Written(d) \/ Join(d) \/ ResizeTerminal(d)
                               \/ \E x \in Writes[d] : Edit(d, x)
      PROVE  Same
  BY <1>1, <1>8 DEF AwaitRest, Written, Join, ResizeTerminal, Edit
<1>9. ASSUME NEW d \in Clients, ReadVok(d) \/ ReadSize(d) \/ ReadCanvas(d) \/ Receive(d)
      PROVE  HasLine(d) /\ Getline(d)
  BY <1>9 DEF ReadVok, ReadSize, Expect, ReadCanvas, Receive
<1>10. ASSUME NEW d \in Clients, Leave(d) \/ HandshakeEnds(d) \/ ReceiveEnd(d)
       PROVE  Drain(d)
  BY <1>10 DEF Leave, HandshakeEnds, ReceiveEnd
<1>11. ASSUME Interrupt \/ HandlerStep \/ Halt PROVE Same \/ Joined
  <2>1. Plain("q") \in Tokens /\ Plain("q").kind # "cells"
    BY TokenKinds DEF Plain
  <2>2. ASSUME NEW d \in Clients, FinishTo(d) PROVE Same \/ Joined
    BY <1>3, <2>1, <2>2 DEF FinishTo
  <2>3. CASE Interrupt \/ Exit \/ Halt
    BY <1>1, <2>3 DEF Interrupt, Exit, Halt, vars
  <2> QED
    BY <1>11, <2>2, <2>3 DEF HandlerStep
<1>12. PICK d \in Clients :
         \/ ThreadStep(d) \/ Same \/ Joined
         \/ HasLine(d) /\ Getline(d) /\ (ReadVok(d) \/ ReadSize(d) \/ ReadCanvas(d) \/ Receive(d))
         \/ Drain(d) /\ (Leave(d) \/ HandshakeEnds(d) \/ ReceiveEnd(d))
  BY <1>8, <1>9, <1>10, <1>11 DEF Next, ClientRead
<1> QED
  BY <1>5, <1>6, <1>7, <1>12 DEF Same, Joined

(* A canvas on the way is the only one, and is not followed by another.     *)
NoCanvas(s) == \A i \in DOMAIN s : s[i].kind # "cells"
OneCanvas(s) ==
  \A i, j \in DOMAIN s : s[i].kind = "cells" /\ s[j].kind = "cells" => i = j

Ungreeted(c) == spc[c] \in {"absent", "vok", "cs", "serialize"}
Alone(c) == /\ OneCanvas(Stream(c))
            /\ Ungreeted(c) \/ Online(c) => NoCanvas(Stream(c))
            /\ Online(c) => ~Ungreeted(c)

LEMMA AppendCanvas ==
  ASSUME NEW s \in Seq(Tokens), NEW t \in Tokens
  PROVE  /\ NoCanvas(s) => OneCanvas(Append(s, t))
         /\ t.kind # "cells" => /\ OneCanvas(s) => OneCanvas(Append(s, t))
                                /\ NoCanvas(s) => NoCanvas(Append(s, t))
<1> DEFINE u == Append(s, t)
           n == Len(s)
<1>1. /\ n \in Nat /\ DOMAIN s = 1 .. n
      /\ DOMAIN u = 1 .. n + 1 /\ u[n + 1] = t
      /\ \A i \in 1 .. n : u[i] = s[i]
  BY LenProperties, AppendProperties
<1> HIDE DEF u, n
<1>2. \A i \in DOMAIN u : (i \in DOMAIN s /\ u[i] = s[i]) \/ (i = n + 1 /\ u[i] = t)
  BY <1>1
<1>3. NoCanvas(s) => OneCanvas(u)
  BY <1>2 DEF NoCanvas, OneCanvas
<1>4. t.kind # "cells" => /\ OneCanvas(s) => OneCanvas(u)
                          /\ NoCanvas(s) => NoCanvas(u)
  BY <1>2 DEF NoCanvas, OneCanvas
<1> QED
  BY <1>3, <1>4 DEF u

LEMMA RestCanvas ==
  ASSUME NEW s \in Seq(Tokens), NEW n \in 1 .. Len(s)
  PROVE  /\ OneCanvas(s) => OneCanvas(Rest(s, n))
         /\ NoCanvas(s) => NoCanvas(Rest(s, n))
         /\ OneCanvas(s) /\ s[1].kind = "cells" => NoCanvas(Rest(s, n))
<1> DEFINE r == Rest(s, n)
<1>1. n \in 0 .. Len(s) /\ n >= 1 /\ Len(s) \in Nat
  BY LenProperties
<1>2. /\ DOMAIN r = 1 .. Len(s) - n /\ DOMAIN s = 1 .. Len(s)
      /\ \A i \in 1 .. Len(s) - n : r[i] = s[i + n]
  BY <1>1, RestIndex
<1> HIDE DEF r
<1>3. \A i \in DOMAIN r : /\ i \in Nat /\ i + n \in DOMAIN s /\ r[i] = s[i + n]
                          /\ i + n # 1 /\ 1 \in DOMAIN s
  BY <1>1, <1>2
<1>4. OneCanvas(s) => OneCanvas(r)
  <2> SUFFICES ASSUME OneCanvas(s), NEW i \in DOMAIN r, NEW j \in DOMAIN r,
                      r[i].kind = "cells", r[j].kind = "cells"
               PROVE  i = j
    BY DEF OneCanvas
  <2>1. i + n = j + n
    BY <1>3 DEF OneCanvas
  <2> QED
    BY <1>1, <1>3, <2>1
<1>5. NoCanvas(s) => NoCanvas(r)
  BY <1>3 DEF NoCanvas
<1>6. OneCanvas(s) /\ s[1].kind = "cells" => NoCanvas(r)
  BY <1>3 DEF NoCanvas, OneCanvas
<1> QED
  BY <1>4, <1>5, <1>6 DEF r

(* No thread starts again.                                                  *)
LEMMA ThreadForward ==
  ASSUME Kept, Next, NEW c \in Clients
  PROVE  Ungreeted(c)' => Ungreeted(c)
<1> USE DEF Ungreeted, SAt, SGoto, bufVars, sendVars, clientVars, serverVars, Kept, TypeOK
<1>1. ASSUME NEW d \in Clients, ThreadStep(d) PROVE Ungreeted(c)' => Ungreeted(c)
  <2>1. CASE SendVok(d) \/ SendSize(d) \/ SendCells(d) \/ SendNewline(d)
    BY <2>1 DEF SendVok, SendSize, SendCells, SendNewline, WriteSelf
  <2>2. CASE (\E k \in Cells : LoadCell(d, k)) \/ StoreCell(d) \/ \E e \in Clients : SendTo(d, e)
    BY <2>2 DEF LoadCell, StoreCell, SendTo, LoopWrite
  <2>3. CASE ReadSet(d) \/ SendLock(d) \/ SendUnlock(d) \/ EndThread(d)
    BY <2>3 DEF ReadSet, SendLock, SendUnlock, EndThread
  <2> QED
    BY <1>1, <2>1, <2>2, <2>3 DEF ThreadStep
<1>2. ASSUME NEW d \in Clients, ClientRead(d) PROVE spc' = spc
  BY <1>2 DEF ClientRead, ReadVok, ReadSize, Expect, ReadCanvas, HandshakeEnds, Receive,
              AwaitRest, ReceiveEnd, Written
<1>3. ASSUME NEW d \in Clients, Leave(d) \/ ResizeTerminal(d) \/ \E k \in Writes[d] : Edit(d, k)
      PROVE  spc' = spc
  BY <1>3 DEF Leave, ResizeTerminal, Edit
<1>4. ASSUME NEW d \in Clients, Join(d) PROVE Ungreeted(c)' => Ungreeted(c)
  BY <1>4 DEF Join
<1>5. CASE Interrupt \/ HandlerStep \/ Halt
  BY <1>5 DEF Interrupt, HandlerStep, FinishTo, LoopWrite, Exit, Halt, vars
<1> QED
  BY <1>1, <1>2, <1>3, <1>4, <1>5 DEF Next

(* A client comes in with the first line of its stream, a canvas.           *)
LEMMA Entering ==
  ASSUME Kept, Next, NEW c \in Clients, Online(c)', ~Online(c)
  PROVE  /\ 1 \in DOMAIN Stream(c) /\ Stream(c)[1] = Line(c)
         /\ Line(c) \in Tokens /\ Line(c).kind = "cells"
         /\ local' = [local EXCEPT ![c] = Line(c).cells]
         /\ \/ ReadCanvas(c)
            \/ HandshakeEnds(c) /\ Stream(c)' = <<>>
<1> USE DEF bufVars, sendVars, clientVars, serverVars, SGoto, CGoto
<1>1. /\ cpc \in [Clients -> {"absent", "await_vok", "await_cs", "await_canvas",
                              "online", "reading", "writing", "offline", "dead"}]
      /\ garbled \subseteq Clients
  BY DEF Kept, TypeOK
<1>2. ASSUME UNCHANGED <<cpc, garbled>> PROVE FALSE
  BY <1>2 DEF Online, Networked
<1>3. ASSUME NEW d \in Clients, NEW label, cpc' = [cpc EXCEPT ![d] = label],
             garbled \subseteq garbled', Networked(d) \/ label \notin {"online", "reading", "writing"}
      PROVE  FALSE
  BY <1>1, <1>3 DEF Online, Networked
<1>4. ASSUME NEW d \in Clients, ThreadStep(d) PROVE FALSE
  BY <1>2, <1>4 DEF ThreadStep, SendVok, SendSize, LoadCell, StoreCell, SendCells, SendNewline,
              WriteSelf, ReadSet, SendLock, SendTo, LoopWrite, SendUnlock, EndThread
<1>5. ASSUME NEW d \in Clients, ReadVok(d) \/ ReadSize(d) \/ Written(d) \/ AwaitRest(d)
      PROVE  FALSE
  <2>1. CASE ReadVok(d) \/ ReadSize(d)
    BY <1>3, <2>1 DEF ReadVok, ReadSize, Expect
  <2>2. CASE Written(d) \/ AwaitRest(d)
    BY <1>3, <2>2 DEF Written, AwaitRest, Networked
  <2> QED
    BY <1>5, <2>1, <2>2
<1>6. ASSUME NEW d \in Clients, Receive(d) \/ ReceiveEnd(d) PROVE FALSE
  <2>1. PICK line : NetHandler(d, line)
    BY <1>6 DEF Receive, ReceiveEnd
  <2>2. /\ \E label : cpc' = [cpc EXCEPT ![d] = label]
        /\ garbled' = garbled \/ garbled' = garbled \cup {d}
    BY <2>1, HandledLine
  <2>3. Networked(d)
    BY <1>6 DEF Receive, ReceiveEnd, Selected, Networked
  <2> QED
    BY <1>3, <2>2, <2>3
<1>7. ASSUME NEW d \in Clients, NEW k \in Writes[d], Edit(d, k) PROVE FALSE
  <2>1. CASE UNCHANGED cpc
    BY <1>2, <1>7, <2>1 DEF Edit
  <2>2. CASE cpc' = [cpc EXCEPT ![d] = "writing"] /\ cpc[d] = "online"
    BY <1>3, <1>7, <2>2 DEF Edit, Networked
  <2> QED
    BY <1>7, <2>1, <2>2 DEF Edit
<1>8. ASSUME NEW d \in Clients, Join(d) \/ Leave(d) \/ ResizeTerminal(d) PROVE FALSE
  BY <1>3, <1>8 DEF Join, Leave, ResizeTerminal, Networked
<1>9. ASSUME Interrupt \/ HandlerStep \/ Halt PROVE FALSE
  BY <1>2, <1>9 DEF Interrupt, HandlerStep, FinishTo, LoopWrite, Exit, Halt, vars
<1>10. PICK d \in Clients : ReadCanvas(d) \/ HandshakeEnds(d)
  BY <1>4, <1>5, <1>6, <1>7, <1>8, <1>9 DEF Next, ClientRead
<1>11. PICK line : Deserialize(d, line) /\ line = IF ReadCanvas(d) THEN Line(d)
                                                  ELSE LastLine(d, Plain("cs"))
  <2>1. ASSUME cpc' = [cpc EXCEPT ![d] = "dead"], garbled' = garbled PROVE FALSE
    BY <1>3, <2>1
  <2> QED
    BY <1>10, <2>1 DEF ReadCanvas, HandshakeEnds
<1>12. d = c
  <2>1. cpc' = [cpc EXCEPT ![d] = "online"] /\ garbled \subseteq garbled'
    BY <1>11 DEF Deserialize
  <2> QED
    BY <1>1, <2>1 DEF Online, Networked
<1>13. line.kind = "cells" /\ local' = [local EXCEPT ![c] = line.cells]
  BY <1>11, <1>12 DEF Deserialize, Online
<1>14. CASE ReadCanvas(d)
  <2>1. HasLine(c) /\ Getline(c)
    BY <1>12, <1>14 DEF ReadCanvas
  <2> QED
    BY <1>11, <1>12, <1>13, <1>14, <2>1, GetlineStream DEF Kept
<1>15. CASE ~ReadCanvas(d)
  <2>1. ~HasLine(c) /\ Drain(c) /\ HandshakeEnds(c)
    BY <1>10, <1>12, <1>15 DEF HandshakeEnds
  <2>2. Visible(c) # <<>> /\ line = Line(c)
    BY <1>11, <1>12, <1>13, <1>15 DEF LastLine, Plain
  <2> QED
    BY <1>13, <2>1, <2>2, UnendedLine, Emptied DEF Kept, Drain
<1> QED
  BY <1>14, <1>15

LEMMA AloneStep ==
  ASSUME Kept, Next, NEW c \in Clients, Alone(c)
  PROVE  Alone(c)'
<1> DEFINE s == Stream(c)
           r == Stream(c)'
<1>1. s \in Seq(Tokens)
  BY StreamSeq DEF Kept
<1>2. Ungreeted(c)' => Ungreeted(c)
  BY ThreadForward
<1>3. ASSUME Ungreeted(c), Ungreeted(c)', Online(c)' PROVE FALSE
  <2>1. NoCanvas(Stream(c)) /\ ~Online(c)
    BY <1>3 DEF Alone
  <2> QED
    BY <1>3, <2>1, Entering DEF NoCanvas
<1>4. NoCanvas(<<>>) /\ OneCanvas(<<>>)
  BY EmptySeq DEF NoCanvas, OneCanvas
<1>5. OneCanvas(r) /\ (Ungreeted(c)' \/ Online(c)' => NoCanvas(r))
  <2>1. CASE Online(c)' /\ ~Online(c)
    <3>1. (s[1].kind = "cells" /\ HasLine(c) /\ Getline(c)) \/ r = <<>>
      BY <2>1, Entering DEF ReadCanvas
    <3>2. CASE r = <<>>
      BY <1>4, <3>2
    <3>3. CASE s[1].kind = "cells" /\ HasLine(c) /\ Getline(c)
      <4>1. \E n \in 1 .. Len(s) : r = Rest(s, n)
        BY <3>3, GetlineStream DEF Kept
      <4>2. OneCanvas(s)
        BY DEF Alone
      <4> HIDE DEF s, r
      <4> QED
        BY <1>1, <3>3, <4>1, <4>2, RestCanvas
    <3> QED
      BY <3>1, <3>2, <3>3
  <2>2. CASE Online(c)' => Online(c)
    <3>1. OneCanvas(s) /\ (Ungreeted(c)' \/ Online(c)' => NoCanvas(s))
      BY <1>2, <2>2 DEF Alone
    <3>2. ASSUME NEW token \in Tokens, r = Append(s, token),
                 token.kind = "cells" => spc[c] = "serialize" /\ spc'[c] = "nl"
          PROVE  OneCanvas(r) /\ (Ungreeted(c)' \/ Online(c)' => NoCanvas(r))
      <4>1. CASE token.kind # "cells"
        <5> HIDE DEF s, r
        <5>1. /\ OneCanvas(Append(s, token))
              /\ NoCanvas(s) => NoCanvas(Append(s, token))
          BY <1>1, <3>1, <4>1, AppendCanvas
        <5> QED
          BY <3>1, <3>2, <5>1
      <4>2. CASE token.kind = "cells"
        <5>1. Ungreeted(c) /\ ~Ungreeted(c)'
          BY <3>2, <4>2 DEF Ungreeted
        <5>2. ~Online(c)' /\ NoCanvas(s)
          BY <2>2, <5>1 DEF Alone
        <5> QED
          BY <1>1, <3>2, <5>1, <5>2, AppendCanvas
      <4> QED
        BY <4>1, <4>2
    <3>3. ASSUME HasLine(c), Getline(c)
          PROVE  OneCanvas(r) /\ (Ungreeted(c)' \/ Online(c)' => NoCanvas(r))
      <4>1. \E n \in 1 .. Len(s) : r = Rest(s, n)
        BY <3>3, GetlineStream DEF Kept
      <4> HIDE DEF s, r
      <4> QED
        BY <1>1, <3>1, <4>1, RestCanvas
    <3> QED
      BY <1>4, <3>1, <3>2, <3>3, StreamMoves
  <2> QED
    BY <2>1, <2>2
<1> QED
  BY <1>2, <1>3, <1>5 DEF Alone

AInv == Kept /\ \A c \in Clients : Alone(c)

LEMMA AloneInit == Init => AInv
<1> SUFFICES ASSUME Init, NEW c \in Clients PROVE Alone(c)
  BY KeptInit DEF AInv
<1>1. Stream(c) = <<>> \o <<>>
  BY DEF Init, Stream
<1>2. Stream(c) = <<>>
  BY <1>1, EmptySeq, ConcatEmptySeq
<1>3. NoCanvas(<<>>) /\ OneCanvas(<<>>)
  BY EmptySeq DEF NoCanvas, OneCanvas
<1>4. Online(c) => ~Ungreeted(c)
  BY DEF Init, Online, Networked, Ungreeted
<1> QED
  BY <1>2, <1>3, <1>4 DEF Alone

LEMMA AloneKept == AInv /\ [Next]_vars => AInv'
<1> SUFFICES ASSUME AInv, [Next]_vars, NEW c \in Clients PROVE Alone(c)'
  BY KeptStep DEF AInv
<1>1. CASE Next
  BY <1>1, AloneStep DEF AInv
<1>2. CASE UNCHANGED vars
  BY <1>2 DEF AInv, Alone, vars, bufVars, Stream, Online, Networked, Ungreeted
<1> QED
  BY <1>1, <1>2

LEMMA SessionAlone == Spec => []AInv
BY AloneInit, AloneKept, PTL DEF Spec

(* net_handler() takes one line from what a client that stays in has yet to *)
(* read, and if it is an update shows it.                                   *)
LEMMA OneLineRead ==
  ASSUME AInv, NEW c \in Clients, Receive(c), Online(c), Online(c)'
  PROVE  /\ 1 \in DOMAIN Stream(c) /\ Stream(c)' = Rest(Stream(c), 1)
         /\ Stream(c)[1] \in Tokens
         /\ \A x \in Cells, v \in Values :
              Stream(c)[1] = Update(x, v) => local' = [local EXCEPT ![c][x] = v]
<1>1. HasLine(c) /\ Getline(c) /\ NetHandler(c, Line(c)) /\ Kept
  BY DEF Receive, AInv
<1>2. Line(c) = Stream(c)[1] /\ 1 \in DOMAIN Stream(c) /\ Line(c) \in Tokens
  BY <1>1, GetlineStream DEF Kept
<1>3. Line(c).kind # "cells"
  BY <1>2 DEF AInv, Alone, NoCanvas
<1>4. PICK n \in 1 .. Len(Stream(c)) :
             /\ Stream(c)' = Rest(Stream(c), n)
             /\ \A i \in 1 .. n - 1 : ~EndsLine(Stream(c)[i])
  BY <1>1, GetlineStream DEF Kept
<1>5. n = 1
  BY <1>1, <1>2, <1>3, <1>4, StreamSeq, LenProperties DEF EndsLine, Kept
<1>6. ASSUME NEW x \in Cells, NEW v \in Values, Line(c) = Update(x, v)
      PROVE  local' = [local EXCEPT ![c][x] = v]
  <2>1. SetCell(c, Line(c))
    BY <1>1, <1>6 DEF NetHandler, Update
  <2>2. PICK y \in Cells, w \in Values :
          Line(c) = Update(y, w) /\ local' = [local EXCEPT ![c][y] = w]
    BY <1>1, <1>2, <2>1, CellSet
  <2>3. x = y /\ v = w
    <3>1. Update(x, v) = Update(y, w)
      BY <1>6, <2>2
    <3>2. \A k, u : DOMAIN Update(k, u).cells = {k} /\ Update(k, u).cells[k] = u
      BY DEF Update
    <3>3. DOMAIN Update(x, v).cells = {x} /\ DOMAIN Update(y, w).cells = {y}
          /\ Update(x, v).cells[x] = v /\ Update(y, w).cells[y] = w
      BY <3>2
    <3> QED
      BY <3>1, <3>3
  <2> QED
    BY <2>2, <2>3
<1> QED
  BY <1>2, <1>4, <1>5, <1>6

(* An update that has reached a client stays ahead of it, in its socket or  *)
(* its stdio buffer, until it is shown, though select() looks at one of the *)
(* two only and getline() takes more than it returns.                       *)
THEOREM SessionKeepsLines == Spec => NoLineLost
<1> DEFINE Kept1 == \A c \in Clients, k \in SingleAuthor, v \in Values :
                      Online(c) /\ Held(c, Update(k, v)) /\ Online(c)'
                        => Held(c, Update(k, v))' \/ local'[c][k] = v
<1>1. AInv /\ [Next]_vars => Kept1
  <2> SUFFICES ASSUME AInv, [Next]_vars, NEW c \in Clients, NEW k \in SingleAuthor,
                      NEW v \in Values, Online(c), Held(c, Update(k, v)), Online(c)'
               PROVE  Held(c, Update(k, v))' \/ local'[c][k] = v
    OBVIOUS
  <2>0. Kept
    BY DEF AInv
  <2> DEFINE s == Stream(c)
             u == Update(k, v)
  <2>1. PICK i \in DOMAIN s : s[i] = u
    BY DEF Held, Stream
  <2>2. s \in Seq(Tokens)
    BY <2>0, StreamSeq DEF Kept
  <2>3. (\E j \in DOMAIN s' : s'[j] = u) => Held(c, u)'
    BY DEF Held, Stream
  <2>9. k \in Cells
    BY DEF SingleAuthor
  <2> HIDE DEF s
  <2>4. CASE s' = s
    BY <2>1, <2>3, <2>4
  <2>5. CASE \E token \in Tokens : s' = Append(s, token)
    <3>1. PICK token \in Tokens : s' = Append(s, token)
      BY <2>5
    <3>2. i \in DOMAIN s' /\ s'[i] = s[i]
      BY <2>1, <2>2, <3>1, AppendProperties, LenProperties
    <3> QED
      BY <2>1, <2>3, <3>2
  <2>6. CASE Receive(c)
    <3>1. /\ s' = Rest(s, 1)
          /\ s[1] = Update(k, v) => local' = [local EXCEPT ![c][k] = v]
      BY <2>6, <2>9, OneLineRead DEF s
    <3>2. CASE i = 1
      BY <2>0, <2>1, <2>9, <3>1, <3>2 DEF Kept, TypeOK, Canvases
    <3>3. CASE i # 1
      <4>1. i - 1 \in DOMAIN Rest(s, 1) /\ Rest(s, 1)[i - 1] = s[i]
        <5>1. i \in 1 .. Len(s) /\ Len(s) \in Nat
          BY <2>1, <2>2, LenProperties
        <5>2. 1 \in 0 .. Len(s) /\ i > 1
          BY <3>3, <5>1
        <5>3. /\ DOMAIN Rest(s, 1) = 1 .. Len(s) - 1
              /\ \A j \in 1 .. Len(s) : j > 1 => Rest(s, 1)[j - 1] = s[j]
          BY <2>2, <5>2, RestIndex
        <5> QED
          BY <5>1, <5>2, <5>3
      <4> QED
        BY <2>1, <2>3, <3>1, <4>1
    <3> QED
      BY <3>2, <3>3
  <2>7. CASE UNCHANGED vars
    BY <2>4, <2>7 DEF vars, s, Stream
  <2>8. ASSUME ReadVok(c) \/ ReadSize(c) \/ ReadCanvas(c) \/ Leave(c) \/ HandshakeEnds(c)
        PROVE  FALSE
    BY <2>0, <2>8 DEF ReadVok, ReadSize, Expect, ReadCanvas, Leave, HandshakeEnds, CGoto,
                      Online, Networked, Kept, TypeOK
  <2>10. ASSUME ReceiveEnd(c) PROVE FALSE
    <3>1. LineEnds(Visible(c)) = {}
      BY <2>10 DEF ReceiveEnd, HasLine
    <3>2. Visible(c) = s
      BY <3>1 DEF Visible, s, Stream
    <3>3. EndsLine(s[i])
      BY <2>1 DEF EndsLine, Update
    <3> QED
      BY <2>1, <3>1, <3>2, <3>3 DEF LineEnds
  <2> QED
    BY <2>0, <2>4, <2>5, <2>6, <2>7, <2>8, <2>10, StreamMoves DEF s
<1>2. Spec => [][Kept1]_vars
  BY <1>1, SessionAlone, PTL DEF Spec
<1> QED
  BY <1>2 DEF NoLineLost
=============================================================================
