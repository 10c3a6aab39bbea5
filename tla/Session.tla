------------------------------- MODULE Session ------------------------------
(***************************************************************************)
(* A shared drawing session: the handle_client() threads of                *)
(* src/src/server.c as writers of the master canvas, the clients of        *)
(* src/src/network.c and the select() loop of src/src/frontend.c, and one  *)
(* TCP stream in each direction between them.  Server.tla has the threads' *)
(* life cycle; here it is what they write, and in which order.             *)
(*                                                                         *)
(* The n-th edit of a behaviour stores the value n, which stands for the   *)
(* character typed; 0 is what the master canvas holds at first.  A write() *)
(* is one token of a stream; a getline() takes the tokens up to the first  *)
(* that ends in a newline.                                                 *)
(*                                                                         *)
(* The server may end, by SIGINT with a "q" to all or by a failed write    *)
(* without one, and the sockets hold a bounded number of tokens.           *)
(***************************************************************************)
EXTENDS Naturals, FiniteSets, Sequences

CONSTANTS
  Clients,    \* the clients of the session
  Cells,      \* the cells of the canvas
  Writes,     \* the cells each client's user draws in
  Early,      \* the clients that have joined before the behaviour starts
  MaxEdits,   \* bound: the edits of a behaviour
  MaxRead,    \* bound: the commands that one read() of the server returns together
  UpCap,      \* the commands a socket holds on the way to the server
  DownCap,    \* the tokens it holds on the way to a client that is not reading
  Interrupts, \* whether SIGINT may reach the server
  Resizes,    \* the clients whose terminal may change its size
  None

(* The signal handler, finish(), as a holder of the mutex *)
Handler == "handler"

ASSUME SessionAssumption ==
  /\ Writes \in [Clients -> SUBSET Cells]
  /\ Early \subseteq Clients
  /\ MaxEdits \in Nat
  /\ MaxRead \in Nat \ {0}
  /\ UpCap \in Nat \ {0} /\ DownCap \in Nat \ {0}
  /\ Interrupts \in BOOLEAN
  /\ Resizes \subseteq Clients
  /\ Handler \notin Clients /\ None \notin Clients \cup {Handler}
  /\ \A cells \in SUBSET Cells : None \notin [cells -> Nat]

VARIABLES
  canvas,      \* the master copy
  canvasBuf,   \* canvas_buf, which all threads serialize into
  left,        \* the cells that each thread has yet to copy there
  held,        \* the cell it has read and not yet written there, as an update
  clobbered,   \* history: cells of the buffer put back under a thread that had copied them
  registered,  \* the clients in clients[]
  mutex,       \* whose thread holds clients_mutex, Handler or None
  todo,        \* the clients that the write loop in progress has yet to reach
  spc,         \* where the thread of each client stands
  pending,     \* buff_out: the update each thread is about to pass on
  up, down,    \* the streams: commands to the server, tokens to the client
  cpc,         \* where each client stands
  inbuf,       \* what its stdio stream has taken from the socket, not yet read
  msgBuf,      \* msg_buf: the last line it read, as far as it can be parsed again
  local,       \* each client's own canvas
  garbled,     \* history: clients that have loaded or set something that was not sent
  edits,       \* the number of edits so far
  missed,      \* history: clients that a broken-off write loop left out
  serverUp     \* the server process runs

vars == <<canvas, canvasBuf, left, held, clobbered, registered, mutex, todo, spc,
          pending, up, down, cpc, inbuf, msgBuf, local, garbled, edits, missed, serverUp>>

Update(k, v) == [kind |-> "s", cells |-> [x \in {k} |-> v]]
Whole(cells) == [kind |-> "cells", cells |-> cells]
Plain(kind) == [kind |-> kind, cells |-> <<>>]

Values == 0 .. MaxEdits
Canvases == [Cells -> Values]
Updates == {Update(k, v) : k \in Cells, v \in Values}
Tokens == {Plain(kind) : kind \in {"vok", "cs", "nl", "q"}} \cup Updates
            \cup {Whole(cells) : cells \in Canvases}

(* What msg_buf may hold: nothing yet, a line as it came (of the canvas, its *)
(* kind only), or what strtok() leaves of a line: "s" alone, another word.  *)
Lines == {Plain(kind) : kind \in {"none", "vok", "cs", "nl", "q", "cells", "cut", "word"}}
           \cup Updates

(* Its socket is closed: there is no client, or one that goes on without. *)
Closed(c) == cpc[c] \in {"absent", "dead", "offline"}

(* It is in the loop of main() and networked: in select() or a handler, in  *)
(* the getline() of net_handler(), or in the write() of net_send_char().    *)
Networked(c) == cpc[c] \in {"online", "reading", "writing"}

(* ... and its canvas is the one it was sent, and what was set since.       *)
(* (Of a garbled client, local has what its user or an update has set.)     *)
Online(c) == Networked(c) /\ c \notin garbled

TypeOK ==
  /\ canvas \in Canvases /\ canvasBuf \in Canvases
  /\ left \in [Clients -> SUBSET Cells]
  /\ held \in [Clients -> Updates \cup {Plain("none")}]
  /\ clobbered \subseteq Clients \X Cells
  /\ registered \subseteq Clients
  /\ mutex \in Clients \cup {Handler, None}
  /\ todo \subseteq registered \ {mutex}
  /\ spc \in [Clients -> {"absent", "vok", "cs", "serialize", "nl", "serve",
                          "lock", "send", "gone"}]
  /\ \A c \in Clients : pending[c] \in Updates \cup {Plain("none")}
  /\ \A c \in Clients : \A i \in DOMAIN up[c] : up[c][i] \in Updates
  /\ \A c \in Clients : \A i \in DOMAIN down[c] : down[c][i] \in Tokens
  /\ cpc \in [Clients -> {"absent", "await_vok", "await_cs", "await_canvas",
                          "online", "reading", "writing", "offline", "dead"}]
  /\ \A c \in Clients : \A i \in DOMAIN inbuf[c] : inbuf[c][i] \in Tokens
  /\ msgBuf \in [Clients -> Lines]
  /\ local \in [Clients -> Canvases]
  /\ garbled \subseteq Clients
  /\ edits \in Values
  /\ missed \subseteq Clients
  /\ serverUp \in BOOLEAN

Init ==
  /\ canvas = [k \in Cells |-> 0]
  /\ canvasBuf = canvas
  /\ left = [c \in Clients |-> IF c \in Early THEN {} ELSE Cells]
  /\ held = [c \in Clients |-> Plain("none")]
  /\ clobbered = {}
  /\ registered = Early
  /\ mutex = None
  /\ todo = {}
  /\ spc = [c \in Clients |-> IF c \in Early THEN "serve" ELSE "absent"]
  /\ pending = [c \in Clients |-> Plain("none")]
  /\ up = [c \in Clients |-> <<>>]
  /\ down = [c \in Clients |-> <<>>]
  /\ cpc = [c \in Clients |-> IF c \in Early THEN "online" ELSE "absent"]
  /\ inbuf = [c \in Clients |-> <<>>]
  /\ msgBuf = [c \in Clients |-> IF c \in Early THEN Plain("cells") ELSE Plain("none")]
  /\ local = [c \in Clients |-> canvas]
  /\ garbled = {}
  /\ edits = 0
  /\ missed = {}
  /\ serverUp = TRUE

-----------------------------------------------------------------------------
(* The server: main() and handle_client(). *)

bufVars == <<canvasBuf, left, held, clobbered>>
sendVars == <<registered, mutex, todo>>
clientVars == <<cpc, inbuf, msgBuf, local, garbled, edits>>

SAt(c, label) == serverUp /\ spc[c] = label
SGoto(c, label) == spc' = [spc EXCEPT ![c] = label]

(* connect() and accept(); queue_add() comes before the thread that greets. *)
Join(c) ==
  /\ SAt(c, "absent")
  /\ mutex = None
  /\ registered' = registered \cup {c}
  /\ SGoto(c, "vok")
  /\ cpc' = [cpc EXCEPT ![c] = "await_vok"]
  /\ UNCHANGED <<canvas, bufVars, mutex, todo, pending, up, down, inbuf, msgBuf,
                 local, garbled, edits, missed, serverUp>>

(* A client in getline() takes what comes; another lets its socket fill. *)
Full(c) == Len(down[c]) >= DownCap /\ cpc[c] \in {"online", "writing"}

(* write() on the socket of c: on a closed one it is lost, or it fails. *)
Deliver(c, token) ==
  /\ ~Full(c)
  /\ down' = IF Closed(c) THEN down ELSE [down EXCEPT ![c] = Append(@, token)]

(* exit(): what is on the way to the server is lost. *)
ServerEnds == serverUp' = FALSE /\ up' = [c \in Clients |-> <<>>]

(* send_message_self(), which exits when the write fails *)
WriteSelf(c, from, token, to) ==
  /\ SAt(c, from)
  /\ \/ Deliver(c, token) /\ SGoto(c, to) /\ UNCHANGED <<up, serverUp>>
     \/ Closed(c) /\ ServerEnds /\ UNCHANGED <<down, spc>>
  /\ UNCHANGED <<canvas, bufVars, sendVars, pending, clientVars, missed>>

SendVok(c) == WriteSelf(c, "vok", Plain("vok"), "cs")
SendSize(c) == WriteSelf(c, "cs", Plain("cs"), "serialize")

(* canvas_serialize() copies cell by cell, with no lock on the canvas or on  *)
(* the buffer: a cell is read, and written some time later, when another    *)
(* thread may have set it, or copied it too.  (What racing threads see of   *)
(* the loop has no order: left is a set.)                                   *)
LoadCell(c, k) ==
  /\ SAt(c, "serialize")
  /\ held[c] = Plain("none")
  /\ k \in left[c]
  /\ left' = [left EXCEPT ![c] = @ \ {k}]
  /\ held' = [held EXCEPT ![c] = Update(k, canvas[k])]
  /\ UNCHANGED <<canvas, canvasBuf, clobbered, sendVars, spc, pending, up, down,
                 clientVars, missed, serverUp>>

(* The threads that have copied cell k and have yet to send the buffer *)
Copied(k) ==
  {d \in Clients : SAt(d, "serialize") /\ k \notin left[d] /\ k \notin DOMAIN held[d].cells}

(* Mutated: the buffer keeps what was serialized last. *)
MutStoreCell(c) ==
  /\ SAt(c, "serialize")
  /\ held[c] # Plain("none")
  /\ held' = [held EXCEPT ![c] = Plain("none")]
  /\ UNCHANGED <<canvas, canvasBuf, left, clobbered, sendVars, spc, pending, up, down,
                 clientVars, missed, serverUp>>

StoreCell(c) ==
  /\ SAt(c, "serialize")
  /\ held[c] # Plain("none")
  /\ \E k \in DOMAIN held[c].cells :
       /\ canvasBuf' = [canvasBuf EXCEPT ![k] = held[c].cells[k]]
       /\ clobbered' = IF held[c].cells[k] < canvasBuf[k]
                       THEN clobbered \cup (Copied(k) \X {k}) ELSE clobbered
  /\ held' = [held EXCEPT ![c] = Plain("none")]
  /\ UNCHANGED <<canvas, left, sendVars, spc, pending, up, down, clientVars, missed,
                 serverUp>>

(* The canvas and the newline that ends it are two writes. *)
SendCells(c) ==
  /\ left[c] = {} /\ held[c] = Plain("none")
  /\ WriteSelf(c, "serialize", Whole(canvasBuf), "nl")
(* Mutated: the canvas is not ended with a newline. *)
MutSendNewline(c) == WriteSelf(c, "nl", Whole(canvasBuf), "serve")
SendNewline(c) == WriteSelf(c, "nl", Plain("nl"), "serve")

(* Mutated: the update is passed on but not stored. *)
MutReadSet(c) ==
  /\ SAt(c, "serve")
  /\ up[c] # <<>>
  /\ up' = [up EXCEPT ![c] = Tail(@)]
  /\ pending' = [pending EXCEPT ![c] = up[c][1]]
  /\ SGoto(c, "lock")
  /\ UNCHANGED <<canvas, bufVars, sendVars, down, clientVars, missed, serverUp>>

(* One read() may return several commands; strip_newline() cuts the buffer  *)
(* at the first newline, and the commands behind it are never looked at.    *)
ReadSet(c) ==
  /\ SAt(c, "serve")
  /\ \E n \in 1 .. MaxRead :
       /\ n <= Len(up[c])
       /\ up' = [up EXCEPT ![c] = SubSeq(@, n + 1, Len(@))]
  /\ LET update == up[c][1] IN
     /\ canvas' = [k \in Cells |-> IF k \in DOMAIN update.cells
                                   THEN update.cells[k] ELSE canvas[k]]
     /\ pending' = [pending EXCEPT ![c] = update]
  /\ SGoto(c, "lock")
  /\ UNCHANGED <<bufVars, sendVars, down, clientVars, missed, serverUp>>

(* Mutated: the sender gets its own update back. *)
MutRecipients(c) == registered

(* send_message(): everyone in the table but the sender *)
Recipients(c) == registered \ {c}

SendLock(c) ==
  /\ SAt(c, "lock")
  /\ mutex = None
  /\ mutex' = c
  /\ todo' = Recipients(c)
  /\ SGoto(c, "send")
  /\ UNCHANGED <<canvas, bufVars, registered, pending, up, down, clientVars, missed, serverUp>>

(* One write of a loop over the table: it fails on closed sockets, and then  *)
(* the loop breaks off.                                                     *)
LoopWrite(d, token) ==
  /\ d \in todo
  /\ \/ Deliver(d, token) /\ todo' = todo \ {d} /\ UNCHANGED missed
     \/ /\ Closed(d)
        /\ todo' = {}
        /\ missed' = missed \cup {e \in todo : ~Closed(e)}
        /\ UNCHANGED down
  /\ UNCHANGED <<canvas, bufVars, registered, mutex, spc, pending, up, clientVars, serverUp>>

SendTo(c, d) == SAt(c, "send") /\ LoopWrite(d, pending[c])

(* Mutated: send_message() returns without unlocking. *)
MutSendUnlock(c) ==
  /\ SAt(c, "send")
  /\ todo = {}
  /\ pending' = [pending EXCEPT ![c] = Plain("none")]
  /\ SGoto(c, "serve")
  /\ UNCHANGED <<canvas, bufVars, sendVars, up, down, clientVars, missed, serverUp>>

SendUnlock(c) ==
  /\ SAt(c, "send")
  /\ todo = {}
  /\ mutex' = None
  /\ pending' = [pending EXCEPT ![c] = Plain("none")]
  /\ SGoto(c, "serve")
  /\ UNCHANGED <<canvas, bufVars, registered, todo, up, down, clientVars, missed, serverUp>>

(* read() returns 0 once the commands of a closed client have been read. *)
EndThread(c) ==
  /\ SAt(c, "serve")
  /\ Closed(c) /\ up[c] = <<>>
  /\ mutex = None
  /\ registered' = registered \ {c}
  /\ SGoto(c, "gone")
  /\ UNCHANGED <<canvas, bufVars, mutex, todo, pending, up, down, clientVars, missed, serverUp>>

(* finish(), where it gets the mutex: broadcast_message("q\n"), then exit(). *)
(* (Server has the thread that the signal interrupts; here all may go on.)  *)
Interrupt ==
  /\ Interrupts /\ serverUp
  /\ mutex = None
  /\ mutex' = Handler
  /\ todo' = registered
  /\ UNCHANGED <<canvas, bufVars, registered, spc, pending, up, down, clientVars, missed, serverUp>>

FinishTo(d) == serverUp /\ mutex = Handler /\ LoopWrite(d, Plain("q"))

Exit ==
  /\ serverUp
  /\ mutex = Handler /\ todo = {}
  /\ ServerEnds
  /\ UNCHANGED <<canvas, bufVars, sendVars, spc, pending, down, clientVars, missed>>

-----------------------------------------------------------------------------
(* The client: net_init(), net_handler(), net_send_char() and the loop of main(). *)

serverVars == <<canvas, bufVars, registered, mutex, todo, spc, pending, missed, serverUp>>

CGoto(c, label) == cpc' = [cpc EXCEPT ![c] = label]

EndsLine(token) == token.kind # "cells"
LineEnds(s) == {i \in DOMAIN s : EndsLine(s[i])}

(* Mutated: it empties the socket first, each time. *)
MutVisible(c) == inbuf[c] \o down[c]

(* What getline() can see: it reads from the socket, and takes all that has *)
(* arrived, only when the stream's own buffer has no whole line left.       *)
Visible(c) == IF LineEnds(inbuf[c]) # {} THEN inbuf[c] ELSE inbuf[c] \o down[c]
HasLine(c) == LineEnds(Visible(c)) # {}

(* Mutated: what has arrived behind the line is dropped. *)
MutGetline(c) ==
  /\ inbuf' = [inbuf EXCEPT ![c] = <<>>]
  /\ down' = [down EXCEPT ![c] = <<>>]

Getline(c) ==
  LET n == CHOOSE i \in LineEnds(Visible(c)) :
             \A j \in LineEnds(Visible(c)) : i <= j
  IN /\ inbuf' = [inbuf EXCEPT ![c] = SubSeq(Visible(c), n + 1, Len(Visible(c)))]
     /\ down' = IF LineEnds(inbuf[c]) # {} THEN down ELSE [down EXCEPT ![c] = <<>>]

(* The kind and content of a line are those of the token it begins with. *)
Line(c) == Visible(c)[1]

(* One line of the handshake; anything but "vok" or "cs" makes net_init()    *)
(* exit.                                                                    *)
Expect(c, at, kind, then) ==
  /\ cpc[c] = at
  /\ HasLine(c)
  /\ Getline(c)
  /\ CGoto(c, IF Line(c).kind = kind THEN then ELSE "dead")
  /\ UNCHANGED <<serverVars, up, msgBuf, local, garbled, edits>>

ReadVok(c) == Expect(c, "await_vok", "vok", "await_cs")
ReadSize(c) == Expect(c, "await_cs", "cs", "await_canvas")

(* canvas_deserialize() loads whatever the third line is. *)
Deserialize(c, line) ==
  /\ CGoto(c, "online")
  /\ IF line.kind = "cells"
     THEN /\ local' = [local EXCEPT ![c] = line.cells]
          /\ msgBuf' = [msgBuf EXCEPT ![c] = Plain("cells")]
          /\ UNCHANGED garbled
     ELSE /\ msgBuf' = [msgBuf EXCEPT ![c] = line]
          /\ garbled' = garbled \cup {c}
          /\ UNCHANGED local

ReadCanvas(c) ==
  /\ cpc[c] = "await_canvas"
  /\ HasLine(c)
  /\ Getline(c)
  /\ Deserialize(c, Line(c))
  /\ UNCHANGED <<serverVars, up, edits>>

(* The streams of c are closed, or the server has ended and c has read all.  *)
Drain(c) == inbuf' = [inbuf EXCEPT ![c] = <<>>] /\ down' = [down EXCEPT ![c] = <<>>]

(* The server has ended without a whole line: getline() returns the canvas   *)
(* without its newline, or fails and leaves the line before in msg_buf.     *)
LastLine(c, before) == IF Visible(c) = <<>> THEN before ELSE Line(c)

HandshakeEnds(c) ==
  /\ ~serverUp /\ ~HasLine(c)
  /\ \/ /\ cpc[c] \in {"await_vok", "await_cs"}
        /\ CGoto(c, "dead")
        /\ UNCHANGED <<msgBuf, local, garbled>>
     \/ /\ cpc[c] = "await_canvas"
        /\ Deserialize(c, LastLine(c, Plain("cs")))
  /\ Drain(c)
  /\ UNCHANGED <<serverVars, up, edits>>

(* select() looks at the socket, not at the stream's buffer; the end of the  *)
(* server makes the socket readable for good.                               *)
Selected(c) ==
  \/ cpc[c] = "reading"
  \/ cpc[c] = "online" /\ (down[c] # <<>> \/ ~serverUp)

SetCell(c, line) ==
  /\ line.kind = "s"
  /\ CGoto(c, "online")
  /\ local' = [local EXCEPT ![c] =
       [k \in Cells |-> IF k \in DOMAIN line.cells THEN line.cells[k] ELSE @[k]]]
  /\ msgBuf' = [msgBuf EXCEPT ![c] = Plain("cut")]
  /\ UNCHANGED garbled

(* Mutated: "q" is read like an unknown command. *)
MutNetHandler(c, line) ==
  \/ SetCell(c, line)
  \/ /\ line.kind \in {"vok", "cs", "q", "word", "cells"}
     /\ CGoto(c, "online")
     /\ msgBuf' = [msgBuf EXCEPT ![c] = Plain("word")]
     /\ UNCHANGED <<local, garbled>>
  \/ /\ line.kind \in {"nl", "cut", "cells"}
     /\ CGoto(c, "dead")
     /\ UNCHANGED <<msgBuf, local, garbled>>

(* net_handler() goes by the first word of the line: "s", any other, "q"     *)
(* (which closes the socket, and the editor goes on alone), or none, which  *)
(* gives strcmp() a NULL; so does an "s" cut from its numbers to atoi().    *)
(* The first word of a canvas may be each of these.  If it is "s", some     *)
(* cell is set, or the place of that cell fails an assertion.               *)
NetHandler(c, line) ==
  \/ SetCell(c, line)
  \/ /\ line.kind \in {"vok", "cs", "word", "cells"}
     /\ CGoto(c, "online")
     /\ msgBuf' = [msgBuf EXCEPT ![c] = Plain("word")]
     /\ UNCHANGED <<local, garbled>>
  \/ /\ line.kind \in {"q", "cells"}
     /\ CGoto(c, "offline")
     /\ UNCHANGED <<msgBuf, local, garbled>>
  \/ /\ line.kind \in {"nl", "cut", "cells"}
     /\ CGoto(c, "dead")
     /\ UNCHANGED <<msgBuf, local, garbled>>
  \/ /\ line.kind = "cells"
     /\ CGoto(c, "online")
     /\ msgBuf' = [msgBuf EXCEPT ![c] = Plain("cut")]
     /\ garbled' = garbled \cup {c}
     /\ UNCHANGED local

Receive(c) ==
  /\ Selected(c)
  /\ HasLine(c)
  /\ Getline(c)
  /\ NetHandler(c, Line(c))
  /\ UNCHANGED <<serverVars, up, edits>>

(* A line has begun to arrive: getline() waits for the rest. *)
AwaitRest(c) ==
  /\ serverUp
  /\ cpc[c] = "online" /\ Selected(c)
  /\ ~HasLine(c)
  /\ CGoto(c, "reading")
  /\ UNCHANGED <<serverVars, up, down, inbuf, msgBuf, local, garbled, edits>>

(* The server has ended: net_handler() parses a canvas without its newline,  *)
(* or the old line, again and again.                                        *)
ReceiveEnd(c) ==
  /\ ~serverUp
  /\ Selected(c)
  /\ ~HasLine(c)
  /\ NetHandler(c, LastLine(c, msgBuf[c]))
  /\ Drain(c)
  /\ UNCHANGED <<serverVars, up, edits>>

(* A signal for the new size ends select() early, with its set of           *)
(* descriptors as it was: full.  net_handler() is called on a silent socket. *)
ResizeTerminal(c) ==
  /\ c \in Resizes
  /\ cpc[c] = "online"
  /\ CGoto(c, "reading")
  /\ UNCHANGED <<serverVars, up, down, inbuf, msgBuf, local, garbled, edits>>

(* front_setcharcursor(): the own canvas first, then the server.  A full     *)
(* socket keeps the client in write(): its last command is not out yet.     *)
(* When the server has ended the first write is lost, and the next kills.   *)
Edit(c, k) ==
  /\ cpc[c] \in {"online", "offline"}
  /\ edits < MaxEdits
  /\ edits' = edits + 1
  /\ local' = [local EXCEPT ![c][k] = edits']
  /\ IF cpc[c] = "online" /\ serverUp
     THEN /\ up' = [up EXCEPT ![c] = Append(@, Update(k, edits'))]
          /\ IF Len(up[c]) < UpCap THEN UNCHANGED cpc ELSE CGoto(c, "writing")
     ELSE /\ UNCHANGED up
          /\ \/ UNCHANGED cpc
             \/ cpc[c] = "online" /\ CGoto(c, "writing")
  /\ UNCHANGED <<serverVars, down, inbuf, msgBuf, garbled>>

(* write() returns, or its process is killed when the server has ended. *)
Written(c) ==
  /\ cpc[c] = "writing"
  /\ IF serverUp THEN Len(up[c]) <= UpCap /\ CGoto(c, "online") ELSE CGoto(c, "dead")
  /\ UNCHANGED <<serverVars, up, down, inbuf, msgBuf, local, garbled, edits>>

(* The user quits, or the client crashes: the kernel closes its socket. *)
Leave(c) ==
  /\ cpc[c] \notin {"absent", "dead"}
  /\ CGoto(c, "dead")
  /\ Drain(c)
  /\ UNCHANGED <<serverVars, up, msgBuf, local, garbled, edits>>

-----------------------------------------------------------------------------
Halt ==
  /\ ~serverUp \/ \A c \in Clients : spc[c] = "gone"
  /\ UNCHANGED vars

ThreadStep(c) ==
  \/ SendVok(c) \/ SendSize(c)
  \/ (\E k \in Cells : LoadCell(c, k)) \/ StoreCell(c) \/ SendCells(c) \/ SendNewline(c)
  \/ ReadSet(c) \/ SendLock(c) \/ (\E d \in Clients : SendTo(c, d)) \/ SendUnlock(c)
  \/ EndThread(c)

HandlerStep == (\E d \in Clients : FinishTo(d)) \/ Exit

ClientRead(c) ==
  \/ ReadVok(c) \/ ReadSize(c) \/ ReadCanvas(c) \/ HandshakeEnds(c)
  \/ Receive(c) \/ AwaitRest(c) \/ ReceiveEnd(c) \/ Written(c)

Next ==
  \/ \E c \in Clients : \/ Join(c) \/ ThreadStep(c) \/ ClientRead(c) \/ Leave(c)
                        \/ ResizeTerminal(c) \/ \E k \in Writes[c] : Edit(c, k)
  \/ Interrupt \/ HandlerStep
  \/ Halt

Spec == Init /\ [][Next]_vars

(* Threads, the handler and clients that can go on do; users owe nothing.   *)
FairSpec == /\ Spec
            /\ WF_vars(HandlerStep)
            /\ \A c \in Clients : WF_vars(ThreadStep(c)) /\ WF_vars(ClientRead(c))

-----------------------------------------------------------------------------
(* Properties *)

SingleAuthor ==
  {k \in Cells : \A c, d \in Clients : k \in Writes[c] /\ k \in Writes[d] => c = d}

AtRest == /\ \A c \in Clients : /\ spc[c] \in {"absent", "serve", "gone"} /\ up[c] = <<>>
                                /\ Closed(c) \/ (down[c] = <<>> /\ inbuf[c] = <<>>)
          /\ serverUp

(* Where each cell has one author, joins, departures and edits in any order *)
(* leave every client with the master's picture once all streams are empty, *)
(* unless it loaded another line as the canvas, a write to a dead client    *)
(* cut a broadcast short, or, while its thread was still copying the        *)
(* canvas, another thread put an older cell back into the buffer they share *)
(* (no other overlap of two joins and an edit does harm).                   *)
ConvergedAtRest ==
  AtRest => \A c \in Clients : Online(c) /\ c \notin missed =>
              \A k \in SingleAuthor : <<c, k>> \notin clobbered =>
                local[c][k] = canvas[k]

(* No client ever sees a cell of a single author fall back to an earlier    *)
(* edit: not the author, whose own edits are not echoed, nor one that got   *)
(* the canvas while updates to it were on the way.                          *)
NeverRegress ==
  [][\A c \in Clients : Online(c) =>
       \A k \in SingleAuthor : local'[c][k] >= local[c][k]]_vars

(* The master is behind the author and ahead of everyone else.              *)
MasterInBetween ==
  \A k \in SingleAuthor : \A c \in Clients : Online(c) =>
    IF k \in Writes[c] THEN local[c][k] >= canvas[k] ELSE local[c][k] <= canvas[k]

(* For the cells of one author each, the threads, streams and buffers      *)
(* implement the picture of SharedPicture: one stroke at a time goes from   *)
(* the author to the master and from there to the viewers, in the order     *)
(* drawn, and a viewer comes in with a picture the master has had.          *)
Authored == {k \in SingleAuthor : \E c \in Clients : k \in Writes[c]}
AuthorOf == [k \in Authored |-> CHOOSE c \in Clients : k \in Writes[c]]
Picture == INSTANCE SharedPicture WITH
  Viewers <- Clients,
  Cells <- Authored,
  Author <- AuthorOf,
  drawn <- [k \in Authored |-> local[AuthorOf[k]][k]],
  stored <- [k \in Authored |-> canvas[k]],
  shown <- [c \in Clients |-> IF Online(c)
                             THEN [k \in {x \in Authored : AuthorOf[x] # c} |-> local[c][k]]
                             ELSE None]
ImplementsPicture == Picture!Spec

(* A client that connects does not hang in the getline() calls of           *)
(* net_init(), whether the server greets it or ends meanwhile: it gets in,  *)
(* or is turned away.                                                       *)
JoinSettles ==
  \A c \in Clients \ Early : cpc[c] \in {"await_vok", "await_cs", "await_canvas"}
                       ~> cpc[c] \notin {"await_vok", "await_cs", "await_canvas"}

(* A client that has been sent the server's "q" leaves the network loop,    *)
(* even if the line is in the stdio buffer behind others by then and the    *)
(* socket is silent, or its user is typing.                                 *)
Told(c) == \E i \in DOMAIN (inbuf[c] \o down[c]) : (inbuf[c] \o down[c])[i].kind = "q"
QuitNoticed == \A c \in Clients : Told(c) /\ Online(c) ~> ~Online(c)

(* An update that has reached a client stays in its socket or its stdio     *)
(* buffer until it is shown: none is lost between the two.                  *)
Held(c, update) == \E i \in DOMAIN (inbuf[c] \o down[c]) : (inbuf[c] \o down[c])[i] = update
NoLineLost ==
  [][\A c \in Clients, k \in SingleAuthor, v \in Values :
       Online(c) /\ Held(c, Update(k, v)) /\ Online(c)'
         => Held(c, Update(k, v))' \/ local'[c][k] = v]_vars

(* Lines that wait in the stdio buffer, where select() does not see them,   *)
(* are late and not stuck: they are read once anything follows them.        *)
LateLinesShown ==
  \A c \in Clients : Online(c) /\ inbuf[c] # <<>> /\ down[c] # <<>>
                       ~> (~Online(c) \/ inbuf[c] = <<>>)

(* While no socket is full, a thread or the handler that has the mutex      *)
(* gives it back, whoever leaves or joins during its loop, or the server    *)
(* ends: all others wait for it.                                            *)
MutexReleased == mutex # None ~> (mutex = None \/ ~serverUp)


(* report.md:160, the server "has the master copy of the canvas" and sets   *)
(* reach all clients "to preserve a consistent timeline": at rest every     *)
(* client shows the master's picture, whoever drew in a cell.               *)
MasterCopy ==
  AtRest => \A c \in Clients : Online(c) /\ c \notin missed =>
              local[c] = canvas

(* report.md:160, "The commands are sent over a TCP socket delimeted by a   *)
(* newline": at rest the edit a user made last in a cell of his own is on   *)
(* the master, however the commands were cut into reads.                    *)
EveryCommandCounts ==
  AtRest => \A c \in Clients : Online(c) =>
              \A k \in Writes[c] \cap SingleAuthor : local[c][k] = canvas[k]

(* network.c:119, "Reads incoming packets and updates canvas": what has     *)
(* reached a client's stream is shown in the end.                           *)
InputShown ==
  \A c \in Clients : inbuf[c] # <<>> /\ Online(c) ~> (inbuf[c] = <<>> \/ ~Online(c))

(* frontend.c:430, "If connected to server, check both network and keyboard *)
(* streams": a client does not wait for the server while its user types.    *)
KeysServed == \A c \in Clients : cpc[c] = "reading" ~> cpc[c] # "reading"

(* frontend.c:441, "If server disconnects" the editor goes on without it:   *)
(* no client is ended by the server's end.                                  *)
SurvivesServer ==
  [][\A c \in Clients : ~serverUp /\ Networked(c) /\ ~Leave(c) => cpc'[c] # "dead"]_vars
=============================================================================
