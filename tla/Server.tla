------------------------------- MODULE Server -------------------------------
(***************************************************************************)
(* The threads of src/src/server.c: the accept loop of main(), one         *)
(* handle_client() thread per client, and the SIGINT handler finish(),     *)
(* which share the table clients[], its mutex, the counter cli_count and   *)
(* the kernel's descriptors.  A connection c stands for the socket, for    *)
(* the client_t that main() allocates for it, for that client's uid (never *)
(* reused: uid++) and for the thread that serves it.                       *)
(***************************************************************************)
EXTENDS Integers, FiniteSets

CONSTANTS
  Conns,        \* the connections that clients open
  MaxClients,   \* MAX_CLIENTS, the length of clients[]
  FDs,          \* the descriptor numbers the process may be given
  SetRequests,  \* the <<y, x>> arguments of the "s" commands clients send
  NumRows, NumCols,   \* the size of the canvas
  MaxSets,      \* bound: the "s" commands of one connection
  SleepCovers,  \* timing: sleep(1) lasts until the new thread has counted itself
  Interrupts,   \* whether a SIGINT may arrive
  None, Main, Handler

ASSUME ServerAssumption ==
  /\ IsFiniteSet(Conns)
  /\ MaxClients \in Nat \ {0}
  /\ MaxSets \in Nat
  /\ FDs \subseteq Nat
  /\ SetRequests \subseteq Int \X Int
  /\ NumRows \in Nat /\ NumCols \in Nat
  /\ SleepCovers \in BOOLEAN /\ Interrupts \in BOOLEAN
  /\ Main # Handler /\ None \notin Conns \cup {Main, Handler}
  /\ Main \notin Conns /\ Handler \notin Conns
  /\ None \notin Nat

VARIABLES
  pc,           \* where each thread, and the handler, stands
  arriving,     \* the connection main() is admitting
  clients,      \* the table: a slot holds a client or None
  mutex,        \* who holds clients_mutex, or None
  allocated,    \* the client_t blocks that are malloc'ed and not yet freed
  cliCount,     \* cli_count
  connfd,       \* cli->connfd
  sockets,      \* the kernel's view: the connection open on each descriptor
  peerDown,     \* the connections whose remote end is gone
  loop,         \* the write loop in progress: next slot, sockets written, broken off
  sets,         \* the "s" commands each connection has sent
  sigThread,    \* the thread the handler runs on, or None
  status        \* of the process: running, exited (exit) or aborted (assert)

vars == <<pc, arriving, clients, mutex, allocated, cliCount, connfd, sockets,
          peerDown, loop, sets, sigThread, status>>

Slots == 1 .. MaxClients
Procs == Conns \cup {Main, Handler}
Registered == {clients[s] : s \in Slots} \ {None}

MainLabels == {"accept", "check", "add_lock", "add", "create", "sleep"}
ThreadLabels == {"start", "negotiate", "canvas", "serve", "send_lock", "send",
                 "close", "del_lock", "del", "free", "uncount"}
HandlerLabels == {"idle", "quit_lock", "quit", "exit"}
Labels == MainLabels \cup ThreadLabels \cup HandlerLabels
            \cup {"absent", "accepted", "done"}

(* Labels between the creation of a client's thread and its queue_delete. *)
Serving == {"start", "negotiate", "canvas", "serve", "send_lock", "send"}

(* Labels behind the close() of its socket, and of one that was turned away. *)
Closed == {"del_lock", "del", "free", "uncount", "done"}

TypeOK ==
  /\ pc \in [Procs -> Labels]
  /\ arriving \in Conns \cup {None}
  /\ clients \in [Slots -> Conns \cup {None}]
  /\ mutex \in Procs \cup {None}
  /\ allocated \subseteq Conns
  /\ cliCount \in Nat      \* it is unsigned: 0 - 1 would be UINT_MAX
  /\ connfd \in [Conns -> FDs \cup {None}]
  /\ sockets \in [FDs -> Conns \cup {None}]
  /\ peerDown \subseteq Conns
  /\ loop \in [next : Nat \ {0}, wrote : SUBSET Conns, broke : BOOLEAN]
  /\ sets \in [Conns -> 0 .. MaxSets]
  /\ sigThread \in Conns \cup {Main, None}
  /\ status \in {"running", "exited", "aborted"}

IdleLoop == [next |-> 1, wrote |-> {}, broke |-> FALSE]

Init ==
  /\ pc = [p \in Procs |-> IF p = Main THEN "accept"
                           ELSE IF p = Handler THEN "idle" ELSE "absent"]
  /\ arriving = None
  /\ clients = [s \in Slots |-> None]
  /\ mutex = None
  /\ allocated = {}
  /\ cliCount = 0
  /\ connfd = [c \in Conns |-> None]
  /\ sockets = [f \in FDs |-> None]
  /\ peerDown = {}
  /\ loop = IdleLoop
  /\ sets = [c \in Conns |-> 0]
  /\ sigThread = None
  /\ status = "running"

-----------------------------------------------------------------------------
(* Control.  The handler borrows the thread it interrupts, which stands    *)
(* still from then on: finish() ends in exit() and never returns.          *)

At(p, label) == /\ status = "running"
                /\ sigThread # p
                /\ pc[p] = label

Goto(p, label) == pc' = [pc EXCEPT ![p] = label]

(* pthread_mutex_lock on a default mutex: it waits for any holder, itself included. *)
Lock(p, from, to) == /\ At(p, from)
                     /\ mutex = None
                     /\ mutex' = p
                     /\ Goto(p, to)

(* write() to a client's own socket through send_message_self(), which ends *)
(* the process when the write fails; it may fail once the peer is gone.     *)
WriteSelf(c, to) ==
  \/ Goto(c, to) /\ UNCHANGED status
  \/ c \in peerDown /\ status' = "exited" /\ UNCHANGED pc

(* The first slot that holds v, as the loops over clients[] find it. *)
FirstSlot(s, v) == /\ clients[s] = v
                   /\ \A t \in Slots : t < s => clients[t] # v

-----------------------------------------------------------------------------
(* main(): the accept loop. *)

(* The kernel gives the lowest descriptor that is free. *)
Accept(c) ==
  /\ At(Main, "accept")
  /\ pc[c] = "absent"
  /\ \E f \in FDs :
       /\ sockets[f] = None
       /\ \A g \in FDs : g < f => sockets[g] # None
       /\ sockets' = [sockets EXCEPT ![f] = c]
       /\ connfd' = [connfd EXCEPT ![c] = f]
  /\ arriving' = c
  /\ pc' = [pc EXCEPT ![Main] = "check", ![c] = "accepted"]
  /\ UNCHANGED <<clients, mutex, allocated, cliCount, peerDown, loop, sets,
                 sigThread, status>>

(* Mutated: the comparison on the wrong side of the limit. *)
MutMaxClientsReached == cliCount > MaxClients

MaxClientsReached == cliCount + 1 = MaxClients

Reject ==
  /\ At(Main, "check")
  /\ MaxClientsReached
  /\ sockets' = [sockets EXCEPT ![connfd[arriving]] = None]
  /\ pc' = [pc EXCEPT ![Main] = "accept", ![arriving] = "done"]
  /\ arriving' = None
  /\ UNCHANGED <<clients, mutex, allocated, cliCount, connfd, peerDown, loop,
                 sets, sigThread, status>>

Admit ==
  /\ At(Main, "check")
  /\ ~MaxClientsReached
  /\ allocated' = allocated \cup {arriving}
  /\ Goto(Main, "add_lock")
  /\ UNCHANGED <<arriving, clients, mutex, cliCount, connfd, sockets, peerDown,
                 loop, sets, sigThread, status>>

(* Mutated: the mutex is not taken. *)
MutQueueAddLock ==
  /\ At(Main, "add_lock")
  /\ Goto(Main, "add")
  /\ UNCHANGED <<arriving, clients, mutex, allocated, cliCount, connfd, sockets,
                 peerDown, loop, sets, sigThread, status>>

QueueAddLock ==
  /\ Lock(Main, "add_lock", "add")
  /\ UNCHANGED <<arriving, clients, allocated, cliCount, connfd, sockets,
                 peerDown, loop, sets, sigThread, status>>

(* Mutated: the loop goes on after the first free slot. *)
MutQueueAdd ==
  /\ At(Main, "add")
  /\ clients' = [s \in Slots |-> IF clients[s] = None THEN arriving ELSE clients[s]]
  /\ mutex' = None
  /\ Goto(Main, "create")
  /\ UNCHANGED <<arriving, allocated, cliCount, connfd, sockets, peerDown, loop,
                 sets, sigThread, status>>

(* A full table drops the client without a word. *)
QueueAdd ==
  /\ At(Main, "add")
  /\ \/ \E s \in Slots : /\ FirstSlot(s, None)
                         /\ clients' = [clients EXCEPT ![s] = arriving]
     \/ None \notin {clients[s] : s \in Slots} /\ UNCHANGED clients
  /\ mutex' = None
  /\ Goto(Main, "create")
  /\ UNCHANGED <<arriving, allocated, cliCount, connfd, sockets, peerDown, loop,
                 sets, sigThread, status>>

Create ==
  /\ At(Main, "create")
  /\ pc' = [pc EXCEPT ![Main] = "sleep", ![arriving] = "start"]
  /\ UNCHANGED <<arriving, clients, mutex, allocated, cliCount, connfd, sockets,
                 peerDown, loop, sets, sigThread, status>>

Wake ==
  /\ At(Main, "sleep")
  /\ SleepCovers => pc[arriving] # "start"
  /\ arriving' = None
  /\ Goto(Main, "accept")
  /\ UNCHANGED <<clients, mutex, allocated, cliCount, connfd, sockets, peerDown,
                 loop, sets, sigThread, status>>

-----------------------------------------------------------------------------
(* handle_client(): the thread of connection c. *)

(* Mutated: the thread does not count itself. *)
MutStart(c) ==
  /\ At(c, "start")
  /\ Goto(c, "negotiate")
  /\ UNCHANGED <<arriving, clients, mutex, allocated, cliCount, connfd, sockets,
                 peerDown, loop, sets, sigThread, status>>

Start(c) ==
  /\ At(c, "start")
  /\ cliCount' = cliCount + 1
  /\ Goto(c, "negotiate")
  /\ UNCHANGED <<arriving, clients, mutex, allocated, connfd, sockets, peerDown,
                 loop, sets, sigThread, status>>

(* The version is accepted, refused with a message, or refused in silence. *)
Negotiate(c) ==
  /\ At(c, "negotiate")
  /\ \/ WriteSelf(c, "canvas")
     \/ WriteSelf(c, "close")
  /\ UNCHANGED <<arriving, clients, mutex, allocated, cliCount, connfd, sockets,
                 peerDown, loop, sets, sigThread>>

SendCanvas(c) ==
  /\ At(c, "canvas")
  /\ WriteSelf(c, "serve")
  /\ UNCHANGED <<arriving, clients, mutex, allocated, cliCount, connfd, sockets,
                 peerDown, loop, sets, sigThread>>

OnCanvas(y, x) == y \in 0 .. NumRows - 1 /\ x \in 0 .. NumCols - 1

(* "s y x ch": checked with > against the sizes, then stored by             *)
(* canvas_scharyx(), whose assertion ends the process off the canvas.       *)
Set(c) ==
  /\ At(c, "serve")
  /\ sets[c] < MaxSets
  /\ sets' = [sets EXCEPT ![c] = @ + 1]
  /\ \E request \in SetRequests : LET y == request[1] x == request[2] IN
       \/ /\ x > NumCols \/ y > NumRows
          /\ UNCHANGED <<pc, status>>
       \/ /\ ~(x > NumCols \/ y > NumRows)
          /\ OnCanvas(y, x)
          /\ Goto(c, "send_lock")
          /\ UNCHANGED status
       \/ /\ ~(x > NumCols \/ y > NumRows)
          /\ ~OnCanvas(y, x)
          /\ status' = "aborted"
          /\ UNCHANGED pc
  /\ UNCHANGED <<arriving, clients, mutex, allocated, cliCount, connfd, sockets,
                 peerDown, loop, sigThread>>

(* "c" *)
CanvasRequest(c) ==
  /\ At(c, "serve")
  /\ WriteSelf(c, "serve")
  /\ UNCHANGED <<arriving, clients, mutex, allocated, cliCount, connfd, sockets,
                 peerDown, loop, sets, sigThread>>

(* Mutated: the end of input is noticed in the handshake only. *)
MutEndOfInput(c) ==
  /\ At(c, "negotiate")
  /\ c \in peerDown
  /\ Goto(c, "close")
  /\ UNCHANGED <<arriving, clients, mutex, allocated, cliCount, connfd, sockets,
                 peerDown, loop, sets, sigThread, status>>

(* read() returns nothing from a peer that is gone, in or after the handshake. *)
EndOfInput(c) ==
  /\ At(c, "serve") \/ At(c, "negotiate")
  /\ c \in peerDown
  /\ Goto(c, "close")
  /\ UNCHANGED <<arriving, clients, mutex, allocated, cliCount, connfd, sockets,
                 peerDown, loop, sets, sigThread, status>>

(* "q", or a first command that is not "v" *)
Quit(c) ==
  /\ At(c, "serve") \/ At(c, "negotiate")
  /\ Goto(c, "close")
  /\ UNCHANGED <<arriving, clients, mutex, allocated, cliCount, connfd, sockets,
                 peerDown, loop, sets, sigThread, status>>

(* Mutated: the client_t is freed before it leaves the table. *)
MutClose(c) ==
  /\ At(c, "close")
  /\ sockets' = [sockets EXCEPT ![connfd[c]] = None]
  /\ allocated' = allocated \ {c}
  /\ Goto(c, "del_lock")
  /\ UNCHANGED <<arriving, clients, mutex, cliCount, connfd,
                 peerDown, loop, sets, sigThread, status>>

(* close() comes before queue_delete(): the table keeps the number meanwhile. *)
Close(c) ==
  /\ At(c, "close")
  /\ sockets' = [sockets EXCEPT ![connfd[c]] = None]
  /\ Goto(c, "del_lock")
  /\ UNCHANGED <<arriving, clients, mutex, allocated, cliCount, connfd,
                 peerDown, loop, sets, sigThread, status>>

QueueDeleteLock(c) ==
  /\ Lock(c, "del_lock", "del")
  /\ UNCHANGED <<arriving, clients, allocated, cliCount, connfd, sockets,
                 peerDown, loop, sets, sigThread, status>>

QueueDelete(c) ==
  /\ At(c, "del")
  /\ clients' = [s \in Slots |-> IF FirstSlot(s, c) THEN None ELSE clients[s]]
  /\ mutex' = None
  /\ Goto(c, "free")
  /\ UNCHANGED <<arriving, allocated, cliCount, connfd, sockets, peerDown, loop,
                 sets, sigThread, status>>

(* Mutated: the descriptor is closed a second time. *)
MutFree(c) ==
  /\ At(c, "free")
  /\ sockets' = [sockets EXCEPT ![connfd[c]] = None]
  /\ allocated' = allocated \ {c}
  /\ Goto(c, "uncount")
  /\ UNCHANGED <<arriving, clients, mutex, cliCount, connfd, peerDown,
                 loop, sets, sigThread, status>>

Free(c) ==
  /\ At(c, "free")
  /\ allocated' = allocated \ {c}
  /\ Goto(c, "uncount")
  /\ UNCHANGED <<arriving, clients, mutex, cliCount, connfd, sockets, peerDown,
                 loop, sets, sigThread, status>>

(* Mutated: the counter is not taken back. *)
MutUncount(c) ==
  /\ At(c, "uncount")
  /\ Goto(c, "done")
  /\ UNCHANGED <<arriving, clients, mutex, allocated, cliCount, connfd, sockets,
                 peerDown, loop, sets, sigThread, status>>

Uncount(c) ==
  /\ At(c, "uncount")
  /\ cliCount' = cliCount - 1
  /\ Goto(c, "done")
  /\ UNCHANGED <<arriving, clients, mutex, allocated, connfd, sockets, peerDown,
                 loop, sets, sigThread, status>>

-----------------------------------------------------------------------------
(* The write loop of send_message(), which leaves its sender out, and of   *)
(* broadcast_message(), which leaves nobody out.                           *)

LoopDone == loop.broke \/ loop.next > MaxClients

WriteNext(skip) ==
  LET d == clients[loop.next] IN
  /\ ~LoopDone
  /\ IF d \in {None, skip} THEN loop' = [loop EXCEPT !.next = @ + 1]
     ELSE LET owner == sockets[connfd[d]] IN
          \/ /\ owner # None
             /\ loop' = [loop EXCEPT !.next = @ + 1, !.wrote = @ \cup {owner}]
          \/ /\ owner \in {None} \cup peerDown
             /\ loop' = [loop EXCEPT !.broke = TRUE]

BeginLoop(p, from, to) ==
  /\ Lock(p, from, to)
  /\ loop' = IdleLoop
  /\ UNCHANGED <<arriving, clients, allocated, cliCount, connfd, sockets,
                 peerDown, sets, sigThread, status>>

StepLoop(p, at, skip) ==
  /\ At(p, at)
  /\ WriteNext(skip)
  /\ UNCHANGED <<pc, arriving, clients, mutex, allocated, cliCount, connfd,
                 sockets, peerDown, sets, sigThread, status>>

EndLoop(p, from, to) ==
  /\ At(p, from)
  /\ LoopDone
  /\ mutex' = None
  /\ loop' = IdleLoop
  /\ Goto(p, to)
  /\ UNCHANGED <<arriving, clients, allocated, cliCount, connfd, sockets,
                 peerDown, sets, sigThread, status>>

SendMessage(c) == \/ BeginLoop(c, "send_lock", "send")
                  \/ StepLoop(c, "send", c)
                  \/ EndLoop(c, "send", "serve")

-----------------------------------------------------------------------------
(* finish(), run by SIGINT on any one thread of the process. *)

Interrupt(t) ==
  /\ Interrupts
  /\ status = "running"
  /\ sigThread = None
  /\ pc[t] \in MainLabels \cup ThreadLabels
  /\ sigThread' = t
  /\ Goto(Handler, "quit_lock")
  /\ UNCHANGED <<arriving, clients, mutex, allocated, cliCount, connfd, sockets,
                 peerDown, loop, sets, status>>

BroadcastQuit == \/ BeginLoop(Handler, "quit_lock", "quit")
                 \/ StepLoop(Handler, "quit", None)
                 \/ EndLoop(Handler, "quit", "exit")

Exit ==
  /\ At(Handler, "exit")
  /\ status' = "exited"
  /\ UNCHANGED <<pc, arriving, clients, mutex, allocated, cliCount, connfd,
                 sockets, peerDown, loop, sets, sigThread>>

-----------------------------------------------------------------------------
(* The remote end goes away. *)
Disconnect(c) ==
  /\ status = "running"
  /\ pc[c] \notin {"absent", "done"}
  /\ c \notin peerDown
  /\ peerDown' = peerDown \cup {c}
  /\ UNCHANGED <<pc, arriving, clients, mutex, allocated, cliCount, connfd,
                 sockets, loop, sets, sigThread, status>>

(* Nothing is left to do: the process has ended, or every client has come and gone. *)
Halt ==
  /\ \/ status # "running"
     \/ pc[Main] = "accept" /\ sigThread = None /\ \A c \in Conns : pc[c] = "done"
  /\ UNCHANGED vars

MainStep == Reject \/ Admit \/ QueueAddLock \/ QueueAdd \/ Create \/ Wake

(* What a thread does of itself, without another command of its client. *)
ThreadStep(c) == \/ Start(c) \/ SendCanvas(c) \/ SendMessage(c) \/ EndOfInput(c)
                 \/ Close(c) \/ QueueDeleteLock(c) \/ QueueDelete(c)
                 \/ Free(c) \/ Uncount(c)

ClientStep(c) == \/ Accept(c) \/ Negotiate(c) \/ Set(c) \/ CanvasRequest(c)
                 \/ Quit(c) \/ Disconnect(c)

Next == \/ MainStep
        \/ \E c \in Conns : ThreadStep(c) \/ ClientStep(c)
        \/ \E t \in Conns \cup {Main} : Interrupt(t)
        \/ BroadcastQuit \/ Exit
        \/ Halt

Spec == Init /\ [][Next]_vars

(* The scheduler runs every thread that can run; clients owe nothing. *)
FairSpec == /\ Spec
            /\ WF_vars(MainStep)
            /\ \A c \in Conns : WF_vars(ThreadStep(c))
            /\ WF_vars(BroadcastQuit) /\ WF_vars(Exit)

-----------------------------------------------------------------------------
(* Properties *)

(* The loops of queue_delete(), send_message() and broadcast_message() read *)
(* clients[i]->uid and clients[i]->connfd: whatever the order in which the  *)
(* threads close, deregister and free (lines 236-243), a slot never points  *)
(* to a client_t that was freed or not yet allocated.                       *)
NoUseAfterFree == Registered \subseteq allocated

(* queue_add() and queue_delete() keep a client in at most one slot: with   *)
(* two it would get each message twice, and queue_delete(), which stops at  *)
(* the first match, would leave a dangling pointer behind.                  *)
OneSlotEach ==
  \A s, t \in Slots : clients[s] = clients[t] /\ clients[s] # None => s = t

(* Descriptor numbers are reused as soon as they are closed; a thread that  *)
(* still reads, writes or is about to close cli->connfd has its own socket  *)
(* there, never the one of a client that came later.                        *)
OwnDescriptor ==
  \A c \in Conns : pc[c] \in Serving \cup {"accepted", "close"}
                     => sockets[connfd[c]] = c

(* While a broadcast holds the mutex nobody can slip by it: every slot it   *)
(* has passed whose client still has its socket was written to, however     *)
(* the other threads move meanwhile.                                        *)
BroadcastComplete ==
  \A p \in Procs : pc[p] \in {"send", "quit"} /\ ~loop.broke =>
    \A s \in Slots :
      (/\ s < loop.next
       /\ clients[s] \notin {None, p}
       /\ sockets[connfd[clients[s]]] = clients[s]) => clients[s] \in loop.wrote

(* Slots, descriptors, mutex and heap implement the table of ClientTable:   *)
(* a client is entered once and struck out once, and not while a message is *)
(* passed on; a message gets to all members but those gone away, or is cut  *)
(* short by one of them; and no write goes to a connection that is done.    *)
Away == peerDown \cup {c \in Conns : pc[c] \in Closed}
Gone == {c \in Conns : pc[c] \in Closed \ {"del_lock", "del"}}
Sender == IF mutex # None /\ pc[mutex] \in {"send", "quit"} THEN mutex ELSE None
Membership == INSTANCE ClientTable WITH
  Senders <- Conns \cup {Handler},
  members <- Registered,
  away <- Away,
  gone <- Gone,
  sender <- Sender,
  reached <- loop.wrote,
  cut <- loop.broke
ImplementsTable == Membership!Spec

(* Where sleep(1) outlasts the start of the thread, queue_add() never drops *)
(* a client for want of a slot: every client that is served gets updates.   *)
ServedIsRegistered == \A c \in Conns : pc[c] \in Serving => c \in Registered

(* A connection is turned away only when MaxClients - 1 clients are there:  *)
(* cli_count, updated by other threads than the one that reads it, loses no *)
(* decrement and counts nobody twice.                                       *)
Counted == ThreadLabels \ {"start"}
NoFalseReject ==
  [][Reject => Cardinality({c \in Conns : pc[c] \in Counted}) = MaxClients - 1]_vars

(* A client that has gone away is cleaned up after: its thread gets to the  *)
(* end of handle_client() unless the whole process ends first, or stops for *)
(* an interrupt.                                                            *)
Released ==
  \A c \in Conns :
    c \in peerDown ~> (pc[c] = "done" \/ status # "running" \/ sigThread # None)

(* server.c:74, "Send message to all clients but the sender": when the loop *)
(* ends, every other client that is still connected has been written to.    *)
LiveClientsReached ==
  \A p \in Procs : pc[p] \in {"send", "quit"} /\ LoopDone =>
    \A d \in Registered \ {p} :
      sockets[connfd[d]] = d /\ d \notin peerDown => d \in loop.wrote

(* server.c:74, the other half: the sender's own socket is left out.        *)
SenderExcluded == \A c \in Conns : pc[c] = "send" => c \notin loop.wrote

(* server.c:325, "Check if max clients is reached": no more than MaxClients *)
(* clients are in service at once.                                          *)
AtMostMaxClients == Cardinality({c \in Conns : pc[c] \in Serving}) <= MaxClients

(* server.c:257, "arrange interrupts to terminate": SIGINT ends the process. *)
InterruptTerminates == sigThread # None ~> status # "running"

(* canvas.c:365, assert(canvas_isin_yx(canvas, y, x)): behind the bounds    *)
(* check of "s", the assertion of canvas_scharyx() holds.                   *)
NeverAborts == status # "aborted"

(* server.c:302, "Ignore pipe signals": a client that goes away does not    *)
(* take the server with it.                                                 *)
ExitsOnlyWhenInterrupted == status = "exited" => sigThread # None
=============================================================================
