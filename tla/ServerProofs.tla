---------------------------- MODULE ServerProofs ----------------------------
(***************************************************************************)
(* For any number of connections, slots and descriptors: the table of      *)
(* Server never points to freed memory, holds nobody twice, and what a     *)
(* broadcast has passed it has written to.  Server implements ClientTable: *)
(* every step is a step of it, or none at all.  And where sleep(1)         *)
(* outlasts the start of a thread, the table has a free slot for every     *)
(* connection that main() admits: cli_count does not only count right, it  *)
(* is compared in time.                                                    *)
(***************************************************************************)
EXTENDS Server, FiniteSetTheorems, TLAPS

(* Each kind of thread keeps to its own labels. *)
Places ==
  /\ pc[Main] \in MainLabels
  /\ pc[Handler] \in HandlerLabels
  /\ pc[Handler] = "idle" <=> sigThread = None
  /\ \A c \in Conns : pc[c] \in ThreadLabels \cup {"absent", "accepted", "done"}

(* main() has one connection in hand at most, and that one has no thread yet. *)
Admitting == {"check", "add_lock", "add", "create"}
Admission ==
  /\ pc[Main] \in Admitting \cup {"sleep"} => arriving \in Conns
  /\ \A c \in Conns : pc[c] = "accepted" <=> arriving = c /\ pc[Main] \in Admitting

(* The mutex is held by the thread that is in a critical section. *)
MutexHeld ==
  \A p \in Procs : pc[p] \in {"add", "del", "send", "quit"} <=> mutex = p

(* Who may be in the table, and whose client_t is there *)
Table ==
  \A s \in Slots : clients[s] # None =>
    \/ pc[clients[s]] \in Serving \cup {"close", "del_lock", "del"}
    \/ pc[clients[s]] = "accepted" /\ pc[Main] = "create"
Heap ==
  \A c \in Conns : c \in allocated <=>
    \/ pc[c] \in ThreadLabels \ {"uncount"}
    \/ pc[c] = "accepted" /\ pc[Main] \in Admitting \ {"check"}

(* A connection that was accepted keeps its number, closed or not. *)
Descriptors == \A c \in Conns : pc[c] # "absent" => connfd[c] \in FDs

(* cli_count is the number of threads between its increment and decrement. *)
CountedConns == {c \in Conns : pc[c] \in Counted}
Count == cliCount = Cardinality(CountedConns)

Control == Places /\ Admission /\ MutexHeld
Memory == Table /\ Heap /\ OneSlotEach
Kernel == Descriptors /\ OwnDescriptor
IInv == TypeOK /\ Control /\ Memory /\ Kernel /\ Count /\ BroadcastComplete

-----------------------------------------------------------------------------
(* What Set(c) does, its coordinates left aside. *)
SetEffect(c) ==
  /\ At(c, "serve")
  /\ sets[c] < MaxSets
  /\ sets' = [sets EXCEPT ![c] = @ + 1]
  /\ \/ pc' = pc /\ status' \in {status, "aborted"}
     \/ Goto(c, "send_lock") /\ status' = status
  /\ UNCHANGED <<arriving, clients, mutex, allocated, cliCount, connfd, sockets,
                 peerDown, loop, sigThread>>

(* Set without its arguments: the request is ignored, taken or fatal. *)
LEMMA SetDoes == ASSUME NEW c \in Conns, Set(c) PROVE SetEffect(c)
BY DEF Set, SetEffect, OnCanvas, Goto

(* Set keeps the types of the three variables it writes. *)
LEMMA SetKeepsTypes ==
  ASSUME TypeOK, NEW c \in Conns, Set(c)
  PROVE  sets' \in [Conns -> 0 .. MaxSets] /\ status' \in {"running", "exited", "aborted"}
<1>1. sets' = [sets EXCEPT ![c] = @ + 1] /\ sets[c] < MaxSets
  BY DEF Set
<1>2. status' \in {status, "aborted"}
  BY SetDoes DEF SetEffect
<1> QED  BY <1>1, <1>2, ServerAssumption DEF TypeOK

(* What one round of a write loop does, told of the fields of loop: it      *)
(* breaks off, passes an empty slot or its sender's, or writes to whoever   *)
(* owns the descriptor of the client in the slot.                           *)
WriteEffect(skip) ==
  /\ loop.next \in Slots /\ ~loop.broke
  /\ loop' \in [next : Nat \ {0}, wrote : SUBSET Conns, broke : BOOLEAN]
  /\ ~loop'.broke => /\ loop'.next = loop.next + 1
                     /\ loop.wrote \subseteq loop'.wrote
                     /\ \/ clients[loop.next] \in {None, skip}
                        \/ sockets[connfd[clients[loop.next]]] \in loop'.wrote

(* One round of a write loop goes on or breaks off; when it goes on, its    *)
(* slot was empty or to be skipped, or the descriptor was written to.       *)
LEMMA WriteNextDoes ==
  ASSUME TypeOK, Control, Memory, Kernel, NEW skip, WriteNext(skip)
  PROVE  WriteEffect(skip)
<1> DEFINE d == clients[loop.next]
           owner == sockets[connfd[d]]
<1>1. loop.next \in Slots /\ ~loop.broke
  BY ServerAssumption DEF WriteNext, LoopDone, TypeOK, Slots
<1>2. d \in Conns \cup {None}
  BY <1>1 DEF TypeOK
<1>3. CASE d \in {None, skip}
  BY <1>1, <1>3 DEF WriteNext, WriteEffect, TypeOK
<1>4. CASE d \notin {None, skip}
  <2>1. connfd[d] \in FDs
    BY <1>1, <1>2, <1>4 DEF Memory, Table, Kernel, Descriptors, Serving
  <2>2. owner \in Conns \cup {None}
    BY <2>1 DEF TypeOK
  <2>3. \/ /\ owner # None
           /\ loop' = [loop EXCEPT !.next = @ + 1, !.wrote = @ \cup {owner}]
        \/ loop' = [loop EXCEPT !.broke = TRUE]
    BY <1>4 DEF WriteNext
  <2>4. CASE /\ owner # None
             /\ loop' = [loop EXCEPT !.next = @ + 1, !.wrote = @ \cup {owner}]
    <3>1. loop'.next = loop.next + 1 /\ loop'.wrote = loop.wrote \cup {owner}
      BY <2>4 DEF TypeOK
    <3>2. loop.wrote \cup {owner} \in SUBSET Conns
      BY <2>2, <2>4 DEF TypeOK
    <3>3. loop' = [next |-> loop.next + 1, wrote |-> loop.wrote \cup {owner},
                   broke |-> loop.broke]
      BY <2>4 DEF TypeOK
    <3>4. loop.next + 1 \in Nat \ {0} /\ loop.broke \in BOOLEAN
      BY DEF TypeOK
    <3>5. loop' \in [next : Nat \ {0}, wrote : SUBSET Conns, broke : BOOLEAN]
      BY <3>2, <3>3, <3>4
    <3> QED  BY <1>1, <3>1, <3>5 DEF WriteEffect
  <2>5. CASE loop' = [loop EXCEPT !.broke = TRUE]
    BY <1>1, <2>5 DEF WriteEffect, TypeOK
  <2> QED  BY <2>3, <2>4, <2>5
<1> QED  BY <1>3, <1>4

(* A step that leaves the table and the loop alone, and at most closes      *)
(* sockets, keeps BroadcastComplete.                                        *)
LEMMA BroadcastFrame ==
  ASSUME BroadcastComplete, UNCHANGED <<clients, loop>>,
         \A s \in Slots : clients[s] # None /\ sockets'[connfd'[clients[s]]] = clients[s]
                            => sockets[connfd[clients[s]]] = clients[s],
         \A p \in Procs : pc'[p] \in {"send", "quit"} => pc[p] \in {"send", "quit"}
  PROVE  BroadcastComplete'
BY DEF BroadcastComplete

(* A round keeps BroadcastComplete: there is one loop at a time, and the    *)
(* slot it passes is empty, its sender's, or written to.                    *)
LEMMA StepKeepsBroadcast ==
  ASSUME TypeOK, Control, Memory, Kernel, BroadcastComplete,
         NEW p \in Procs, NEW at \in {"send", "quit"}, NEW skip \in {p, None},
         StepLoop(p, at, skip)
  PROVE  BroadcastComplete'
<1>1. UNCHANGED <<pc, clients, connfd, sockets>> /\ pc[p] = at
  BY DEF StepLoop, At
<1>2. WriteEffect(skip)
  BY WriteNextDoes DEF StepLoop
<1> SUFFICES ASSUME NEW q \in Procs, pc[q] \in {"send", "quit"}, ~loop'.broke,
                    NEW s \in Slots, s < loop'.next, clients[s] \notin {None, q},
                    sockets[connfd[clients[s]]] = clients[s]
             PROVE  clients[s] \in loop'.wrote
  BY <1>1 DEF BroadcastComplete
<1>3. q = p
  BY <1>1 DEF Control, MutexHeld
<1>4. CASE s < loop.next
  BY <1>1, <1>2, <1>3, <1>4 DEF BroadcastComplete, WriteEffect
<1>5. CASE s = loop.next
  BY <1>2, <1>3, <1>5 DEF WriteEffect
<1>6. s < loop.next \/ s = loop.next
  BY <1>2 DEF WriteEffect, Slots
<1> QED  BY <1>4, <1>5, <1>6

(* cli_count follows the threads: a step adds or takes one of both, or none. *)
LEMMA CountStep ==
  ASSUME TypeOK, Control, Count, Next
  PROVE  Count'
<1>a. IsFiniteSet(CountedConns)
  BY ServerAssumption, FS_Subset DEF CountedConns
<1> USE ServerAssumption
    DEF At, Goto, Lock, WriteSelf, Procs, MainLabels, ThreadLabels,
        HandlerLabels, TypeOK, Control, Places, Admission, MutexHeld,
        Admitting, Counted
<1>1. ASSUME NEW c \in Conns, Accept(c)
      PROVE  CountedConns' = CountedConns /\ cliCount' = cliCount
  BY <1>1 DEF Accept, CountedConns
<1>2. ASSUME Reject PROVE CountedConns' = CountedConns /\ cliCount' = cliCount
  BY <1>2 DEF Reject, CountedConns
<1>3. ASSUME Admit PROVE CountedConns' = CountedConns /\ cliCount' = cliCount
  BY <1>3 DEF Admit, CountedConns
<1>4. ASSUME QueueAddLock
      PROVE  CountedConns' = CountedConns /\ cliCount' = cliCount
  BY <1>4 DEF QueueAddLock, CountedConns
<1>5. ASSUME QueueAdd
      PROVE  CountedConns' = CountedConns /\ cliCount' = cliCount
  BY <1>5 DEF QueueAdd, CountedConns
<1>6. ASSUME Create PROVE CountedConns' = CountedConns /\ cliCount' = cliCount
  BY <1>6 DEF Create, CountedConns
<1>7. ASSUME Wake PROVE CountedConns' = CountedConns /\ cliCount' = cliCount
  BY <1>7 DEF Wake, CountedConns
<1>8. ASSUME NEW c \in Conns, Start(c) PROVE Count'
  <2>1. CountedConns' = CountedConns \cup {c} /\ c \notin CountedConns
    BY <1>8 DEF Start, CountedConns
  <2>2. Cardinality(CountedConns') = Cardinality(CountedConns) + 1
    BY <1>a, <2>1, FS_AddElement
  <2> QED  BY <1>8, <2>2 DEF Start, Count
<1>9. ASSUME NEW c \in Conns, Negotiate(c)
      PROVE  CountedConns' = CountedConns /\ cliCount' = cliCount
  BY <1>9 DEF Negotiate, CountedConns
<1>10. ASSUME NEW c \in Conns, SendCanvas(c)
       PROVE  CountedConns' = CountedConns /\ cliCount' = cliCount
  BY <1>10 DEF SendCanvas, CountedConns
<1>11. ASSUME NEW c \in Conns, Set(c)
       PROVE  CountedConns' = CountedConns /\ cliCount' = cliCount
  BY <1>11, SetDoes DEF SetEffect, CountedConns
<1>12. ASSUME NEW c \in Conns, CanvasRequest(c)
       PROVE  CountedConns' = CountedConns /\ cliCount' = cliCount
  BY <1>12 DEF CanvasRequest, CountedConns
<1>13. ASSUME NEW c \in Conns, EndOfInput(c)
       PROVE  CountedConns' = CountedConns /\ cliCount' = cliCount
  BY <1>13 DEF EndOfInput, CountedConns
<1>14. ASSUME NEW c \in Conns, Quit(c)
       PROVE  CountedConns' = CountedConns /\ cliCount' = cliCount
  BY <1>14 DEF Quit, CountedConns
<1>15. ASSUME NEW c \in Conns, Close(c)
       PROVE  CountedConns' = CountedConns /\ cliCount' = cliCount
  BY <1>15 DEF Close, CountedConns
<1>16. ASSUME NEW c \in Conns, QueueDeleteLock(c)
       PROVE  CountedConns' = CountedConns /\ cliCount' = cliCount
  BY <1>16 DEF QueueDeleteLock, CountedConns
<1>17. ASSUME NEW c \in Conns, QueueDelete(c)
       PROVE  CountedConns' = CountedConns /\ cliCount' = cliCount
  BY <1>17 DEF QueueDelete, CountedConns
<1>18. ASSUME NEW c \in Conns, Free(c)
       PROVE  CountedConns' = CountedConns /\ cliCount' = cliCount
  BY <1>18 DEF Free, CountedConns
<1>19. ASSUME NEW c \in Conns, Uncount(c) PROVE Count'
  <2>1. CountedConns' = CountedConns \ {c} /\ c \in CountedConns
    BY <1>19 DEF Uncount, CountedConns
  <2>2. Cardinality(CountedConns') = Cardinality(CountedConns) - 1
    BY <1>a, <2>1, FS_RemoveElement
  <2> QED  BY <1>19, <2>2 DEF Uncount, Count
<1>20. ASSUME NEW c \in Conns, BeginLoop(c, "send_lock", "send")
       PROVE  CountedConns' = CountedConns /\ cliCount' = cliCount
  BY <1>20 DEF BeginLoop, CountedConns
<1>21. ASSUME NEW c \in Conns, StepLoop(c, "send", c)
       PROVE  CountedConns' = CountedConns /\ cliCount' = cliCount
  BY <1>21 DEF StepLoop, WriteNext, CountedConns
<1>22. ASSUME NEW c \in Conns, EndLoop(c, "send", "serve")
       PROVE  CountedConns' = CountedConns /\ cliCount' = cliCount
  BY <1>22 DEF EndLoop, CountedConns
<1>23. ASSUME NEW t \in Conns \cup {Main}, Interrupt(t)
       PROVE  CountedConns' = CountedConns /\ cliCount' = cliCount
  BY <1>23 DEF Interrupt, CountedConns
<1>24. ASSUME BeginLoop(Handler, "quit_lock", "quit")
       PROVE  CountedConns' = CountedConns /\ cliCount' = cliCount
  BY <1>24 DEF BeginLoop, CountedConns
<1>25. ASSUME StepLoop(Handler, "quit", None)
       PROVE  CountedConns' = CountedConns /\ cliCount' = cliCount
  BY <1>25 DEF StepLoop, WriteNext, CountedConns
<1>26. ASSUME EndLoop(Handler, "quit", "exit")
       PROVE  CountedConns' = CountedConns /\ cliCount' = cliCount
  BY <1>26 DEF EndLoop, CountedConns
<1>27. ASSUME Exit PROVE CountedConns' = CountedConns /\ cliCount' = cliCount
  BY <1>27 DEF Exit, CountedConns
<1>28. ASSUME NEW c \in Conns, Disconnect(c)
       PROVE  CountedConns' = CountedConns /\ cliCount' = cliCount
  BY <1>28 DEF Disconnect, CountedConns
<1>29. ASSUME Halt PROVE CountedConns' = CountedConns /\ cliCount' = cliCount
  BY <1>29 DEF Halt, vars, CountedConns
<1> QED
  <2>1. CASE MainStep
    BY <1>a, <2>1, <1>2, <1>3, <1>4, <1>5, <1>6, <1>7
    DEF MainStep, Count
  <2>2. ASSUME NEW c \in Conns, ThreadStep(c) PROVE Count'
    BY <1>a, <2>2, <1>8, <1>10, <1>13, <1>15, <1>16, <1>17, <1>18, <1>19,
       <1>20, <1>21, <1>22
    DEF ThreadStep, SendMessage, Count
  <2>3. ASSUME NEW c \in Conns, ClientStep(c) PROVE Count'
    BY <1>a, <2>3, <1>1, <1>9, <1>11, <1>12, <1>14, <1>28
    DEF ClientStep, Count
  <2>4. CASE BroadcastQuit \/ Exit \/ Halt
    BY <1>a, <2>4, <1>24, <1>25, <1>26, <1>27, <1>29
    DEF BroadcastQuit, Count
  <2> QED  BY <1>a, <1>23, <2>1, <2>2, <2>3, <2>4 DEF Next, Count

(* Types; cli_count, which is decremented, needs Count to stay in Nat. *)
LEMMA TypeStep ==
  ASSUME TypeOK, Control, Memory, Kernel, cliCount' \in Nat, Next
  PROVE  TypeOK'
<1> USE ServerAssumption
    DEF At, Goto, Lock, WriteSelf, Procs, MainLabels, ThreadLabels,
        HandlerLabels, TypeOK, Control, Places, Admission, MutexHeld,
        Admitting, Memory, Table, Kernel, Descriptors, Labels, IdleLoop,
        Slots, Serving, FirstSlot
<1>1. ASSUME NEW c \in Conns, Accept(c) PROVE TypeOK'
  BY <1>1 DEF Accept
<1>2. ASSUME Reject PROVE TypeOK'
  BY <1>2 DEF Reject
<1>3. ASSUME Admit PROVE TypeOK'
  BY <1>3 DEF Admit
<1>4. ASSUME QueueAddLock PROVE TypeOK'
  BY <1>4 DEF QueueAddLock
<1>5. ASSUME QueueAdd PROVE TypeOK'
  <2>1. arriving \in Conns
    BY <1>5 DEF QueueAdd
  <2>2. clients' \in [Slots -> Conns \cup {None}]
    <3>1. CASE UNCHANGED clients
      BY <3>1
    <3>2. ASSUME NEW s \in Slots, clients' = [clients EXCEPT ![s] = arriving]
          PROVE  clients' \in [Slots -> Conns \cup {None}]
      BY <2>1, <3>2
    <3> QED  BY <1>5, <3>1, <3>2 DEF QueueAdd
  <2>3. pc' \in [Procs -> Labels]
    BY <1>5 DEF QueueAdd
  <2> QED  BY <1>5, <2>2, <2>3 DEF QueueAdd
<1>6. ASSUME Create PROVE TypeOK'
  BY <1>6 DEF Create
<1>7. ASSUME Wake PROVE TypeOK'
  BY <1>7 DEF Wake
<1>8. ASSUME NEW c \in Conns, Start(c) PROVE TypeOK'
  BY <1>8 DEF Start
<1>9. ASSUME NEW c \in Conns, Negotiate(c) PROVE TypeOK'
  <2>1. CASE UNCHANGED pc
    BY <1>9, <2>1 DEF Negotiate
  <2>2. CASE Goto(c, "canvas")
    BY <1>9, <2>2 DEF Negotiate
  <2>3. CASE Goto(c, "close")
    BY <1>9, <2>3 DEF Negotiate
  <2> QED  BY <1>9, <2>1, <2>2, <2>3 DEF Negotiate
<1>10. ASSUME NEW c \in Conns, SendCanvas(c) PROVE TypeOK'
  <2>1. CASE UNCHANGED pc
    BY <1>10, <2>1 DEF SendCanvas
  <2>2. CASE Goto(c, "serve")
    BY <1>10, <2>2 DEF SendCanvas
  <2> QED  BY <1>10, <2>1, <2>2 DEF SendCanvas
<1>11. ASSUME NEW c \in Conns, Set(c) PROVE TypeOK'
  <2>1. pc' \in [Procs -> Labels]
    <3>1. CASE UNCHANGED pc
      BY <3>1
    <3>2. CASE Goto(c, "send_lock")
      BY <1>11, <3>2
    <3> QED  BY <1>11, <3>1, <3>2, SetDoes DEF SetEffect
  <2>2. sets' \in [Conns -> 0 .. MaxSets] /\ status' \in {"running", "exited", "aborted"}
    BY <1>11, SetKeepsTypes
  <2>3. UNCHANGED <<arriving, clients, mutex, allocated, cliCount, connfd, sockets,
                    peerDown, loop, sigThread>>
    BY <1>11, SetDoes DEF SetEffect
  <2> QED  BY <2>1, <2>2, <2>3
<1>12. ASSUME NEW c \in Conns, CanvasRequest(c) PROVE TypeOK'
  BY <1>12 DEF CanvasRequest
<1>13. ASSUME NEW c \in Conns, EndOfInput(c) PROVE TypeOK'
  BY <1>13 DEF EndOfInput
<1>14. ASSUME NEW c \in Conns, Quit(c) PROVE TypeOK'
  BY <1>14 DEF Quit
<1>15. ASSUME NEW c \in Conns, Close(c) PROVE TypeOK'
  BY <1>15 DEF Close
<1>16. ASSUME NEW c \in Conns, QueueDeleteLock(c) PROVE TypeOK'
  BY <1>16 DEF QueueDeleteLock
<1>17. ASSUME NEW c \in Conns, QueueDelete(c) PROVE TypeOK'
  BY <1>17 DEF QueueDelete
<1>18. ASSUME NEW c \in Conns, Free(c) PROVE TypeOK'
  BY <1>18 DEF Free
<1>19. ASSUME NEW c \in Conns, Uncount(c) PROVE TypeOK'
  BY <1>19 DEF Uncount
<1>20. ASSUME NEW c \in Conns, BeginLoop(c, "send_lock", "send") PROVE TypeOK'
  BY <1>20 DEF BeginLoop
<1>21. ASSUME NEW c \in Conns, StepLoop(c, "send", c) PROVE TypeOK'
  <2>1. loop' \in [next : Nat \ {0}, wrote : SUBSET Conns, broke : BOOLEAN]
    BY <1>21, WriteNextDoes DEF StepLoop, WriteEffect
  <2> QED  BY <1>21, <2>1 DEF StepLoop
<1>22. ASSUME NEW c \in Conns, EndLoop(c, "send", "serve") PROVE TypeOK'
  BY <1>22 DEF EndLoop
<1>23. ASSUME NEW t \in Conns \cup {Main}, Interrupt(t) PROVE TypeOK'
  BY <1>23 DEF Interrupt
<1>24. ASSUME BeginLoop(Handler, "quit_lock", "quit") PROVE TypeOK'
  BY <1>24 DEF BeginLoop
<1>25. ASSUME StepLoop(Handler, "quit", None) PROVE TypeOK'
  <2>1. loop' \in [next : Nat \ {0}, wrote : SUBSET Conns, broke : BOOLEAN]
    BY <1>25, WriteNextDoes DEF StepLoop, WriteEffect
  <2> QED  BY <1>25, <2>1 DEF StepLoop
<1>26. ASSUME EndLoop(Handler, "quit", "exit") PROVE TypeOK'
  BY <1>26 DEF EndLoop
<1>27. ASSUME Exit PROVE TypeOK'
  BY <1>27 DEF Exit
<1>28. ASSUME NEW c \in Conns, Disconnect(c) PROVE TypeOK'
  BY <1>28 DEF Disconnect
<1>29. ASSUME Halt PROVE TypeOK'
  BY <1>29 DEF Halt, vars
<1> QED
  <2>1. CASE MainStep
    BY <2>1, <1>2, <1>3, <1>4, <1>5, <1>6, <1>7
    DEF MainStep
  <2>2. ASSUME NEW c \in Conns, ThreadStep(c) PROVE TypeOK'
    BY <2>2, <1>8, <1>10, <1>13, <1>15, <1>16, <1>17, <1>18, <1>19, <1>20,
       <1>21, <1>22
    DEF ThreadStep, SendMessage
  <2>3. ASSUME NEW c \in Conns, ClientStep(c) PROVE TypeOK'
    BY <2>3, <1>1, <1>9, <1>11, <1>12, <1>14, <1>28
    DEF ClientStep
  <2>4. CASE BroadcastQuit \/ Exit \/ Halt
    BY <2>4, <1>24, <1>25, <1>26, <1>27, <1>29
    DEF BroadcastQuit
  <2> QED  BY <1>23, <2>1, <2>2, <2>3, <2>4 DEF Next

(* Threads keep to their labels and the mutex to its holder. *)
LEMMA ControlStep ==
  ASSUME TypeOK, Control, Next
  PROVE  Control'
<1> USE ServerAssumption
    DEF At, Goto, Lock, WriteSelf, Procs, MainLabels, ThreadLabels,
        HandlerLabels, TypeOK, Control, Places, Admission, MutexHeld,
        Admitting
<1>1. ASSUME NEW c \in Conns, Accept(c) PROVE Control'
  BY <1>1 DEF Accept
<1>2. ASSUME Reject PROVE Control'
  BY <1>2 DEF Reject
<1>3. ASSUME Admit PROVE Control'
  BY <1>3 DEF Admit
<1>4. ASSUME QueueAddLock PROVE Control'
  BY <1>4 DEF QueueAddLock
<1>5. ASSUME QueueAdd PROVE Control'
  BY <1>5 DEF QueueAdd
<1>6. ASSUME Create PROVE Control'
  BY <1>6 DEF Create
<1>7. ASSUME Wake PROVE Control'
  BY <1>7 DEF Wake
<1>8. ASSUME NEW c \in Conns, Start(c) PROVE Control'
  BY <1>8 DEF Start
<1>9. ASSUME NEW c \in Conns, Negotiate(c) PROVE Control'
  BY <1>9 DEF Negotiate
<1>10. ASSUME NEW c \in Conns, SendCanvas(c) PROVE Control'
  BY <1>10 DEF SendCanvas
<1>11. ASSUME NEW c \in Conns, Set(c) PROVE Control'
  BY <1>11, SetDoes DEF SetEffect
<1>12. ASSUME NEW c \in Conns, CanvasRequest(c) PROVE Control'
  BY <1>12 DEF CanvasRequest
<1>13. ASSUME NEW c \in Conns, EndOfInput(c) PROVE Control'
  BY <1>13 DEF EndOfInput
<1>14. ASSUME NEW c \in Conns, Quit(c) PROVE Control'
  BY <1>14 DEF Quit
<1>15. ASSUME NEW c \in Conns, Close(c) PROVE Control'
  BY <1>15 DEF Close
<1>16. ASSUME NEW c \in Conns, QueueDeleteLock(c) PROVE Control'
  BY <1>16 DEF QueueDeleteLock
<1>17. ASSUME NEW c \in Conns, QueueDelete(c) PROVE Control'
  BY <1>17 DEF QueueDelete
<1>18. ASSUME NEW c \in Conns, Free(c) PROVE Control'
  BY <1>18 DEF Free
<1>19. ASSUME NEW c \in Conns, Uncount(c) PROVE Control'
  BY <1>19 DEF Uncount
<1>20. ASSUME NEW c \in Conns, BeginLoop(c, "send_lock", "send")
       PROVE  Control'
  BY <1>20 DEF BeginLoop
<1>21. ASSUME NEW c \in Conns, StepLoop(c, "send", c) PROVE Control'
  BY <1>21 DEF StepLoop, WriteNext
<1>22. ASSUME NEW c \in Conns, EndLoop(c, "send", "serve") PROVE Control'
  BY <1>22 DEF EndLoop
<1>23. ASSUME NEW t \in Conns \cup {Main}, Interrupt(t) PROVE Control'
  BY <1>23 DEF Interrupt
<1>24. ASSUME BeginLoop(Handler, "quit_lock", "quit") PROVE Control'
  BY <1>24 DEF BeginLoop
<1>25. ASSUME StepLoop(Handler, "quit", None) PROVE Control'
  BY <1>25 DEF StepLoop, WriteNext
<1>26. ASSUME EndLoop(Handler, "quit", "exit") PROVE Control'
  BY <1>26 DEF EndLoop
<1>27. ASSUME Exit PROVE Control'
  BY <1>27 DEF Exit
<1>28. ASSUME NEW c \in Conns, Disconnect(c) PROVE Control'
  BY <1>28 DEF Disconnect
<1>29. ASSUME Halt PROVE Control'
  BY <1>29 DEF Halt, vars
<1> QED
  <2>1. CASE MainStep
    BY <2>1, <1>2, <1>3, <1>4, <1>5, <1>6, <1>7
    DEF MainStep
  <2>2. ASSUME NEW c \in Conns, ThreadStep(c) PROVE Control'
    BY <2>2, <1>8, <1>10, <1>13, <1>15, <1>16, <1>17, <1>18, <1>19, <1>20,
       <1>21, <1>22
    DEF ThreadStep, SendMessage
  <2>3. ASSUME NEW c \in Conns, ClientStep(c) PROVE Control'
    BY <2>3, <1>1, <1>9, <1>11, <1>12, <1>14, <1>28
    DEF ClientStep
  <2>4. CASE BroadcastQuit \/ Exit \/ Halt
    BY <2>4, <1>24, <1>25, <1>26, <1>27, <1>29
    DEF BroadcastQuit
  <2> QED  BY <1>23, <2>1, <2>2, <2>3, <2>4 DEF Next

(* The table and the heap *)
LEMMA MemoryStep ==
  ASSUME TypeOK, Control, Memory, Next
  PROVE  Memory'
<1> USE ServerAssumption
    DEF At, Goto, Lock, WriteSelf, Procs, MainLabels, ThreadLabels,
        HandlerLabels, TypeOK, Control, Places, Admission, MutexHeld,
        Admitting, Memory, Table, Heap, OneSlotEach, Serving, Slots, FirstSlot
<1>1. ASSUME NEW c \in Conns, Accept(c) PROVE Memory'
  <2>1. Table'
    BY <1>1 DEF Accept
  <2>2. Heap'
    BY <1>1 DEF Accept
  <2>3. OneSlotEach'
    BY <1>1 DEF Accept
  <2> QED  BY <2>1, <2>2, <2>3
<1>2. ASSUME Reject PROVE Memory'
  <2>1. Table'
    BY <1>2 DEF Reject
  <2>2. Heap'
    BY <1>2 DEF Reject
  <2>3. OneSlotEach'
    BY <1>2 DEF Reject
  <2> QED  BY <2>1, <2>2, <2>3
<1>3. ASSUME Admit PROVE Memory'
  BY <1>3 DEF Admit
<1>4. ASSUME QueueAddLock PROVE Memory'
  BY <1>4 DEF QueueAddLock
<1>5. ASSUME QueueAdd PROVE Memory'
  <2>1. pc[Main] = "add" /\ arriving \in Conns /\ pc[arriving] = "accepted"
    BY <1>5 DEF QueueAdd
  <2>2. \A s \in Slots : clients[s] # arriving
    <3> SUFFICES ASSUME NEW s \in Slots, clients[s] = arriving  PROVE FALSE
      OBVIOUS
    <3>1. clients[s] # None
      BY <2>1
    <3>2. pc[arriving] # "accepted" \/ pc[Main] = "create"
      BY <3>1
    <3> QED  BY <2>1, <3>2
  <2>3. Heap'
    BY <1>5, <2>1 DEF QueueAdd
  <2>4. CASE UNCHANGED clients
    BY <1>5, <2>3, <2>4 DEF QueueAdd
  <2>5. ASSUME NEW s \in Slots, FirstSlot(s, None),
               clients' = [clients EXCEPT ![s] = arriving]
        PROVE  Table' /\ OneSlotEach'
    <3>1. Table'
      BY <1>5, <2>1, <2>5 DEF QueueAdd
    <3>2. OneSlotEach'
      <4> SUFFICES ASSUME NEW i \in Slots, NEW j \in Slots,
                          clients'[i] = clients'[j], clients'[i] # None
                   PROVE  i = j
        BY DEF OneSlotEach
      <4>1. CASE i # s /\ j # s
        BY <2>5, <4>1
      <4>2. CASE i = s \/ j = s
        BY <2>2, <2>5, <4>2
      <4> QED  BY <4>1, <4>2
    <3> QED  BY <3>1, <3>2
  <2> QED  BY <1>5, <2>3, <2>4, <2>5 DEF QueueAdd
<1>6. ASSUME Create PROVE Memory'
  <2>1. Table'
    BY <1>6 DEF Create
  <2>2. Heap'
    BY <1>6 DEF Create
  <2> QED  BY <1>6, <2>1, <2>2 DEF Create
<1>7. ASSUME Wake PROVE Memory'
  BY <1>7 DEF Wake
<1>8. ASSUME NEW c \in Conns, Start(c) PROVE Memory'
  BY <1>8 DEF Start
<1>9. ASSUME NEW c \in Conns, Negotiate(c) PROVE Memory'
  <2>1. Table'
    BY <1>9 DEF Negotiate
  <2>2. Heap'
    BY <1>9 DEF Negotiate
  <2> QED  BY <1>9, <2>1, <2>2 DEF Negotiate
<1>10. ASSUME NEW c \in Conns, SendCanvas(c) PROVE Memory'
  <2>1. Table'
    BY <1>10 DEF SendCanvas
  <2>2. Heap'
    BY <1>10 DEF SendCanvas
  <2> QED  BY <1>10, <2>1, <2>2 DEF SendCanvas
<1>11. ASSUME NEW c \in Conns, Set(c) PROVE Memory'
  <2>1. UNCHANGED pc \/ Goto(c, "send_lock")
    BY <1>11, SetDoes DEF SetEffect
  <2>2. pc[c] = "serve" /\ UNCHANGED <<clients, allocated>>
    BY <1>11, SetDoes DEF SetEffect
  <2>3. Table'
    BY <1>11, <2>1, <2>2
  <2>4. Heap'
    BY <1>11, <2>1, <2>2
  <2>5. OneSlotEach'
    BY <2>2
  <2> QED  BY <2>3, <2>4, <2>5
<1>12. ASSUME NEW c \in Conns, CanvasRequest(c) PROVE Memory'
  BY <1>12 DEF CanvasRequest
<1>13. ASSUME NEW c \in Conns, EndOfInput(c) PROVE Memory'
  BY <1>13 DEF EndOfInput
<1>14. ASSUME NEW c \in Conns, Quit(c) PROVE Memory'
  BY <1>14 DEF Quit
<1>15. ASSUME NEW c \in Conns, Close(c) PROVE Memory'
  BY <1>15 DEF Close
<1>16. ASSUME NEW c \in Conns, QueueDeleteLock(c) PROVE Memory'
  BY <1>16 DEF QueueDeleteLock
<1>17. ASSUME NEW c \in Conns, QueueDelete(c) PROVE Memory'
  BY <1>17 DEF QueueDelete
<1>18. ASSUME NEW c \in Conns, Free(c) PROVE Memory'
  BY <1>18 DEF Free
<1>19. ASSUME NEW c \in Conns, Uncount(c) PROVE Memory'
  BY <1>19 DEF Uncount
<1>20. ASSUME NEW c \in Conns, BeginLoop(c, "send_lock", "send") PROVE Memory'
  BY <1>20 DEF BeginLoop
<1>21. ASSUME NEW c \in Conns, StepLoop(c, "send", c) PROVE Memory'
  BY <1>21 DEF StepLoop, WriteNext
<1>22. ASSUME NEW c \in Conns, EndLoop(c, "send", "serve") PROVE Memory'
  BY <1>22 DEF EndLoop
<1>23. ASSUME NEW t \in Conns \cup {Main}, Interrupt(t) PROVE Memory'
  BY <1>23 DEF Interrupt
<1>24. ASSUME BeginLoop(Handler, "quit_lock", "quit") PROVE Memory'
  BY <1>24 DEF BeginLoop
<1>25. ASSUME StepLoop(Handler, "quit", None) PROVE Memory'
  BY <1>25 DEF StepLoop, WriteNext
<1>26. ASSUME EndLoop(Handler, "quit", "exit") PROVE Memory'
  BY <1>26 DEF EndLoop
<1>27. ASSUME Exit PROVE Memory'
  BY <1>27 DEF Exit
<1>28. ASSUME NEW c \in Conns, Disconnect(c) PROVE Memory'
  BY <1>28 DEF Disconnect
<1>29. ASSUME Halt PROVE Memory'
  BY <1>29 DEF Halt, vars
<1> QED
  <2>1. CASE MainStep
    BY <2>1, <1>2, <1>3, <1>4, <1>5, <1>6, <1>7
    DEF MainStep
  <2>2. ASSUME NEW c \in Conns, ThreadStep(c) PROVE Memory'
    BY <2>2, <1>8, <1>10, <1>13, <1>15, <1>16, <1>17, <1>18, <1>19, <1>20,
       <1>21, <1>22
    DEF ThreadStep, SendMessage
  <2>3. ASSUME NEW c \in Conns, ClientStep(c) PROVE Memory'
    BY <2>3, <1>1, <1>9, <1>11, <1>12, <1>14, <1>28
    DEF ClientStep
  <2>4. CASE BroadcastQuit \/ Exit \/ Halt
    BY <2>4, <1>24, <1>25, <1>26, <1>27, <1>29
    DEF BroadcastQuit
  <2> QED  BY <1>23, <2>1, <2>2, <2>3, <2>4 DEF Next

(* close() frees the number of the connection that stops using it, and      *)
(* accept() gives a number that is free.                                    *)
LEMMA KernelStep ==
  ASSUME TypeOK, Control, Kernel, Next
  PROVE  Kernel'
<1> USE ServerAssumption
    DEF At, Goto, Lock, WriteSelf, Procs, MainLabels, ThreadLabels,
        HandlerLabels, TypeOK, Control, Places, Admission, MutexHeld,
        Admitting, Kernel, Descriptors, OwnDescriptor, Serving
<1>1. ASSUME NEW c \in Conns, Accept(c) PROVE Kernel'
  BY <1>1 DEF Accept
<1>2. ASSUME Reject PROVE Kernel'
  BY <1>2 DEF Reject
<1>3. ASSUME Admit PROVE Kernel'
  BY <1>3 DEF Admit
<1>4. ASSUME QueueAddLock PROVE Kernel'
  BY <1>4 DEF QueueAddLock
<1>5. ASSUME QueueAdd PROVE Kernel'
  BY <1>5 DEF QueueAdd
<1>6. ASSUME Create PROVE Kernel'
  BY <1>6 DEF Create
<1>7. ASSUME Wake PROVE Kernel'
  BY <1>7 DEF Wake
<1>8. ASSUME NEW c \in Conns, Start(c) PROVE Kernel'
  BY <1>8 DEF Start
<1>9. ASSUME NEW c \in Conns, Negotiate(c) PROVE Kernel'
  BY <1>9 DEF Negotiate
<1>10. ASSUME NEW c \in Conns, SendCanvas(c) PROVE Kernel'
  BY <1>10 DEF SendCanvas
<1>11. ASSUME NEW c \in Conns, Set(c) PROVE Kernel'
  BY <1>11, SetDoes DEF SetEffect
<1>12. ASSUME NEW c \in Conns, CanvasRequest(c) PROVE Kernel'
  BY <1>12 DEF CanvasRequest
<1>13. ASSUME NEW c \in Conns, EndOfInput(c) PROVE Kernel'
  BY <1>13 DEF EndOfInput
<1>14. ASSUME NEW c \in Conns, Quit(c) PROVE Kernel'
  BY <1>14 DEF Quit
<1>15. ASSUME NEW c \in Conns, Close(c) PROVE Kernel'
  BY <1>15 DEF Close
<1>16. ASSUME NEW c \in Conns, QueueDeleteLock(c) PROVE Kernel'
  BY <1>16 DEF QueueDeleteLock
<1>17. ASSUME NEW c \in Conns, QueueDelete(c) PROVE Kernel'
  BY <1>17 DEF QueueDelete
<1>18. ASSUME NEW c \in Conns, Free(c) PROVE Kernel'
  BY <1>18 DEF Free
<1>19. ASSUME NEW c \in Conns, Uncount(c) PROVE Kernel'
  BY <1>19 DEF Uncount
<1>20. ASSUME NEW c \in Conns, BeginLoop(c, "send_lock", "send") PROVE Kernel'
  BY <1>20 DEF BeginLoop
<1>21. ASSUME NEW c \in Conns, StepLoop(c, "send", c) PROVE Kernel'
  BY <1>21 DEF StepLoop, WriteNext
<1>22. ASSUME NEW c \in Conns, EndLoop(c, "send", "serve") PROVE Kernel'
  BY <1>22 DEF EndLoop
<1>23. ASSUME NEW t \in Conns \cup {Main}, Interrupt(t) PROVE Kernel'
  BY <1>23 DEF Interrupt
<1>24. ASSUME BeginLoop(Handler, "quit_lock", "quit") PROVE Kernel'
  BY <1>24 DEF BeginLoop
<1>25. ASSUME StepLoop(Handler, "quit", None) PROVE Kernel'
  BY <1>25 DEF StepLoop, WriteNext
<1>26. ASSUME EndLoop(Handler, "quit", "exit") PROVE Kernel'
  BY <1>26 DEF EndLoop
<1>27. ASSUME Exit PROVE Kernel'
  BY <1>27 DEF Exit
<1>28. ASSUME NEW c \in Conns, Disconnect(c) PROVE Kernel'
  BY <1>28 DEF Disconnect
<1>29. ASSUME Halt PROVE Kernel'
  BY <1>29 DEF Halt, vars
<1> QED
  <2>1. CASE MainStep
    BY <2>1, <1>2, <1>3, <1>4, <1>5, <1>6, <1>7
    DEF MainStep
  <2>2. ASSUME NEW c \in Conns, ThreadStep(c) PROVE Kernel'
    BY <2>2, <1>8, <1>10, <1>13, <1>15, <1>16, <1>17, <1>18, <1>19, <1>20,
       <1>21, <1>22
    DEF ThreadStep, SendMessage
  <2>3. ASSUME NEW c \in Conns, ClientStep(c) PROVE Kernel'
    BY <2>3, <1>1, <1>9, <1>11, <1>12, <1>14, <1>28
    DEF ClientStep
  <2>4. CASE BroadcastQuit \/ Exit \/ Halt
    BY <2>4, <1>24, <1>25, <1>26, <1>27, <1>29
    DEF BroadcastQuit
  <2> QED  BY <1>23, <2>1, <2>2, <2>3, <2>4 DEF Next

(* The table stands still while a broadcast holds the mutex.                *)
LEMMA BroadcastStep ==
  ASSUME TypeOK, Control, Memory, Kernel, BroadcastComplete, Next
  PROVE  BroadcastComplete'
<1> USE ServerAssumption
    DEF At, Goto, Lock, WriteSelf, Procs, MainLabels, ThreadLabels,
        HandlerLabels, TypeOK, Slots
<1>1. ASSUME NEW c \in Conns, Accept(c) PROVE BroadcastComplete'
  <2>1. \A s \in Slots : clients[s] # c
    BY <1>1 DEF Accept, Memory, Table, Serving
  <2>2. UNCHANGED <<clients, loop>> /\ pc'[Handler] = pc[Handler]
    BY <1>1 DEF Accept
  <2>3. \A s \in Slots : clients[s] # None =>
          /\ connfd'[clients[s]] = connfd[clients[s]]
          /\ sockets'[connfd[clients[s]]] \in {sockets[connfd[clients[s]]], c}
    BY <1>1, <2>1 DEF Accept, Memory, Table, Kernel, Descriptors, Serving
  <2>4. \A p \in Procs : pc'[p] \in {"send", "quit"} => pc[p] \in {"send", "quit"}
    BY <1>1 DEF Accept
  <2> QED  BY <2>1, <2>2, <2>3, <2>4, BroadcastFrame
<1>2. ASSUME Reject PROVE BroadcastComplete'
  BY <1>2, BroadcastFrame DEF Reject
<1>3. ASSUME Admit PROVE BroadcastComplete'
  BY <1>3, BroadcastFrame DEF Admit
<1>4. ASSUME QueueAddLock PROVE BroadcastComplete'
  BY <1>4, BroadcastFrame DEF QueueAddLock
<1>5. ASSUME QueueAdd PROVE BroadcastComplete'
  <2>1. mutex = Main /\ pc[Main] = "add" /\ Main \in Procs
    BY <1>5 DEF QueueAdd, Control, MutexHeld
  <2>2. \A p \in Procs : pc[p] \notin {"send", "quit"}
    BY <2>1 DEF Control, MutexHeld
  <2>3. \A p \in Procs : pc'[p] \notin {"send", "quit"}
    BY <1>5, <2>2 DEF QueueAdd
  <2> QED  BY <2>3 DEF BroadcastComplete
<1>6. ASSUME Create PROVE BroadcastComplete'
  BY <1>6, BroadcastFrame DEF Create
<1>7. ASSUME Wake PROVE BroadcastComplete'
  BY <1>7, BroadcastFrame DEF Wake
<1>8. ASSUME NEW c \in Conns, Start(c) PROVE BroadcastComplete'
  BY <1>8, BroadcastFrame DEF Start
<1>9. ASSUME NEW c \in Conns, Negotiate(c) PROVE BroadcastComplete'
  BY <1>9, BroadcastFrame DEF Negotiate
<1>10. ASSUME NEW c \in Conns, SendCanvas(c) PROVE BroadcastComplete'
  BY <1>10, BroadcastFrame DEF SendCanvas
<1>11. ASSUME NEW c \in Conns, Set(c) PROVE BroadcastComplete'
  BY <1>11, SetDoes, BroadcastFrame DEF SetEffect
<1>12. ASSUME NEW c \in Conns, CanvasRequest(c) PROVE BroadcastComplete'
  BY <1>12, BroadcastFrame DEF CanvasRequest
<1>13. ASSUME NEW c \in Conns, EndOfInput(c) PROVE BroadcastComplete'
  BY <1>13, BroadcastFrame DEF EndOfInput
<1>14. ASSUME NEW c \in Conns, Quit(c) PROVE BroadcastComplete'
  BY <1>14, BroadcastFrame DEF Quit
<1>15. ASSUME NEW c \in Conns, Close(c) PROVE BroadcastComplete'
  BY <1>15, BroadcastFrame DEF Close
<1>16. ASSUME NEW c \in Conns, QueueDeleteLock(c) PROVE BroadcastComplete'
  BY <1>16, BroadcastFrame DEF QueueDeleteLock
<1>17. ASSUME NEW c \in Conns, QueueDelete(c) PROVE BroadcastComplete'
  <2>1. mutex = c /\ pc[c] = "del" /\ c \in Procs
    BY <1>17 DEF QueueDelete, Control, MutexHeld
  <2>2. \A p \in Procs : pc[p] \notin {"send", "quit"}
    BY <2>1 DEF Control, MutexHeld
  <2>3. \A p \in Procs : pc'[p] \notin {"send", "quit"}
    BY <1>17, <2>2 DEF QueueDelete
  <2> QED  BY <2>3 DEF BroadcastComplete
<1>18. ASSUME NEW c \in Conns, Free(c) PROVE BroadcastComplete'
  BY <1>18, BroadcastFrame DEF Free
<1>19. ASSUME NEW c \in Conns, Uncount(c) PROVE BroadcastComplete'
  BY <1>19, BroadcastFrame DEF Uncount
<1>20. ASSUME NEW c \in Conns, BeginLoop(c, "send_lock", "send")
       PROVE  BroadcastComplete'
  <2>1. loop'.next = 1
    BY <1>20 DEF BeginLoop, IdleLoop
  <2> QED  BY <2>1 DEF BroadcastComplete, Slots
<1>21. ASSUME NEW c \in Conns, StepLoop(c, "send", c) PROVE BroadcastComplete'
  BY <1>21, StepKeepsBroadcast
<1>22. ASSUME NEW c \in Conns, EndLoop(c, "send", "serve")
       PROVE  BroadcastComplete'
  <2>1. loop'.next = 1
    BY <1>22 DEF EndLoop, IdleLoop
  <2> QED  BY <2>1 DEF BroadcastComplete, Slots
<1>23. ASSUME NEW t \in Conns \cup {Main}, Interrupt(t)
       PROVE  BroadcastComplete'
  BY <1>23, BroadcastFrame DEF Interrupt
<1>24. ASSUME BeginLoop(Handler, "quit_lock", "quit") PROVE BroadcastComplete'
  <2>1. loop'.next = 1
    BY <1>24 DEF BeginLoop, IdleLoop
  <2> QED  BY <2>1 DEF BroadcastComplete, Slots
<1>25. ASSUME StepLoop(Handler, "quit", None) PROVE BroadcastComplete'
  BY <1>25, StepKeepsBroadcast
<1>26. ASSUME EndLoop(Handler, "quit", "exit") PROVE BroadcastComplete'
  <2>1. loop'.next = 1
    BY <1>26 DEF EndLoop, IdleLoop
  <2> QED  BY <2>1 DEF BroadcastComplete, Slots
<1>27. ASSUME Exit PROVE BroadcastComplete'
  BY <1>27, BroadcastFrame DEF Exit
<1>28. ASSUME NEW c \in Conns, Disconnect(c) PROVE BroadcastComplete'
  BY <1>28, BroadcastFrame DEF Disconnect
<1>29. ASSUME Halt PROVE BroadcastComplete'
  BY <1>29 DEF Halt, vars, BroadcastComplete
<1> QED
  <2>1. CASE MainStep
    BY <2>1, <1>2, <1>3, <1>4, <1>5, <1>6, <1>7
    DEF MainStep
  <2>2. ASSUME NEW c \in Conns, ThreadStep(c) PROVE BroadcastComplete'
    BY <2>2, <1>8, <1>10, <1>13, <1>15, <1>16, <1>17, <1>18, <1>19, <1>20,
       <1>21, <1>22
    DEF ThreadStep, SendMessage
  <2>3. ASSUME NEW c \in Conns, ClientStep(c) PROVE BroadcastComplete'
    BY <2>3, <1>1, <1>9, <1>11, <1>12, <1>14, <1>28
    DEF ClientStep
  <2>4. CASE BroadcastQuit \/ Exit \/ Halt
    BY <2>4, <1>24, <1>25, <1>26, <1>27, <1>29
    DEF BroadcastQuit
  <2> QED  BY <1>23, <2>1, <2>2, <2>3, <2>4 DEF Next

-----------------------------------------------------------------------------
(* The invariant holds of every behaviour. *)
LEMMA Start_IInv == Init => IInv
<1> SUFFICES ASSUME Init PROVE IInv
  OBVIOUS
<1> USE ServerAssumption DEF Init, IdleLoop
<1>1. TypeOK
  BY DEF TypeOK, Procs, Labels, MainLabels, ThreadLabels, HandlerLabels, Slots
<1>2. Control
  BY DEF Control, Places, Admission, Admitting, MutexHeld, Procs, MainLabels,
         HandlerLabels
<1>3. Memory
  BY DEF Memory, Table, Heap, OneSlotEach, ThreadLabels, Procs
<1>4. Kernel
  BY DEF Kernel, Descriptors, OwnDescriptor, Serving, Procs
<1>5. CountedConns = {}
  BY DEF CountedConns, Counted, ThreadLabels, Procs
<1>6. Count
  BY <1>5, FS_EmptySet DEF Count
<1>7. BroadcastComplete
  BY DEF BroadcastComplete, Procs
<1> QED  BY <1>1, <1>2, <1>3, <1>4, <1>6, <1>7 DEF IInv

(* Every step of the program keeps the invariant: the lemmas above, joined. *)
LEMMA Step_IInv == ASSUME IInv, Next PROVE IInv'
<1>1. Count'
  BY CountStep DEF IInv
<1>2. cliCount' \in Nat
  <2>1. IsFiniteSet(CountedConns')
    BY ServerAssumption, FS_Subset DEF CountedConns
  <2> QED  BY <1>1, <2>1, FS_CardinalityType DEF Count
<1> QED
  BY <1>1, <1>2, TypeStep, ControlStep, MemoryStep, KernelStep, BroadcastStep
  DEF IInv

(* So does a step that changes nothing. *)
LEMMA Stutter_IInv == ASSUME IInv, UNCHANGED vars PROVE IInv'
<1> USE DEF IInv, vars
<1>1. TypeOK'
  BY DEF TypeOK
<1>2. Control'
  BY DEF Control, Places, Admission, MutexHeld
<1>3. Memory'
  BY DEF Memory, Table, Heap, OneSlotEach
<1>4. Kernel'
  BY DEF Kernel, Descriptors, OwnDescriptor
<1>5. Count'
  BY DEF Count, CountedConns
<1>6. BroadcastComplete'
  BY DEF BroadcastComplete, LoopDone
<1> QED  BY <1>1, <1>2, <1>3, <1>4, <1>5, <1>6

(* The inductive invariant, from which the properties follow. *)
THEOREM ServerInvariant == Spec => []IInv
<1>1. IInv /\ [Next]_vars => IInv'
  BY Step_IInv, Stutter_IInv
<1> QED  BY <1>1, Start_IInv, PTL DEF Spec

(* Every variable keeps its type: above all cli_count, an unsigned that     *)
(* main() adds 1 to, never passes below 0 (server.c:152,244,326).           *)
THEOREM ServerTypeOK == Spec => []TypeOK
<1>1. IInv => TypeOK
  BY DEF IInv
<1> QED  BY <1>1, ServerInvariant, PTL

(* The loops over clients[] (server.c:49-126) never meet a client_t that    *)
(* its thread has freed, for any number of connections and slots.           *)
THEOREM ServerNoUseAfterFree == Spec => []NoUseAfterFree
<1>1. IInv => NoUseAfterFree
  <2> SUFFICES ASSUME IInv, NEW s \in Slots, clients[s] # None
               PROVE  clients[s] \in allocated
    BY DEF NoUseAfterFree, Registered
  <2>1. clients[s] \in Conns
    BY DEF IInv, TypeOK
  <2>2. \/ pc[clients[s]] \in Serving \cup {"close", "del_lock", "del"}
        \/ pc[clients[s]] = "accepted" /\ pc[Main] = "create"
    BY DEF IInv, Memory, Table
  <2> QED  BY <2>1, <2>2 DEF IInv, Memory, Heap, Serving, ThreadLabels, Admitting
<1> QED  BY <1>1, ServerInvariant, PTL

(* queue_add() and queue_delete() keep each client in one slot at most.     *)
THEOREM ServerOneSlotEach == Spec => []OneSlotEach
<1>1. IInv => OneSlotEach
  BY DEF IInv, Memory
<1> QED  BY <1>1, ServerInvariant, PTL

(* Up to its close() a thread's descriptor is its own socket, however the   *)
(* kernel hands the numbers out again.                                      *)
THEOREM ServerOwnDescriptor == Spec => []OwnDescriptor
<1>1. IInv => OwnDescriptor
  BY DEF IInv, Kernel
<1> QED  BY <1>1, ServerInvariant, PTL

(* What send_message() and broadcast_message() have passed they have        *)
(* written to: nobody joins, leaves or changes slots behind the loop.       *)
THEOREM ServerBroadcastComplete == Spec => []BroadcastComplete
<1>1. IInv => BroadcastComplete
  BY DEF IInv
<1> QED  BY <1>1, ServerInvariant, PTL

(* main() turns a connection away only when cli_count says the truth: that  *)
(* MaxClients - 1 threads are between its increment and its decrement.      *)
THEOREM ServerNoFalseReject == Spec => NoFalseReject
<1>1. IInv /\ [Next]_vars =>
        [Reject => Cardinality(CountedConns) = MaxClients - 1]_vars
  <2> SUFFICES ASSUME IInv, Reject
               PROVE  Cardinality(CountedConns) = MaxClients - 1
    OBVIOUS
  <2>1. cliCount + 1 = MaxClients /\ cliCount \in Nat
    BY DEF Reject, MaxClientsReached, IInv, TypeOK
  <2>2. cliCount = Cardinality(CountedConns)
    BY DEF IInv, Count
  <2> QED  BY <2>1, <2>2, ServerAssumption
<1> QED  BY <1>1, ServerInvariant, PTL DEF Spec, NoFalseReject, CountedConns

-----------------------------------------------------------------------------
(* ClientTable is implemented *)

(* A socket that is open belongs to a connection in service, under the      *)
(* number that connection keeps: the converse of OwnDescriptor.             *)
InService == Serving \cup {"accepted", "close"}
OpenInService ==
  \A f \in FDs : sockets[f] # None =>
    pc[sockets[f]] \in InService /\ connfd[sockets[f]] = f

(* No socket or number changes, and nobody leaves service. *)
Still == /\ UNCHANGED <<sockets, connfd>>
         /\ \A c \in Conns : pc[c] \in InService => pc'[c] \in InService

(* It holds on while nothing of the kind happens.                           *)
LEMMA StillOpen == ASSUME TypeOK, OpenInService, Still PROVE OpenInService'
<1>1. \A f \in FDs : sockets[f] # None => sockets[f] \in Conns
  BY DEF TypeOK
<1> QED  BY <1>1 DEF OpenInService, Still

(* Sockets are opened for new connections and closed by their own threads.  *)
LEMMA OpenStep ==
  ASSUME TypeOK, Control, Kernel, OpenInService, Next
  PROVE  OpenInService'
<1> USE ServerAssumption
    DEF At, Goto, Lock, WriteSelf, Procs, TypeOK, Control, Places, Admission,
        Admitting
<1>1. ASSUME NEW c \in Conns, Accept(c) PROVE OpenInService'
  <2>1. PICK f \in FDs : /\ sockets[f] = None
                         /\ sockets' = [sockets EXCEPT ![f] = c]
                         /\ connfd' = [connfd EXCEPT ![c] = f]
    BY <1>1 DEF Accept
  <2>2. pc[c] = "absent" /\ pc' = [pc EXCEPT ![Main] = "check", ![c] = "accepted"]
    BY <1>1 DEF Accept
  <2>3. sockets'[f] = c /\ connfd'[c] = f /\ pc'[c] \in InService
    BY <2>1, <2>2 DEF InService
  <2>4. ASSUME NEW g \in FDs, g # f, sockets'[g] # None
        PROVE  pc'[sockets'[g]] \in InService /\ connfd'[sockets'[g]] = g
    <3>1. sockets'[g] = sockets[g] /\ sockets[g] \in Conns
      BY <2>1, <2>4
    <3>2. pc[sockets[g]] \in InService /\ connfd[sockets[g]] = g
      BY <2>4, <3>1 DEF OpenInService
    <3>3. sockets[g] # c /\ sockets[g] # Main
      BY <2>2, <3>1, <3>2 DEF InService, Serving
    <3>4. pc'[sockets[g]] = pc[sockets[g]] /\ connfd'[sockets[g]] = connfd[sockets[g]]
      BY <2>1, <2>2, <3>1, <3>3
    <3> QED
      BY <3>1, <3>2, <3>4
  <2> QED
    BY <2>3, <2>4 DEF OpenInService
<1>2. ASSUME Reject PROVE OpenInService'
  <2> DEFINE a == arriving
  <2>1. a \in Conns /\ connfd[a] \in FDs /\ sockets[connfd[a]] = a
    BY <1>2 DEF Reject, Kernel, Descriptors, OwnDescriptor
  <2>2. /\ sockets' = [sockets EXCEPT ![connfd[a]] = None]
        /\ pc' = [pc EXCEPT ![Main] = "accept", ![a] = "done"]
        /\ connfd' = connfd
    BY <1>2 DEF Reject
  <2> HIDE DEF a
  <2>3. \A f \in FDs : sockets'[f] # None =>
          sockets'[f] = sockets[f] /\ sockets[f] \in Conns \ {a, Main}
    BY <2>1, <2>2 DEF OpenInService
  <2>4. \A c \in Conns \ {a, Main} : pc'[c] = pc[c]
    BY <2>2
  <2> QED
    BY <2>2, <2>3, <2>4 DEF OpenInService
<1>3. ASSUME Admit PROVE Still
  BY <1>3 DEF Admit, InService, Serving, Still
<1>4. ASSUME QueueAddLock PROVE Still
  BY <1>4 DEF QueueAddLock, InService, Serving, Still
<1>5. ASSUME QueueAdd PROVE Still
  BY <1>5 DEF QueueAdd, InService, Serving, Still
<1>6. ASSUME Create PROVE Still
  BY <1>6 DEF Create, InService, Serving, Still
<1>7. ASSUME Wake PROVE Still
  BY <1>7 DEF Wake, InService, Serving, Still
<1>8. ASSUME NEW c \in Conns, Start(c) PROVE Still
  BY <1>8 DEF Start, InService, Serving, Still
<1>9. ASSUME NEW c \in Conns, Negotiate(c) PROVE Still
  BY <1>9 DEF Negotiate, InService, Serving, Still
<1>10. ASSUME NEW c \in Conns, SendCanvas(c) PROVE Still
  BY <1>10 DEF SendCanvas, InService, Serving, Still
<1>11. ASSUME NEW c \in Conns, Set(c) PROVE Still
  BY <1>11, SetDoes DEF SetEffect, InService, Serving, Still
<1>12. ASSUME NEW c \in Conns, CanvasRequest(c) PROVE Still
  BY <1>12 DEF CanvasRequest, InService, Serving, Still
<1>13. ASSUME NEW c \in Conns, EndOfInput(c) PROVE Still
  BY <1>13 DEF EndOfInput, InService, Serving, Still
<1>14. ASSUME NEW c \in Conns, Quit(c) PROVE Still
  BY <1>14 DEF Quit, InService, Serving, Still
<1>15. ASSUME NEW c \in Conns, Close(c) PROVE OpenInService'
  <2>1. connfd[c] \in FDs /\ sockets[connfd[c]] = c
    BY <1>15 DEF Close, Kernel, Descriptors, OwnDescriptor
  <2>2. /\ sockets' = [sockets EXCEPT ![connfd[c]] = None]
        /\ pc' = [pc EXCEPT ![c] = "del_lock"]
        /\ connfd' = connfd
    BY <1>15 DEF Close
  <2>3. \A f \in FDs : sockets'[f] # None =>
          sockets'[f] = sockets[f] /\ sockets[f] \in Conns \ {c}
    BY <2>1, <2>2 DEF OpenInService
  <2>4. \A d \in Conns \ {c} : pc'[d] = pc[d]
    BY <2>2
  <2> QED
    BY <2>2, <2>3, <2>4 DEF OpenInService
<1>16. ASSUME NEW c \in Conns, QueueDeleteLock(c) PROVE Still
  BY <1>16 DEF QueueDeleteLock, InService, Serving, Still
<1>17. ASSUME NEW c \in Conns, QueueDelete(c) PROVE Still
  BY <1>17 DEF QueueDelete, InService, Serving, Still
<1>18. ASSUME NEW c \in Conns, Free(c) PROVE Still
  BY <1>18 DEF Free, InService, Serving, Still
<1>19. ASSUME NEW c \in Conns, Uncount(c) PROVE Still
  BY <1>19 DEF Uncount, InService, Serving, Still
<1>20. ASSUME NEW c \in Conns, BeginLoop(c, "send_lock", "send") PROVE Still
  BY <1>20 DEF BeginLoop, InService, Serving, Still
<1>21. ASSUME NEW c \in Conns, StepLoop(c, "send", c) PROVE Still
  BY <1>21 DEF StepLoop, WriteNext, InService, Serving, Still
<1>22. ASSUME NEW c \in Conns, EndLoop(c, "send", "serve") PROVE Still
  BY <1>22 DEF EndLoop, InService, Serving, Still
<1>23. ASSUME NEW t \in Conns \cup {Main}, Interrupt(t) PROVE Still
  BY <1>23 DEF Interrupt, InService, Serving, Still
<1>24. ASSUME BeginLoop(Handler, "quit_lock", "quit") PROVE Still
  BY <1>24 DEF BeginLoop, InService, Serving, Still
<1>25. ASSUME StepLoop(Handler, "quit", None) PROVE Still
  BY <1>25 DEF StepLoop, WriteNext, InService, Serving, Still
<1>26. ASSUME EndLoop(Handler, "quit", "exit") PROVE Still
  BY <1>26 DEF EndLoop, InService, Serving, Still
<1>27. ASSUME Exit PROVE Still
  BY <1>27 DEF Exit, InService, Serving, Still
<1>28. ASSUME NEW c \in Conns, Disconnect(c) PROVE Still
  BY <1>28 DEF Disconnect, InService, Serving, Still
<1>29. ASSUME Halt PROVE Still
  BY <1>29 DEF Halt, vars, InService, Serving, Still
<1>30. Still => OpenInService'
  <2> HIDE DEF TypeOK
  <2> QED  BY StillOpen
<1> QED
  <2>1. CASE MainStep
    BY <2>1, <1>30, <1>2, <1>3, <1>4, <1>5, <1>6, <1>7
    DEF MainStep
  <2>2. ASSUME NEW c \in Conns, ThreadStep(c) PROVE OpenInService'
    BY <2>2, <1>30, <1>8, <1>10, <1>13, <1>15, <1>16, <1>17, <1>18, <1>19, <1>20,
       <1>21, <1>22
    DEF ThreadStep, SendMessage
  <2>3. ASSUME NEW c \in Conns, ClientStep(c) PROVE OpenInService'
    BY <2>3, <1>30, <1>1, <1>9, <1>11, <1>12, <1>14, <1>28
    DEF ClientStep
  <2>4. CASE BroadcastQuit \/ Exit \/ Halt
    BY <2>4, <1>30, <1>24, <1>25, <1>26, <1>27, <1>29
    DEF BroadcastQuit
  <2> QED  BY <1>30, <1>23, <2>1, <2>2, <2>3, <2>4 DEF Next

-----------------------------------------------------------------------------
(* Steps of the server as steps of the table *)

TableStep == Membership!Next \/ UNCHANGED Membership!vars

(* Nothing the table knows of changes. *)
Quiet ==
  /\ UNCHANGED <<clients, peerDown, loop>>
  /\ Sender' = Sender
  /\ \A c \in Conns : /\ pc'[c] \in Closed <=> pc[c] \in Closed
                      /\ pc'[c] \in {"del_lock", "del"} <=> pc[c] \in {"del_lock", "del"}

(* Such a step is none of the table.                                        *)
LEMMA QuietIsStutter == ASSUME Quiet PROVE TableStep
BY DEF Quiet, TableStep, Membership!vars, Registered, Away, Gone

(* A member the loop has passed over was written to, or has closed its      *)
(* socket.                                                                  *)
LEMMA AllReached ==
  ASSUME TypeOK, Memory, Kernel, BroadcastComplete, LoopDone,
         NEW p \in Conns \cup {Handler}, pc[p] \in {"send", "quit"}
  PROVE  loop.broke \/ Registered \ {p} \subseteq loop.wrote \cup Away
<1> SUFFICES ASSUME ~loop.broke, NEW s \in Slots, clients[s] \notin {None, p}
             PROVE  clients[s] \in loop.wrote \cup Away
  BY DEF Registered
<1>1. s < loop.next
  BY ServerAssumption DEF LoopDone, Slots, TypeOK
<1>2. clients[s] \in Conns
  BY DEF TypeOK
<1>3. sockets[connfd[clients[s]]] = clients[s] => clients[s] \in loop.wrote
  BY <1>1 DEF BroadcastComplete, Procs
<1>4. sockets[connfd[clients[s]]] # clients[s] => pc[clients[s]] \in {"del_lock", "del"}
  BY <1>2 DEF Kernel, OwnDescriptor, Memory, Table, Serving
<1> QED
  BY <1>2, <1>3, <1>4 DEF Away, Closed

(* A round of a write loop reaches a connection, is cut short, or passes a  *)
(* slot by: the write that fails was one to a member that is away.          *)
LEMMA WriteIsStep ==
  ASSUME IInv, OpenInService, Sender # None, NEW skip, WriteNext(skip),
         UNCHANGED <<Registered, Away, Gone, Sender>>
  PROVE  TableStep
<1> DEFINE d == clients[loop.next]
           owner == sockets[connfd[d]]
<1>1. loop.next \in Slots /\ ~loop.broke
  BY ServerAssumption DEF WriteNext, LoopDone, IInv, TypeOK, Slots
<1>2. CASE d \in {None, skip}
  <2>1. loop' = [loop EXCEPT !.next = @ + 1]
    BY <1>2 DEF WriteNext
  <2>2. loop'.wrote = loop.wrote /\ loop'.broke = loop.broke
    BY <2>1 DEF IInv, TypeOK
  <2> QED
    BY <2>2 DEF TableStep, Membership!vars
<1>3. CASE d \notin {None, skip}
  <2>1. d \in Conns /\ d \in Registered
    BY <1>1, <1>3 DEF IInv, TypeOK, Registered
  <2>2. connfd[d] \in FDs
    BY <1>1, <1>3, <2>1 DEF IInv, Memory, Table, Kernel, Descriptors, Serving
  <2>3. owner \in Conns \cup {None}
    BY <2>2 DEF IInv, TypeOK
  <2>4. owner # None => pc[owner] \in InService
    BY <2>2 DEF OpenInService
  <2>5. CASE /\ owner # None
             /\ loop' = [loop EXCEPT !.next = @ + 1, !.wrote = @ \cup {owner}]
    <3>1. loop'.wrote = loop.wrote \cup {owner} /\ loop'.broke = loop.broke
      BY <2>5 DEF IInv, TypeOK
    <3>2. owner \notin Gone
      BY <2>4, <2>5 DEF Gone, Closed, InService, Serving
    <3>3. Membership!Reach(owner)
      BY <1>1, <3>1, <3>2 DEF Membership!Reach
    <3> QED
      BY <2>3, <2>5, <3>3 DEF TableStep, Membership!Next
  <2>6. CASE owner \in {None} \cup peerDown /\ loop' = [loop EXCEPT !.broke = TRUE]
    <3>1. loop'.wrote = loop.wrote /\ loop'.broke
      BY <2>6 DEF IInv, TypeOK
    <3>2. d \in Away
      <4>1. CASE owner = d
        BY <2>1, <2>6, <4>1, ServerAssumption DEF Away
      <4>2. CASE owner # d
        BY <1>1, <1>3, <2>1, <4>2 DEF Away, Closed, IInv, Kernel, OwnDescriptor,
                                      Memory, Table, Serving
      <4> QED
        BY <4>1, <4>2
    <3>3. Membership!Cut
      BY <2>1, <3>1, <3>2 DEF Membership!Cut, IInv, TypeOK
    <3> QED
      BY <3>3 DEF TableStep, Membership!Next
  <2> QED
    BY <1>3, <2>5, <2>6 DEF WriteNext
<1> QED
  BY <1>2, <1>3

(* Every step of the server is a step of the table, or none.                *)
LEMMA EveryStep ==
  ASSUME IInv, OpenInService, Next
  PROVE  TableStep
<1> USE ServerAssumption
    DEF At, Goto, Lock, WriteSelf, Procs, TypeOK, Control, Places, Admission,
        Admitting, MutexHeld, IInv
<1>1. ASSUME NEW c \in Conns, Accept(c) PROVE Quiet
  BY <1>1 DEF Accept, Quiet, Sender, Closed
<1>2. ASSUME Reject PROVE TableStep
  <2>1. /\ pc[Main] = "check" /\ arriving \in Conns /\ pc[arriving] = "accepted"
        /\ pc' = [pc EXCEPT ![Main] = "accept", ![arriving] = "done"]
        /\ UNCHANGED <<clients, mutex, peerDown, loop>>
    BY <1>2 DEF Reject
  <2>2. Sender' = Sender
    BY <2>1 DEF Sender
  <2>3. pc'[arriving] = "done" /\ \A c \in Conns \ {arriving} : pc'[c] = pc[c]
    BY <2>1
  <2>4. Away' = Away \cup {arriving} /\ Gone' = Gone \cup {arriving} /\ arriving \notin Gone
    BY <2>1, <2>3 DEF Away, Gone, Closed
  <2>5. Registered' = Registered /\ arriving \notin Registered
    BY <2>1 DEF Registered, Memory, Table, Serving
  <2>6. Membership!TurnAway(arriving)
    BY <2>1, <2>2, <2>4, <2>5 DEF Membership!TurnAway
  <2> QED
    BY <2>1, <2>6 DEF TableStep, Membership!Next
<1>3. ASSUME Admit PROVE Quiet
  BY <1>3 DEF Admit, Quiet, Sender, Closed
<1>4. ASSUME QueueAddLock PROVE Quiet
  BY <1>4 DEF QueueAddLock, Quiet, Sender, Closed
<1>5. ASSUME QueueAdd PROVE TableStep
  <2>1. /\ pc[Main] = "add" /\ mutex = Main /\ mutex' = None /\ Main \in Procs
        /\ pc' = [pc EXCEPT ![Main] = "create"]
        /\ UNCHANGED <<peerDown, loop>>
    BY <1>5 DEF QueueAdd
  <2>2. arriving \in Conns /\ pc[arriving] = "accepted"
    BY <2>1
  <2>3. Sender = None /\ Sender' = None
    BY <2>1 DEF Sender
  <2>4. UNCHANGED <<Away, Gone>>
    <3>1. \A c \in Conns : pc'[c] = pc[c]
      BY <2>1
    <3> QED
      BY <2>1, <3>1 DEF Away, Gone
  <2>5. CASE UNCHANGED clients
    BY <2>1, <2>3, <2>4, <2>5 DEF TableStep, Membership!vars, Registered
  <2>6. CASE \E s \in Slots : /\ FirstSlot(s, None)
                              /\ clients' = [clients EXCEPT ![s] = arriving]
    <3>1. Registered' = Registered \cup {arriving}
      BY <2>2, <2>6 DEF Registered, FirstSlot
    <3>2. arriving \notin Registered
      BY <2>1, <2>2 DEF Registered, Memory, Table, Serving
    <3>3. arriving \notin Gone
      BY <2>2 DEF Gone, Closed
    <3>4. Membership!Join(arriving)
      BY <2>1, <2>3, <2>4, <3>1, <3>2, <3>3 DEF Membership!Join
    <3> QED
      BY <2>2, <3>4 DEF TableStep, Membership!Next
  <2> QED
    BY <1>5, <2>5, <2>6 DEF QueueAdd
<1>6. ASSUME Create PROVE Quiet
  BY <1>6 DEF Create, Quiet, Sender, Closed
<1>7. ASSUME Wake PROVE Quiet
  BY <1>7 DEF Wake, Quiet, Sender, Closed
<1>8. ASSUME NEW c \in Conns, Start(c) PROVE Quiet
  BY <1>8 DEF Start, Quiet, Sender, Closed
<1>9. ASSUME NEW c \in Conns, Negotiate(c) PROVE Quiet
  BY <1>9 DEF Negotiate, Quiet, Sender, Closed
<1>10. ASSUME NEW c \in Conns, SendCanvas(c) PROVE Quiet
  BY <1>10 DEF SendCanvas, Quiet, Sender, Closed
<1>11. ASSUME NEW c \in Conns, Set(c) PROVE Quiet
  BY <1>11, SetDoes DEF SetEffect, Quiet, Sender, Closed
<1>12. ASSUME NEW c \in Conns, CanvasRequest(c) PROVE Quiet
  BY <1>12 DEF CanvasRequest, Quiet, Sender, Closed
<1>13. ASSUME NEW c \in Conns, EndOfInput(c) PROVE Quiet
  BY <1>13 DEF EndOfInput, Quiet, Sender, Closed
<1>14. ASSUME NEW c \in Conns, Quit(c) PROVE Quiet
  BY <1>14 DEF Quit, Quiet, Sender, Closed
<1>15. ASSUME NEW c \in Conns, Close(c) PROVE TableStep
  <2>1. /\ pc[c] = "close" /\ pc' = [pc EXCEPT ![c] = "del_lock"]
        /\ UNCHANGED <<clients, mutex, peerDown, loop>>
    BY <1>15 DEF Close
  <2>2. pc'[c] = "del_lock" /\ \A d \in Conns \ {c} : pc'[d] = pc[d]
    BY <2>1
  <2>3. Away' = Away \cup {c} /\ Gone' = Gone
    BY <2>1, <2>2 DEF Away, Gone, Closed
  <2>4. Sender' = Sender /\ Registered' = Registered
    BY <2>1 DEF Sender, Registered
  <2> QED
    BY <2>1, <2>3, <2>4 DEF TableStep, Membership!Next, Membership!GoAway
<1>16. ASSUME NEW c \in Conns, QueueDeleteLock(c) PROVE Quiet
  BY <1>16 DEF QueueDeleteLock, Quiet, Sender, Closed
<1>17. ASSUME NEW c \in Conns, QueueDelete(c) PROVE TableStep
  <2>1. /\ pc[c] = "del" /\ mutex = c /\ mutex' = None
        /\ pc' = [pc EXCEPT ![c] = "free"]
        /\ clients' = [s \in Slots |-> IF FirstSlot(s, c) THEN None ELSE clients[s]]
        /\ UNCHANGED <<peerDown, loop>>
    BY <1>17 DEF QueueDelete
  <2>2. pc'[c] = "free" /\ \A d \in Conns \ {c} : pc'[d] = pc[d]
    BY <2>1
  <2>3. Away' = Away /\ Gone' = Gone \cup {c} /\ c \in Away \ Gone
    BY <2>1, <2>2 DEF Away, Gone, Closed
  <2>4. Sender = None /\ Sender' = None
    BY <2>1 DEF Sender
  <2>5. \A s \in Slots : FirstSlot(s, c) <=> clients[s] = c
    <3>1. \A s, t \in Slots : clients[s] = c /\ clients[t] = c => s = t /\ ~(t < s)
      BY DEF Memory, OneSlotEach, Slots
    <3> QED
      BY <3>1 DEF FirstSlot
  <2>6. Registered' = Registered \ {c}
    BY <2>1, <2>5 DEF Registered
  <2>7. Membership!Leave(c)
    BY <2>1, <2>3, <2>4, <2>6 DEF Membership!Leave
  <2> QED
    BY <2>7 DEF TableStep, Membership!Next
<1>18. ASSUME NEW c \in Conns, Free(c) PROVE Quiet
  BY <1>18 DEF Free, Quiet, Sender, Closed
<1>19. ASSUME NEW c \in Conns, Uncount(c) PROVE Quiet
  BY <1>19 DEF Uncount, Quiet, Sender, Closed
<1>20. ASSUME NEW c \in Conns, BeginLoop(c, "send_lock", "send") PROVE TableStep
  <2>1. /\ pc[c] = "send_lock" /\ mutex = None /\ mutex' = c /\ loop' = IdleLoop
        /\ pc' = [pc EXCEPT ![c] = "send"]
        /\ UNCHANGED <<clients, peerDown>>
    BY <1>20 DEF BeginLoop
  <2>2. pc'[c] = "send" /\ Sender = None /\ Sender' = c
    BY <2>1 DEF Sender
  <2>3. UNCHANGED <<Away, Gone, Registered>> /\ c \notin Gone
    BY <2>1 DEF Away, Gone, Registered, Closed
  <2>4. Membership!Begin(c)
    BY <2>1, <2>2, <2>3 DEF Membership!Begin, IdleLoop
  <2> QED
    BY <2>4 DEF TableStep, Membership!Next
<1>21. ASSUME NEW c \in Conns, StepLoop(c, "send", c) PROVE TableStep
  <2>1. pc[c] = "send" /\ mutex = c /\ Sender = c /\ WriteNext(c)
    BY <1>21 DEF StepLoop, Sender
  <2>2. UNCHANGED <<pc, clients, mutex, peerDown>>
    BY <1>21 DEF StepLoop
  <2>3. UNCHANGED <<Registered, Away, Gone, Sender>>
    BY <2>2 DEF Registered, Away, Gone, Sender
  <2> QED
    BY <2>1, <2>3, WriteIsStep
<1>22. ASSUME NEW c \in Conns, EndLoop(c, "send", "serve") PROVE TableStep
  <2>1. /\ pc[c] = "send" /\ mutex = c /\ LoopDone /\ mutex' = None
        /\ loop' = IdleLoop /\ pc' = [pc EXCEPT ![c] = "serve"]
        /\ UNCHANGED <<clients, peerDown>>
    BY <1>22 DEF EndLoop
  <2>2. Sender = c /\ Sender' = None
    BY <2>1 DEF Sender
  <2>3. UNCHANGED <<Away, Gone, Registered>>
    BY <2>1 DEF Away, Gone, Registered, Closed
  <2>4. loop.broke \/ Registered \ {c} \subseteq loop.wrote \cup Away
    BY <2>1, AllReached
  <2>5. Membership!End
    BY <2>1, <2>2, <2>3, <2>4 DEF Membership!End, IdleLoop
  <2> QED
    BY <2>5 DEF TableStep, Membership!Next
<1>23. ASSUME NEW t \in Conns \cup {Main}, Interrupt(t) PROVE Quiet
  BY <1>23 DEF Interrupt, Quiet, Sender, Closed
<1>24. ASSUME BeginLoop(Handler, "quit_lock", "quit") PROVE TableStep
  <2>1. /\ pc[Handler] = "quit_lock" /\ mutex = None /\ mutex' = Handler /\ loop' = IdleLoop
        /\ pc' = [pc EXCEPT ![Handler] = "quit"]
        /\ UNCHANGED <<clients, peerDown>>
    BY <1>24 DEF BeginLoop
  <2>2. pc'[Handler] = "quit" /\ Sender = None /\ Sender' = Handler
    BY <2>1 DEF Sender
  <2>3. UNCHANGED <<Away, Gone, Registered>> /\ Handler \notin Gone
    BY <2>1 DEF Away, Gone, Registered, Closed
  <2>4. Membership!Begin(Handler)
    BY <2>1, <2>2, <2>3 DEF Membership!Begin, IdleLoop
  <2> QED
    BY <2>4 DEF TableStep, Membership!Next
<1>25. ASSUME StepLoop(Handler, "quit", None) PROVE TableStep
  <2>1. pc[Handler] = "quit" /\ mutex = Handler /\ Sender = Handler /\ WriteNext(None)
    BY <1>25 DEF StepLoop, Sender
  <2>2. UNCHANGED <<pc, clients, mutex, peerDown>>
    BY <1>25 DEF StepLoop
  <2>3. UNCHANGED <<Registered, Away, Gone, Sender>>
    BY <2>2 DEF Registered, Away, Gone, Sender
  <2> QED
    BY <2>1, <2>3, WriteIsStep
<1>26. ASSUME EndLoop(Handler, "quit", "exit") PROVE TableStep
  <2>1. /\ pc[Handler] = "quit" /\ mutex = Handler /\ LoopDone /\ mutex' = None
        /\ loop' = IdleLoop /\ pc' = [pc EXCEPT ![Handler] = "exit"]
        /\ UNCHANGED <<clients, peerDown>>
    BY <1>26 DEF EndLoop
  <2>2. Sender = Handler /\ Sender' = None
    BY <2>1 DEF Sender
  <2>3. UNCHANGED <<Away, Gone, Registered>>
    BY <2>1 DEF Away, Gone, Registered, Closed
  <2>4. loop.broke \/ Registered \ {Handler} \subseteq loop.wrote \cup Away
    BY <2>1, AllReached
  <2>5. Membership!End
    BY <2>1, <2>2, <2>3, <2>4 DEF Membership!End, IdleLoop
  <2> QED
    BY <2>5 DEF TableStep, Membership!Next
<1>27. ASSUME Exit PROVE Quiet
  BY <1>27 DEF Exit, Quiet, Sender, Closed
<1>28. ASSUME NEW c \in Conns, Disconnect(c) PROVE TableStep
  <2>1. peerDown' = peerDown \cup {c} /\ UNCHANGED <<pc, clients, mutex, loop>>
    BY <1>28 DEF Disconnect
  <2>2. Away' = Away \cup {c} /\ Gone' = Gone
    BY <2>1 DEF Away, Gone
  <2>3. Sender' = Sender /\ Registered' = Registered
    BY <2>1 DEF Sender, Registered
  <2> QED
    BY <2>1, <2>2, <2>3 DEF TableStep, Membership!Next, Membership!GoAway
<1>29. ASSUME Halt PROVE Quiet
  BY <1>29 DEF Halt, vars, Quiet, Sender, Closed
<1>30. Quiet => TableStep
  BY QuietIsStutter
<1> QED
  <2>1. CASE MainStep
    BY <2>1, <1>30, <1>2, <1>3, <1>4, <1>5, <1>6, <1>7
    DEF MainStep
  <2>2. ASSUME NEW c \in Conns, ThreadStep(c) PROVE TableStep
    BY <2>2, <1>30, <1>8, <1>10, <1>13, <1>15, <1>16, <1>17, <1>18, <1>19, <1>20,
       <1>21, <1>22
    DEF ThreadStep, SendMessage
  <2>3. ASSUME NEW c \in Conns, ClientStep(c) PROVE TableStep
    BY <2>3, <1>30, <1>1, <1>9, <1>11, <1>12, <1>14, <1>28
    DEF ClientStep
  <2>4. CASE BroadcastQuit \/ Exit \/ Halt
    BY <2>4, <1>30, <1>24, <1>25, <1>26, <1>27, <1>29
    DEF BroadcastQuit
  <2> QED  BY <1>30, <1>23, <2>1, <2>2, <2>3, <2>4 DEF Next

-----------------------------------------------------------------------------
(* The server, slots and descriptors and all, is an implementation of the   *)
(* table: joins and departures wait for messages, and messages miss nobody. *)
THEOREM ServerImplementsTable == Spec => ImplementsTable
<1>1. Init => OpenInService /\ Membership!Init
  <2> SUFFICES ASSUME Init PROVE OpenInService /\ Membership!Init
    OBVIOUS
  <2>1. OpenInService
    BY DEF Init, OpenInService
  <2>2. Registered = {} /\ loop.wrote = {} /\ loop.broke = FALSE /\ Sender = None
    BY DEF Init, Registered, IdleLoop, Sender
  <2>3. \A c \in Conns : pc[c] = "absent"
    BY ServerAssumption DEF Init, Procs
  <2>4. Away = {} /\ Gone = {}
    BY <2>3 DEF Init, Away, Gone, Closed
  <2> QED
    BY <2>1, <2>2, <2>4 DEF Membership!Init
<1>2. IInv /\ OpenInService /\ [Next]_vars => OpenInService' /\ [Membership!Next]_(Membership!vars)
  <2>1. ASSUME IInv, OpenInService, Next PROVE OpenInService' /\ TableStep
    BY <2>1, OpenStep, EveryStep DEF IInv
  <2>2. ASSUME OpenInService, UNCHANGED vars PROVE OpenInService' /\ TableStep
    BY <2>2 DEF vars, OpenInService, TableStep, Membership!vars, Registered, Away,
                Gone, Sender
  <2> QED
    BY <2>1, <2>2 DEF TableStep
<1> QED
  BY <1>1, <1>2, ServerInvariant, PTL DEF Spec, ImplementsTable, Membership!Spec

-----------------------------------------------------------------------------
(* Admission in time *)


(* A connection that was admitted and that cli_count does not show yet      *)
OnItsWay ==
  \/ pc[Main] \in {"add_lock", "add", "create"}
  \/ pc[Main] = "sleep" /\ pc[arriving] = "start"

(* There is one at most, and with it the limit is kept. *)
Room ==
  /\ \A c \in Conns : pc[c] = "start" => pc[Main] = "sleep" /\ arriving = c
  /\ cliCount + (IF OnItsWay THEN 1 ELSE 0) <= MaxClients - 1

InTable == /\ ServedIsRegistered
           /\ pc[Main] = "create" => arriving \in Registered

(* The threads that the table shows have counted themselves, and two slots  *)
(* never show the same one: the table is not full when main() adds to it.   *)
LEMMA FreeSlot ==
  ASSUME IInv, Room, pc[Main] = "add"
  PROVE  \E s \in Slots : clients[s] = None
<1> SUFFICES ASSUME \A s \in Slots : clients[s] # None PROVE FALSE
  OBVIOUS
<1>1. \A s \in Slots : clients[s] \in CountedConns
  BY DEF IInv, TypeOK, Memory, Table, Room, Serving, CountedConns, Counted,
         ThreadLabels
<1>2. IsFiniteSet(CountedConns) /\ Cardinality(CountedConns) \in Nat
  BY ServerAssumption, FS_Subset, FS_CardinalityType DEF CountedConns
<1>3. IsFiniteSet(Slots) /\ Cardinality(Slots) = MaxClients
  BY ServerAssumption, FS_Interval DEF Slots
<1>4. Cardinality(CountedConns) < Cardinality(Slots)
  BY <1>2, <1>3, ServerAssumption DEF IInv, TypeOK, Count, Room, OnItsWay
<1>5. clients \in [Slots -> CountedConns]
  BY <1>1 DEF IInv, TypeOK
<1>6. \E s, t \in Slots : s # t /\ clients[s] = clients[t]
  BY <1>2, <1>3, <1>4, <1>5, FS_PigeonHole
<1> QED
  BY <1>6 DEF IInv, Memory, OneSlotEach

(* Steps that neither admit nor count anyone *)
LEMMA RoomFrame ==
  ASSUME TypeOK, Control, Room, UNCHANGED <<arriving, cliCount>>, pc'[Main] = pc[Main],
         \A c \in Conns : pc'[c] = "start" <=> pc[c] = "start"
  PROVE  Room'
<1>1. pc[Main] = "sleep" => arriving \in Conns
  BY DEF Control, Admission
<1>2. OnItsWay' <=> OnItsWay
  BY <1>1 DEF OnItsWay
<1> QED
  BY <1>2 DEF Room

LEMMA RoomStep ==
  ASSUME SleepCovers, TypeOK, Control, Room, Next
  PROVE  Room'
<1> USE ServerAssumption
    DEF At, Goto, Lock, WriteSelf, Procs, MainLabels, ThreadLabels,
        HandlerLabels, TypeOK, Control, Places
<1>1. ASSUME NEW c \in Conns, Accept(c) PROVE Room'
  BY <1>1 DEF Accept, Room, OnItsWay
<1>2. ASSUME Reject PROVE Room'
  BY <1>2 DEF Reject, Room, OnItsWay, Admission
<1>3. ASSUME Admit PROVE Room'
  BY <1>3 DEF Admit, MaxClientsReached, Room, OnItsWay
<1>4. ASSUME QueueAddLock PROVE Room'
  BY <1>4 DEF QueueAddLock, Room, OnItsWay
<1>5. ASSUME QueueAdd PROVE Room'
  BY <1>5 DEF QueueAdd, Room, OnItsWay
<1>6. ASSUME Create PROVE Room'
  BY <1>6 DEF Create, Room, OnItsWay, Admission, Admitting
<1>7. ASSUME Wake PROVE Room'
  BY <1>7 DEF Wake, Room, OnItsWay
<1>8. ASSUME NEW c \in Conns, Start(c) PROVE Room'
  BY <1>8 DEF Start, Room, OnItsWay
<1>9. ASSUME NEW c \in Conns, Negotiate(c) PROVE Room'
  BY <1>9, RoomFrame DEF Negotiate
<1>10. ASSUME NEW c \in Conns, SendCanvas(c) PROVE Room'
  BY <1>10, RoomFrame DEF SendCanvas
<1>11. ASSUME NEW c \in Conns, Set(c) PROVE Room'
  BY <1>11, SetDoes, RoomFrame DEF SetEffect
<1>12. ASSUME NEW c \in Conns, CanvasRequest(c) PROVE Room'
  BY <1>12, RoomFrame DEF CanvasRequest
<1>13. ASSUME NEW c \in Conns, EndOfInput(c) PROVE Room'
  BY <1>13, RoomFrame DEF EndOfInput
<1>14. ASSUME NEW c \in Conns, Quit(c) PROVE Room'
  BY <1>14, RoomFrame DEF Quit
<1>15. ASSUME NEW c \in Conns, Close(c) PROVE Room'
  BY <1>15, RoomFrame DEF Close
<1>16. ASSUME NEW c \in Conns, QueueDeleteLock(c) PROVE Room'
  BY <1>16, RoomFrame DEF QueueDeleteLock
<1>17. ASSUME NEW c \in Conns, QueueDelete(c) PROVE Room'
  BY <1>17, RoomFrame DEF QueueDelete
<1>18. ASSUME NEW c \in Conns, Free(c) PROVE Room'
  BY <1>18, RoomFrame DEF Free
<1>19. ASSUME NEW c \in Conns, Uncount(c) PROVE Room'
  <2>1. pc[Main] = "sleep" => arriving \in Conns
    BY DEF Admission
  <2>2. /\ pc'[Main] = pc[Main] /\ UNCHANGED arriving /\ cliCount' = cliCount - 1
        /\ \A d \in Conns : pc'[d] = "start" <=> pc[d] = "start"
    BY <1>19 DEF Uncount
  <2>3. OnItsWay' <=> OnItsWay
    BY <2>1, <2>2 DEF OnItsWay
  <2> QED
    BY <2>2, <2>3 DEF Room
<1>20. ASSUME NEW p \in Procs, NEW skip \in Procs \cup {None},
              \/ BeginLoop(p, "send_lock", "send") \/ BeginLoop(p, "quit_lock", "quit")
              \/ StepLoop(p, "send", skip) \/ StepLoop(p, "quit", skip)
              \/ EndLoop(p, "send", "serve") \/ EndLoop(p, "quit", "exit")
       PROVE  Room'
  BY <1>20, RoomFrame DEF BeginLoop, StepLoop, EndLoop
<1>21. ASSUME NEW t \in Conns \cup {Main}, Interrupt(t) PROVE Room'
  BY <1>21, RoomFrame DEF Interrupt
<1>22. ASSUME Exit PROVE Room'
  BY <1>22, RoomFrame DEF Exit
<1>23. ASSUME NEW c \in Conns, Disconnect(c) PROVE Room'
  BY <1>23, RoomFrame DEF Disconnect
<1>24. ASSUME Halt PROVE Room'
  BY <1>24, RoomFrame DEF Halt, vars
<1> QED
  <2>1. CASE MainStep
    BY <2>1, <1>2, <1>3, <1>4, <1>5, <1>6, <1>7 DEF MainStep
  <2>2. ASSUME NEW c \in Conns, ThreadStep(c) PROVE Room'
    BY <2>2, <1>8, <1>10, <1>13, <1>15, <1>16, <1>17, <1>18, <1>19, <1>20
    DEF ThreadStep, SendMessage
  <2>3. ASSUME NEW c \in Conns, ClientStep(c) PROVE Room'
    BY <2>3, <1>1, <1>9, <1>11, <1>12, <1>14, <1>23 DEF ClientStep
  <2>4. CASE BroadcastQuit \/ Exit \/ Halt
    BY <2>4, <1>20, <1>22, <1>24 DEF BroadcastQuit
  <2> QED  BY <1>21, <2>1, <2>2, <2>3, <2>4 DEF Next

(* Steps that leave the table alone and put nobody into service *)
LEMMA InTableFrame ==
  ASSUME InTable, UNCHANGED clients,
         \A c \in Conns : pc'[c] \in Serving => pc[c] \in Serving,
         pc'[Main] = "create" => pc[Main] = "create" /\ arriving' = arriving
  PROVE  InTable'
BY DEF InTable, ServedIsRegistered, Registered

LEMMA InTableStep ==
  ASSUME IInv, Room, InTable, Next
  PROVE  InTable'
<1> USE ServerAssumption
    DEF At, Goto, Lock, WriteSelf, Procs, MainLabels, ThreadLabels,
        HandlerLabels, IInv, TypeOK, Control, Places, Serving
<1>1. ASSUME NEW c \in Conns, Accept(c) PROVE InTable'
  BY <1>1, InTableFrame DEF Accept
<1>2. ASSUME Reject PROVE InTable'
  BY <1>2, InTableFrame DEF Reject
<1>3. ASSUME Admit PROVE InTable'
  BY <1>3, InTableFrame DEF Admit
<1>4. ASSUME QueueAddLock PROVE InTable'
  BY <1>4, InTableFrame DEF QueueAddLock
<1>5. ASSUME QueueAdd PROVE InTable'
  <2>1. PICK s \in Slots : clients[s] = None /\ clients' = [clients EXCEPT ![s] = arriving]
    BY <1>5, FreeSlot DEF QueueAdd, FirstSlot
  <2>2. arriving \in Conns /\ arriving' = arriving
    BY <1>5 DEF QueueAdd, Admission, Admitting
  <2>3. clients'[s] = arriving /\ \A t \in Slots : t # s => clients'[t] = clients[t]
    BY <2>1
  <2>4. Registered \cup {arriving} \subseteq Registered'
    BY <2>1, <2>2, <2>3 DEF Registered
  <2>5. \A c \in Conns : pc'[c] = pc[c]
    BY <1>5 DEF QueueAdd
  <2> QED
    BY <2>2, <2>4, <2>5 DEF InTable, ServedIsRegistered
<1>6. ASSUME Create PROVE InTable'
  <2>1. arriving \in Registered /\ UNCHANGED clients
    BY <1>6 DEF Create, InTable
  <2>2. Registered' = Registered
    BY <2>1 DEF Registered
  <2>3. /\ pc'[Main] = "sleep"
        /\ \A c \in Conns : c = arriving \/ pc'[c] = pc[c]
    BY <1>6 DEF Create
  <2> QED
    BY <2>1, <2>2, <2>3 DEF InTable, ServedIsRegistered
<1>7. ASSUME Wake PROVE InTable'
  BY <1>7, InTableFrame DEF Wake
<1>8. ASSUME NEW c \in Conns, Start(c) PROVE InTable'
  BY <1>8, InTableFrame DEF Start
<1>9. ASSUME NEW c \in Conns, Negotiate(c) PROVE InTable'
  BY <1>9, InTableFrame DEF Negotiate
<1>10. ASSUME NEW c \in Conns, SendCanvas(c) PROVE InTable'
  BY <1>10, InTableFrame DEF SendCanvas
<1>11. ASSUME NEW c \in Conns, Set(c) PROVE InTable'
  BY <1>11, SetDoes, InTableFrame DEF SetEffect
<1>12. ASSUME NEW c \in Conns, CanvasRequest(c) PROVE InTable'
  BY <1>12, InTableFrame DEF CanvasRequest
<1>13. ASSUME NEW c \in Conns, EndOfInput(c) PROVE InTable'
  BY <1>13, InTableFrame DEF EndOfInput
<1>14. ASSUME NEW c \in Conns, Quit(c) PROVE InTable'
  BY <1>14, InTableFrame DEF Quit
<1>15. ASSUME NEW c \in Conns, Close(c) PROVE InTable'
  BY <1>15, InTableFrame DEF Close
<1>16. ASSUME NEW c \in Conns, QueueDeleteLock(c) PROVE InTable'
  BY <1>16, InTableFrame DEF QueueDeleteLock
<1>17. ASSUME NEW c \in Conns, QueueDelete(c) PROVE InTable'
  <2>1. \A s \in Slots : clients[s] # c => clients'[s] = clients[s]
    BY <1>17 DEF QueueDelete, FirstSlot
  <2>2. Registered \ {c} \subseteq Registered'
    BY <2>1 DEF Registered
  <2>3. /\ pc'[c] \notin Serving
        /\ pc'[Main] = pc[Main]
        /\ pc[Main] = "create" => arriving # c
        /\ \A d \in Conns : d # c => pc'[d] = pc[d]
    BY <1>17 DEF QueueDelete, Admission, Admitting
  <2> QED
    BY <1>17, <2>2, <2>3 DEF InTable, ServedIsRegistered, QueueDelete
<1>18. ASSUME NEW c \in Conns, Free(c) PROVE InTable'
  BY <1>18, InTableFrame DEF Free
<1>19. ASSUME NEW c \in Conns, Uncount(c) PROVE InTable'
  BY <1>19, InTableFrame DEF Uncount
<1>20. ASSUME NEW p \in Procs, NEW skip \in Procs \cup {None},
              \/ BeginLoop(p, "send_lock", "send") \/ BeginLoop(p, "quit_lock", "quit")
              \/ StepLoop(p, "send", skip) \/ StepLoop(p, "quit", skip)
              \/ EndLoop(p, "send", "serve") \/ EndLoop(p, "quit", "exit")
       PROVE  InTable'
  BY <1>20, InTableFrame DEF BeginLoop, StepLoop, EndLoop
<1>21. ASSUME NEW t \in Conns \cup {Main}, Interrupt(t) PROVE InTable'
  BY <1>21, InTableFrame DEF Interrupt
<1>22. ASSUME Exit PROVE InTable'
  BY <1>22, InTableFrame DEF Exit
<1>23. ASSUME NEW c \in Conns, Disconnect(c) PROVE InTable'
  BY <1>23, InTableFrame DEF Disconnect
<1>24. ASSUME Halt PROVE InTable'
  BY <1>24, InTableFrame DEF Halt, vars
<1> QED
  <2>1. CASE MainStep
    BY <2>1, <1>2, <1>3, <1>4, <1>5, <1>6, <1>7 DEF MainStep
  <2>2. ASSUME NEW c \in Conns, ThreadStep(c) PROVE InTable'
    BY <2>2, <1>8, <1>10, <1>13, <1>15, <1>16, <1>17, <1>18, <1>19, <1>20
    DEF ThreadStep, SendMessage
  <2>3. ASSUME NEW c \in Conns, ClientStep(c) PROVE InTable'
    BY <2>3, <1>1, <1>9, <1>11, <1>12, <1>14, <1>23 DEF ClientStep
  <2>4. CASE BroadcastQuit \/ Exit \/ Halt
    BY <2>4, <1>20, <1>22, <1>24 DEF BroadcastQuit
  <2> QED  BY <1>21, <2>1, <2>2, <2>3, <2>4 DEF Next

(* Where the sleep(1) of the accept loop outlasts the start of a thread     *)
(* (server.c:326,343-345), queue_add() finds a slot for every connection    *)
(* that gets past the limit, and every client in service is in the table.   *)
THEOREM ServerServedIsRegistered == SleepCovers => (Spec => []ServedIsRegistered)
<1> SUFFICES ASSUME SleepCovers PROVE Spec => []ServedIsRegistered
  OBVIOUS
<1>1. Init => IInv /\ Room /\ InTable
  <2> SUFFICES ASSUME Init PROVE IInv /\ Room /\ InTable
    OBVIOUS
  <2>1. IInv
    BY Start_IInv
  <2>2. Room /\ InTable
    BY ServerAssumption DEF Init, Room, OnItsWay, InTable, ServedIsRegistered, Serving, Procs
  <2> QED  BY <2>1, <2>2
<1>2. IInv /\ Room /\ InTable /\ [Next]_vars => (IInv /\ Room /\ InTable)'
  <2>1. ASSUME IInv, Room, InTable, Next PROVE IInv' /\ Room' /\ InTable'
    BY <2>1, Step_IInv, RoomStep, InTableStep DEF IInv
  <2>2. ASSUME IInv, Room, InTable, UNCHANGED vars PROVE IInv' /\ Room' /\ InTable'
    <3>1. IInv'
      BY <2>2, Stutter_IInv
    <3>2. Room' /\ InTable'
      BY <2>2 DEF vars, Room, OnItsWay, InTable, ServedIsRegistered, Registered
    <3> QED  BY <3>1, <3>2
  <2> QED  BY <2>1, <2>2
<1>3. IInv /\ Room /\ InTable => ServedIsRegistered
  BY DEF InTable
<1> QED
  BY <1>1, <1>2, <1>3, PTL DEF Spec
=============================================================================
