------------------------------- MODULE Tokens -------------------------------
(***************************************************************************)
(* How the threads of src/src/server.c take an "s y x c" command apart.     *)
(* strtok() keeps its place in one variable of the process, and each thread *)
(* calls it three times on its own buffer: the calls of two threads mix.   *)
(* (A call is one step here; the place is not even protected within it.)   *)
(*                                                                         *)
(* Coordinates have one digit, so that a word has the same place in each    *)
(* command and a place left behind in a buffer fits the next one there.     *)
(***************************************************************************)
EXTENDS Naturals, Sequences

CONSTANTS
  Threads,           \* the handle_client() threads past their handshake
  NumRows, NumCols,  \* the size of the canvas, at most ten each way
  Chars,             \* the characters drawn, none of them a digit
  MaxSets,           \* bound: the commands of a thread's client
  None

VARIABLES
  pc,       \* where each thread stands
  buffIn,   \* the words of its buff_in
  c,        \* the character it has looked up at the end of it
  y, x,     \* the coordinates it has parsed
  place,    \* strtok()'s place: a buffer, by its thread, and the next word in it
  sets,     \* the commands each client has sent
  stored,   \* what has been stored, and which command of which thread did it
  status    \* of the process: running, crashed (NULL) or aborted (assert)

vars == <<pc, buffIn, c, y, x, place, sets, stored, status>>

Requests == (0 .. NumRows - 1) \X (0 .. NumCols - 1) \X Chars

Init ==
  /\ pc = [t \in Threads |-> "read"]
  /\ buffIn = [t \in Threads |-> <<>>]
  /\ c = [t \in Threads |-> None]
  /\ y = [t \in Threads |-> 0] /\ x = [t \in Threads |-> 0]
  /\ place = None
  /\ sets = [t \in Threads |-> 0]
  /\ stored = {}
  /\ status = "running"

At(t, label) == status = "running" /\ pc[t] = label
Goto(t, label) == pc' = [pc EXCEPT ![t] = label]

(* read(), and the last character of the buffer, before it is cut up *)
Read(t) ==
  /\ At(t, "read")
  /\ sets[t] < MaxSets
  /\ sets' = [sets EXCEPT ![t] = @ + 1]
  /\ \E request \in Requests :
       /\ buffIn' = [buffIn EXCEPT ![t] = <<"s">> \o request]
       /\ c' = [c EXCEPT ![t] = request[3]]
  /\ Goto(t, "command")
  /\ UNCHANGED <<y, x, place, stored, status>>

(* strtok(buff_in, " ") *)
Command(t) ==
  /\ At(t, "command")
  /\ place' = [of |-> t, word |-> 2]
  /\ Goto(t, "y")
  /\ UNCHANGED <<buffIn, c, y, x, sets, stored, status>>

Atoi(word) == IF word \in Chars THEN 0 ELSE word

(* atoi(strtok(NULL, " ")): the next word of whichever buffer the place is   *)
(* in; at its end the word is NULL, which atoi() does not survive.          *)
Coordinate(t, from, v, to) ==
  /\ At(t, from)
  /\ \/ /\ place.word <= Len(buffIn[place.of])
        /\ v' = [v EXCEPT ![t] = Atoi(buffIn[place.of][place.word])]
        /\ place' = [place EXCEPT !.word = @ + 1]
        /\ Goto(t, to)
        /\ UNCHANGED status
     \/ /\ place.word > Len(buffIn[place.of])
        /\ status' = "crashed"
        /\ UNCHANGED <<pc, v, place>>
  /\ UNCHANGED <<buffIn, c, sets, stored>>

ReadY(t) == Coordinate(t, "y", y, "x") /\ UNCHANGED x
ReadX(t) == Coordinate(t, "x", x, "set") /\ UNCHANGED y

(* The bounds check, canvas_scharyx() and its assertion *)
Set(t) ==
  /\ At(t, "set")
  /\ \/ /\ x[t] > NumCols \/ y[t] > NumRows
        /\ UNCHANGED <<stored, status>>
     \/ /\ x[t] < NumCols /\ y[t] < NumRows
        /\ stored' = stored \cup {[by |-> t, set |-> sets[t], as |-> <<y[t], x[t], c[t]>>]}
        /\ UNCHANGED status
     \/ /\ x[t] <= NumCols /\ y[t] <= NumRows
        /\ x[t] = NumCols \/ y[t] = NumRows
        /\ status' = "aborted"
        /\ UNCHANGED stored
  /\ Goto(t, "read")
  /\ UNCHANGED <<buffIn, c, y, x, place, sets>>

Halt ==
  /\ status # "running" \/ \A t \in Threads : pc[t] = "read" /\ sets[t] = MaxSets
  /\ UNCHANGED vars

Next ==
  \/ \E t \in Threads : Read(t) \/ Command(t) \/ ReadY(t) \/ ReadX(t) \/ Set(t)
  \/ Halt

Spec == Init /\ [][Next]_vars

-----------------------------------------------------------------------------
(* report.md:156, "`s y x c` sets the spot `(x,y)` to the character `c`":    *)
(* what a thread stores is what its client asked for, whatever the other    *)
(* threads are reading meanwhile.                                           *)
StoredAsAsked ==
  [][\A t \in Threads : Set(t) /\ stored' # stored =>
       <<"s", y[t], x[t], c[t]>> = buffIn[t]]_vars

(* No command of a client ends the server.                                  *)
ServerSurvives == status = "running"
=============================================================================
