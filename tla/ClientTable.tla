----------------------------- MODULE ClientTable ----------------------------
(***************************************************************************)
(* What the table of a server promises, without slots, descriptors, the    *)
(* mutex and the heap: a connection is entered and struck out once at      *)
(* most, nobody comes or goes while a message is passed on, and a message  *)
(* reaches every member who has not gone away, unless it is cut short.     *)
(***************************************************************************)
CONSTANTS
  Conns,
  Senders,  \* who passes messages on: the connections and the server itself
  None

VARIABLES
  members,  \* the connections in the table
  away,     \* those with one end of the socket closed
  gone,     \* those turned away, or struck out of the table for good
  sender,   \* whose message is being passed on, or None
  reached,  \* the connections that this message has been written to
  cut       \* whether a write of it has failed

vars == <<members, away, gone, sender, reached, cut>>

Init ==
  /\ members = {} /\ away = {} /\ gone = {}
  /\ sender = None /\ reached = {} /\ cut = FALSE

Join(c) ==
  /\ sender = None
  /\ c \notin members \cup gone
  /\ members' = members \cup {c}
  /\ UNCHANGED <<away, gone, sender, reached, cut>>

TurnAway(c) ==
  /\ c \notin members \cup gone
  /\ away' = away \cup {c}
  /\ gone' = gone \cup {c}
  /\ UNCHANGED <<members, sender, reached, cut>>

GoAway(c) ==
  /\ away' = away \cup {c}
  /\ UNCHANGED <<members, gone, sender, reached, cut>>

(* A connection that the table had no room for leaves it unchanged. *)
Leave(c) ==
  /\ sender = None
  /\ c \in away \ gone
  /\ members' = members \ {c}
  /\ gone' = gone \cup {c}
  /\ UNCHANGED <<away, sender, reached, cut>>

Begin(p) ==
  /\ sender = None
  /\ p \notin gone
  /\ sender' = p
  /\ reached' = {} /\ cut' = FALSE
  /\ UNCHANGED <<members, away, gone>>

(* A write may go astray: the number of a member's closed descriptor may     *)
(* be that of any other connection by now, but of none that is gone.        *)
Reach(c) ==
  /\ sender # None /\ ~cut
  /\ c \notin gone
  /\ reached' = reached \cup {c}
  /\ UNCHANGED <<members, away, gone, sender, cut>>

Cut ==
  /\ sender # None
  /\ members \cap away # {}
  /\ cut' = TRUE
  /\ UNCHANGED <<members, away, gone, sender, reached>>

End ==
  /\ sender # None
  /\ cut \/ members \ {sender} \subseteq reached \cup away
  /\ sender' = None
  /\ reached' = {} /\ cut' = FALSE
  /\ UNCHANGED <<members, away, gone>>

Next ==
  \/ \E c \in Conns : Join(c) \/ TurnAway(c) \/ GoAway(c) \/ Leave(c) \/ Reach(c)
  \/ \E p \in Senders : Begin(p)
  \/ Cut \/ End

Spec == Init /\ [][Next]_vars
=============================================================================
