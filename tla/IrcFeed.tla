------------------------------ MODULE IrcFeed -------------------------------
(***************************************************************************)
(* What an application of eirc may rely on: the events it is told are those*)
(* of the lines that the server wrote, whole, in their order, each once,   *)
(* connection after connection.  Events at the end of a connection may be  *)
(* lost.                                                                   *)
(***************************************************************************)
EXTENDS IrcLines

CONSTANTS Script,     \* the lines that a server may write
          Nothing     \* before the first event

VARIABLES
    wrote,     \* wrote[c]: the lines that the server wrote on connection c
    told       \* the last event: its connection, its number there, and what it is

Init == wrote = <<>> /\ told = Nothing

Connects == wrote' = Append(wrote, <<>>) /\ UNCHANGED told

Writes ==
    /\ wrote # <<>>
    /\ \E l \in Script : wrote' = [wrote EXCEPT ![Len(wrote)] = Append(@, l)]
    /\ UNCHANGED told

\* The events that may be told next: the next of the same connection or the
\* first of a later one.
Coming(c) == IF told # Nothing /\ told.c = c THEN told.k + 1 ELSE 1

Tells ==
    /\ \E c \in DOMAIN wrote :
         LET events == EventsUpTo(wrote[c], Len(wrote[c]))
         IN  /\ told # Nothing => told.c <= c
             /\ Coming(c) \in DOMAIN events
             /\ told' = [c |-> c, k |-> Coming(c), event |-> events[Coming(c)]]
    /\ UNCHANGED wrote

Next == Connects \/ Writes \/ Tells

Spec == Init /\ [][Next]_<<wrote, told>>
=============================================================================
