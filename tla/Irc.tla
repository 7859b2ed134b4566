-------------------------------- MODULE Irc ---------------------------------
(***************************************************************************)
(* A client of eirc: eirc_main runs irc_run, whose loop reads and writes   *)
(* the socket of the session (module IrcSession) and then lets Ecore run   *)
(* once, where the application handles the events and calls eirc.  Another *)
(* thread of the application may send commands at any time.                *)
(***************************************************************************)
EXTENDS IrcSession, FiniteSets

CONSTANTS
    Commands,       \* what the application sends
    SlowConnect,    \* a connection may take more than the 250 ms of a select
    Again           \* when the application connects again: "never", "any" time, or
                    \* "quiet": when nothing of the connection before is left

ASSUME AgainAssumption == Again \in {"never", "quiet", "any"} /\ SlowConnect \in BOOLEAN

VARIABLES
    pc,        \* where irc_run is
    ready,     \* what select said of the socket: {"in"}, {"out"}, ...
    told,      \* the last event that was handled
    other,     \* the other thread: "idle", or the command it checked the state for
    early      \* the other thread sent on this connection before an event of it was told

vars == <<state, conn, motd, inbuf, outbuf, s2c, closed, wrote, said, heard, queue, taken,
          pc, ready, told, other, early>>
sessionVars == <<state, conn, motd, inbuf, outbuf, s2c, closed, wrote, said, heard, queue, taken>>

Init ==
    /\ SessionInit
    /\ pc = "start" /\ ready = {} /\ told = Nothing /\ other = "idle"
    /\ early = FALSE

-----------------------------------------------------------------------------
(* irc_run.                                                                *)

\* The application connects, then calls eirc_main.
Starts ==
    /\ pc = "start"
    /\ Connect
    /\ pc' = "loop" /\ early' = FALSE
    /\ UNCHANGED <<ready, told, other>>

\* The head of the loop.
LoopEnds ==
    /\ pc = "loop"
    /\ state \notin {"CONNECTING", "CONNECTED"}
    /\ pc' = "done"
    /\ UNCHANGED <<sessionVars, ready, told, other, early>>

CanRead == WantsInput /\ (s2c # <<>> \/ closed)
CanWrite == WantsOutput
Readiness == (IF CanRead THEN {"in"} ELSE {}) \cup (IF CanWrite THEN {"out"} ELSE {})

\* A select, which ends with 250 ms when nothing is ready.  A socket that can be
\* written stays so; one that is connecting becomes writable in its time.
Selects ==
    /\ pc = "loop"
    /\ state \in {"CONNECTING", "CONNECTED"}
    /\ ready' \in IF state = "CONNECTING" /\ SlowConnect THEN {Readiness, {}} ELSE {Readiness}
    /\ pc' = "process"
    /\ UNCHANGED <<sessionVars, told, other, early>>

\* irc_process_select_descriptors, of a session that is connecting: getpeername
\* tells whether the connection was made.
ConnectEnds ==
    /\ pc = "process"
    /\ state = "CONNECTING"
    /\ "out" \in ready
    /\ IF closed THEN Lost /\ pc' = "done" ELSE Made /\ pc' = Head(Registration)
    /\ UNCHANGED <<ready, told, other, early>>

\* It registers, line by line: irc_send_raw gives the mutex back in between.
After == [PASS |-> "NICK", NICK |-> "USER", USER |-> "ecore"]
Registering == DOMAIN After

SendsRegistration ==
    /\ pc \in Registering
    /\ Registers(pc)
    /\ pc' = After[pc]
    /\ UNCHANGED <<ready, told, other, early>>

\* The session is connecting still: irc_run ends.
ConnectSlow ==
    /\ pc = "process"
    /\ state = "CONNECTING"
    /\ "out" \notin ready
    /\ pc' = "done"
    /\ UNCHANGED <<sessionVars, ready, told, other, early>>

Reads ==
    /\ pc = "process"
    /\ Connected
    /\ "in" \in ready
    /\ IF s2c = <<>> THEN Lost /\ pc' = "done"
       ELSE /\ \E n \in 1..Len(s2c) : n <= InCap - Len(inbuf) /\ Receives(n)
            /\ pc' = "lines"
    /\ UNCHANGED <<ready, told, other, early>>

ReadsNothing ==
    /\ pc = "process"
    /\ Connected
    /\ "in" \notin ready
    /\ pc' = "write"
    /\ UNCHANGED <<sessionVars, ready, told, other, early>>

ProcessesLine ==
    /\ pc = "lines"
    /\ FindCrlf(inbuf) > 0
    /\ Processes
    /\ UNCHANGED <<pc, ready, told, other, early>>

LinesEnd ==
    /\ pc = "lines"
    /\ FindCrlf(inbuf) = 0
    /\ pc' = "write"
    /\ UNCHANGED <<sessionVars, ready, told, other, early>>

\* A send on a connection that the server closed fails, or not yet.
Writes ==
    /\ pc = "write"
    /\ "out" \in ready
    /\ \/ closed /\ Lost /\ pc' = "done"
       \/ /\ \E n \in 1..Len(outbuf) : Sends(n)
          /\ pc' = "ecore"
    /\ UNCHANGED <<ready, told, other, early>>

WritesNothing ==
    /\ pc = "write"
    /\ "out" \notin ready
    /\ pc' = "ecore"
    /\ UNCHANGED <<sessionVars, ready, told, other, early>>

-----------------------------------------------------------------------------
(* ecore_main_loop_iterate.                                                *)

\* A handler or a timer sends a command.
Says(c) ==
    /\ pc = "ecore"
    /\ Connected
    /\ Len(said) < MaxSaid
    /\ SetOut(Stored(Out, Line(c)))
    /\ UNCHANGED <<state, conn, motd, inbuf, sockVars, heard, queue, taken,
                   pc, ready, told, other, early>>

\* It disconnects, and connects again or not.
Leaves ==
    /\ pc = "ecore"
    /\ Connected
    /\ Disconnect
    /\ UNCHANGED <<pc, ready, told, other, early>>

Quiet == inbuf = <<>> /\ outbuf = <<>> /\ other = "idle"

Returns ==
    /\ pc = "ecore"
    /\ conn > 0
    /\ Again # "never"
    /\ Again = "quiet" => Quiet
    /\ Connect
    /\ early' = FALSE
    /\ UNCHANGED <<pc, ready, told, other>>

\* The next event is handled.
Handles ==
    /\ pc = "ecore"
    /\ queue # <<>>
    /\ told' = Head(queue)
    /\ queue' = Tail(queue)
    /\ UNCHANGED <<state, conn, motd, inbuf, sockVars, outVars, heard, taken,
                   pc, ready, other, early>>

\* The iteration ends when no event waits.
IterationEnds ==
    /\ pc = "ecore"
    /\ queue = <<>>
    /\ pc' = "loop"
    /\ UNCHANGED <<sessionVars, ready, told, other, early>>

-----------------------------------------------------------------------------
(* The other thread.                                                       *)

ToldOfThis == told # Nothing /\ told.c = conn

\* irc_send_raw looks at the state before it takes the mutex ...
OtherChecks(c) ==
    /\ other = "idle"
    /\ Connected
    /\ Len(said) < MaxSaid
    /\ other' = c
    /\ early' = (early \/ ~ToldOfThis)
    /\ UNCHANGED <<sessionVars, pc, ready, told>>

\* ... and stores the command under it.
OtherSays ==
    /\ other # "idle"
    /\ SetOut(Stored(Out, Line(other)))
    /\ other' = "idle"
    /\ UNCHANGED <<state, conn, motd, inbuf, sockVars, heard, queue, taken,
                   pc, ready, told, early>>

-----------------------------------------------------------------------------

Server ==
    /\ ServerCloses \/ \E l \in Script : ServerWrites(l)
    /\ UNCHANGED <<state, conn, motd, inbuf, outVars, heard, queue, taken,
                   pc, ready, told, other, early>>

IrcRun ==
    \/ LoopEnds \/ Selects \/ ConnectEnds \/ ConnectSlow \/ SendsRegistration
    \/ Reads \/ ReadsNothing \/ ProcessesLine \/ LinesEnd
    \/ Writes \/ WritesNothing
    \/ Handles \/ IterationEnds

Application ==
    \/ Starts \/ Leaves \/ Returns
    \/ \E c \in Commands : Says(c) \/ OtherChecks(c)
    \/ OtherSays

Next == IrcRun \/ Application \/ Server

\* The loop runs, handlers return, and Ecore ends its iterations.
FairSpec == Init /\ [][Next]_vars /\ WF_vars(IrcRun)

-----------------------------------------------------------------------------
(* Properties.                                                             *)

TypeOK ==
    /\ state \in States /\ conn \in 0..MaxConns /\ motd \in BOOLEAN
    /\ Len(inbuf) <= InCap /\ Len(outbuf) <= OutCap
    /\ closed \in BOOLEAN
    /\ wrote \in Seq(Seq(Script)) /\ Len(wrote) = conn
    /\ pc \in {"start", "loop", "process", "lines", "write", "ecore", "done"}
              \cup Registering
    /\ ready \subseteq {"in", "out"}
    /\ other \in Commands \cup {"idle"} /\ early \in BOOLEAN

\* A stream of the k first lines of connection c, whole and in their order.
IsStream(c, stream, k) ==
    /\ Len(stream) = k * Pieces
    /\ \A i \in 1..k, j \in 1..Pieces : stream[(i - 1) * Pieces + j] = Piece(c, i, j)

\* The server hears every command that was taken, whole and in order, whoever sent
\* it and however the socket cut the stream (libircclient.c 652-716); and first of
\* all the registration, if the other thread sends when the application has been
\* told an event of the connection ("in event_connect handler", libircclient.h 288).
HeardWhole ==
    Connected =>
        /\ IsStream(conn, heard \o outbuf, Len(said))
        /\ ~early /\ pc \notin Registering =>
              \A i \in DOMAIN Registration : i <= Len(said) /\ said[i] = Registration[i]

\* The events that the application handles are those of the lines the server
\* wrote (IrcFeed).
Feed == INSTANCE IrcFeed
ImplementsFeed == Feed!Spec

\* While the connection lives, every line is told in the end and every command
\* reaches the server.
EventsHere == EventsUpTo(wrote[conn], Len(wrote[conn]))
ToldHere == IF ToldOfThis THEN told.k ELSE 0
Behind == Connected /\ (outbuf # <<>> \/ ToldHere < Len(EventsHere))
CatchesUp == Behind ~> ~Behind \/ pc = "done"

\* A connection that the server closed ends irc_run, or the application left it.
LossEnds == closed ~> pc = "done" \/ ~closed

\* irc_run "will not return until the server connection is terminated"
\* (libircclient.h 283).
RunsUntilTerminated == pc = "done" => closed \/ state = "INIT"

\* The reason of someone who leaves a channel is "OPTIONAL" (Eirc.h 246), so
\* that each of them is told of.
LinesProcessed == Len(wrote[conn]) - Len(SelectSeq(inbuf \o s2c, Ends))
Parts == {i \in 1..LinesProcessed : wrote[conn][i].cmd = "PART"}
NobodyLeavesUnseen == Connected => Cardinality(Parts) <= taken
=============================================================================
