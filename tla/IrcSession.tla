----------------------------- MODULE IrcSession -----------------------------
(***************************************************************************)
(* An IRC session (eirc/src/lib/libircclient.c): its state, its two buffers*)
(* and the socket.  A line travels as pieces; the socket and the buffers   *)
(* cut the stream between any two of them, and the last piece of a line    *)
(* holds its CRLF.                                                         *)
(***************************************************************************)
EXTENDS IrcLines

CONSTANTS
    Script,       \* the lines that the server may write
    Nothing,      \* no event
    Pieces,       \* how many pieces a line has
    Password,     \* whether irc_connect is given a password of the server
    InCap,        \* the pieces that fit into incoming_buf
    OutCap,       \* the pieces that fit into outgoing_buf
    MaxConns,     \* bound on the calls of irc_connect that succeed
    MaxLines,     \* bound on the lines of the first connection; one less for each later
    MaxSaid       \* bound on the commands of a connection

ASSUME IrcAssumption ==
    /\ Pieces \in Nat \ {0} /\ InCap \in Nat /\ OutCap \in Nat
    /\ MaxConns \in Nat /\ Password \in BOOLEAN

\* What a line tells apart, of the lines that the parser can read (module IrcLines).
ASSUME ScriptAssumption ==
    /\ Script \subseteq [cmd : STRING, n : Nat, mine : BOOLEAN,
                        ctcp : {"no", "DCC", "ACTION", "other"}]
    /\ \A l \in Script : Readable(l)

\* An event is its connection, its number there, and what it is.
ASSUME NothingAssumption == Nothing \notin [c : Nat, k : Nat, event : Events]

VARIABLES
    state,     \* session->state
    conn,      \* how many times the session was connected
    motd,      \* session->motd_received
    inbuf,     \* session->incoming_buf, up to incoming_offset
    outbuf,    \* session->outgoing_buf, up to outgoing_offset
    s2c,       \* the pieces that the server wrote and the client did not read
    closed,    \* the server closed the connection, or it was never made
    wrote,     \* wrote[c]: the lines the server wrote on connection c
    said,      \* the commands taken since the last irc_connect
    heard,     \* the pieces that the server got on this connection
    queue,     \* the events in the queue of Ecore
    taken      \* how many events this connection made

sockVars == <<s2c, closed, wrote>>
outVars == <<outbuf, said>>
feedVars == <<queue, taken, motd>>

States == {"INIT", "CONNECTING", "CONNECTED", "DISCONNECTED"}
Connected == state = "CONNECTED"

SessionInit ==
    /\ state = "INIT" /\ conn = 0 /\ motd = FALSE
    /\ inbuf = <<>> /\ outbuf = <<>>
    /\ s2c = <<>> /\ closed = FALSE /\ wrote = <<>>
    /\ said = <<>> /\ heard = <<>>
    /\ queue = <<>> /\ taken = 0

Piece(c, i, j) == [c |-> c, i |-> i, j |-> j]
PiecesOf(c, i) == [j \in 1..Pieces |-> Piece(c, i, j)]
Ends(p) == p.j = Pieces

Take(s, n) == SubSeq(s, 1, n)
Drop(s, n) == SubSeq(s, n + 1, Len(s))

\* libirc_findcrlf: the end of the first line in a buffer, 0 if there is none.
FindCrlf(buf) ==
    LET ends == {i \in DOMAIN buf : Ends(buf[i])}
    IN  IF ends = {} THEN 0 ELSE CHOOSE i \in ends : \A k \in ends : i <= k

-----------------------------------------------------------------------------
(* The server.                                                             *)

ServerWrites(l) ==
    /\ Connected
    /\ ~closed
    /\ conn + Len(wrote[conn]) <= MaxLines
    /\ wrote' = [wrote EXCEPT ![conn] = Append(@, l)]
    /\ s2c' = s2c \o PiecesOf(conn, Len(wrote[conn]) + 1)
    /\ UNCHANGED closed

ServerCloses ==
    /\ state \in {"CONNECTING", "CONNECTED"}
    /\ ~closed
    /\ closed' = TRUE
    /\ UNCHANGED <<s2c, wrote>>

-----------------------------------------------------------------------------
(* Connecting.                                                             *)

\* irc_connect; a call that fails leaves the state as it is.
Connect ==
    /\ state = "INIT"
    /\ conn < MaxConns
    /\ state' = "CONNECTING"
    /\ conn' = conn + 1
    /\ motd' = FALSE
    /\ wrote' = Append(wrote, <<>>)
    /\ s2c' = <<>> /\ closed' = FALSE
    /\ said' = <<>> /\ heard' = <<>> /\ taken' = 0
    /\ UNCHANGED <<inbuf, outbuf, queue>>

\* irc_disconnect
Disconnect ==
    /\ state' = "INIT"
    /\ s2c' = <<>> /\ closed' = TRUE
    /\ UNCHANGED <<conn, inbuf, feedVars, wrote, outVars, heard>>

-----------------------------------------------------------------------------
(* Sending.                                                                *)

Out == [buf |-> outbuf, said |-> said]
SetOut(out) == outbuf' = out.buf /\ said' = out.said

\* Mutant: the room is not looked at.
Overruns(out, c) ==
    [buf |-> out.buf \o PiecesOf(conn, Len(out.said) + 1), said |-> Append(out.said, c)]

\* The part of irc_send_raw under the mutex: the line is taken whole, or not at
\* all when it does not fit.
Stored(out, c) ==
    IF Len(out.buf) + Pieces > OutCap THEN out
    ELSE [buf |-> out.buf \o PiecesOf(conn, Len(out.said) + 1), said |-> Append(out.said, c)]

\* Mutant: a line that was sent in part is sent again.
SendsAgain(n) ==
    /\ heard' = heard \o Take(outbuf, n)
    /\ outbuf' = IF Ends(outbuf[n]) THEN Drop(outbuf, n) ELSE outbuf
    /\ UNCHANGED <<state, conn, inbuf, sockVars, feedVars, said>>

\* The write of irc_process_select_descriptors: the socket takes n pieces.
Sends(n) ==
    /\ heard' = heard \o Take(outbuf, n)
    /\ outbuf' = Drop(outbuf, n)
    /\ UNCHANGED <<state, conn, inbuf, sockVars, feedVars, said>>

-----------------------------------------------------------------------------
(* Reading.                                                                *)

\* Mutants: a line is read from its start only; what waits to be sent is not
\* asked for.
WantsWhole == Connected /\ inbuf = <<>>
WantsConnection == state = "CONNECTING"

\* The sets that irc_add_select_descriptors makes of the session.
WantsInput == Connected /\ Len(inbuf) < InCap

WantsOutput == state = "CONNECTING" \/ (Connected /\ FindCrlf(outbuf) > 0)

\* socket_recv gave n pieces.
Receives(n) ==
    /\ inbuf' = inbuf \o Take(s2c, n)
    /\ s2c' = Drop(s2c, n)
    /\ UNCHANGED <<state, conn, closed, wrote, outVars, feedVars, heard>>

\* The connection ended while it was read or written.
Lost ==
    /\ state' = "DISCONNECTED"
    /\ UNCHANGED <<conn, inbuf, sockVars, outVars, feedVars, heard>>

\* The line that was received, if these are the pieces of one.
IsWhole(pieces) == pieces = PiecesOf(pieces[1].c, pieces[1].i) /\ pieces[1].c = conn
Received(pieces) == wrote[conn][pieces[1].i]

Queued(events) ==
    [i \in DOMAIN events |-> [c |-> conn, k |-> taken + i, event |-> events[i]]]

\* Mutant: the events of a line go before those that wait.
QueuesFirst(events) ==
    /\ queue' = Queued(events) \o queue
    /\ taken' = taken + Len(events)

Queues(events) ==
    /\ queue' = queue \o Queued(events)
    /\ taken' = taken + Len(events)

\* libirc_process_incoming_data on the first line of the buffer, and the removal
\* of that line.  Pieces of two lines in one are told as nothing the server wrote.
Processes ==
    LET end == FindCrlf(inbuf)
        line == Take(inbuf, end)
    IN  /\ inbuf' = Drop(inbuf, end)
        /\ IF ~IsWhole(line)
           THEN Queues(<<"torn">>) /\ UNCHANGED <<motd, outVars>>
           ELSE LET l == Received(line)
                IN  /\ Queues(EventsOf(l, motd))
                    /\ motd' = (motd \/ EndsMotd(l))
                    /\ SetOut(IF IsPing(l) THEN Stored(Out, "PONG") ELSE Out)
        /\ UNCHANGED <<state, conn, sockVars, heard>>

-----------------------------------------------------------------------------
(* Registering with the server.                                            *)

\* The connection was made: from here on irc_send_raw takes commands.
Made ==
    /\ state' = "CONNECTED"
    /\ UNCHANGED <<conn, inbuf, sockVars, outVars, feedVars, heard>>

\* The lines that the session says first, if nobody is faster.
Registration == IF Password THEN <<"PASS", "NICK", "USER">> ELSE <<"NICK", "USER">>

\* One of them is sent as any command is.
Registers(line) ==
    /\ SetOut(Stored(Out, line))
    /\ UNCHANGED <<state, conn, inbuf, sockVars, feedVars, heard>>
=============================================================================
