------------------------------- MODULE EquIpc -------------------------------
(***************************************************************************)
(* Equanime clients and the daemon joined by their connections.            *)
(***************************************************************************)
EXTENDS EquServer, EquClient, FiniteSets

vars == <<transport, server, client>>

Init == TransportInit /\ ServerInit /\ ClientInit

\* Ecore reports the end of a connection after the data that came before it.
Disconnected(c) == ProcOf[c] \in gone /\ ClientDel(c) /\ UNCHANGED client

Connected(c) == ProcOf[c] \notin gone /\ ClientAdd(c) /\ UNCHANGED client

Serve(c) == ClientData(c) /\ UNCHANGED client

Stop == ServerExit /\ UNCHANGED client

Ask(p) == (\E c \in Conns, name \in Requests : Call(p, c, name)) /\ UNCHANGED server

Receive(p) == ServerData(p) /\ UNCHANGED server

Answered(p) == Return(p) /\ UNCHANGED server

Leave(p) == Exit(p) /\ UNCHANGED server

Next ==
    \/ \E c \in Conns : Connected(c) \/ Disconnected(c) \/ Serve(c)
    \/ Stop
    \/ \E p \in Procs : Ask(p) \/ Receive(p) \/ Answered(p) \/ Leave(p)

\* The main loops of the daemon and of a waiting client dispatch every event
\* that is ready; nothing makes a client call, leave, or the daemon stop.
Fairness ==
    /\ \A c \in Conns : WF_vars(Connected(c)) /\ WF_vars(Serve(c))
    /\ \A p \in Procs : WF_vars(Receive(p)) /\ WF_vars(Answered(p))

Spec == Init /\ [][Next]_vars

FairSpec == Spec /\ Fairness

TypeOK == TransportTypeOK /\ ServerTypeOK /\ ClientTypeOK

-----------------------------------------------------------------------------
(* Safety.                                                                 *)

Waiting(p) == p \in Running /\ frames[p] # << >>

Innermost(p) == frames[p][Len(frames[p])]

Requested(stream, c) == {i \in DOMAIN stream : stream[i].at = 1 /\ stream[i].m.src = c}

Heads(stream) == {i \in DOMAIN stream : stream[i].at = 1}

\* Whatever travels to a connection answers a request that was made on that
\* connection (equ_server.c sends to the connection whose data came last, out
\* of a buffer that all connections share).
RepliesToOwnRequests ==
    \A c \in Conns : \A i \in DOMAIN s2c[c] :
        s2c[c][i].m.req # None /\ s2c[c][i].m.req.src = c

\* A call that returned got the answer to itself, under its own id, and with
\* it, unless it is an error, the body of that answer and no older one
\* (_server_send never compares ids and never clears rbody).
CallGetsItsAnswer ==
    \A p \in Procs : result[p] # None =>
        /\ result[p].answers = result[p].call
        /\ result[p].id = result[p].call.id
        /\ result[p].error = NONE => result[p].body = result[p].call

\* A waiting call owns exactly one thing in the system: its request on the
\* way or buffered, its reply on the way or buffered, or its reply received.
\* A process that is not waiting owns none.  Nothing is answered twice and
\* nothing is lost.
OneThingInFlight ==
    \A p \in Running : \A c \in ConnsOf(p) :
        Cardinality(Heads(c2s[c])) + Cardinality(Requested(equd, c))
          + Cardinality(Heads(s2c[c])) + Cardinality(Heads(buffer[c]))
          + Cardinality({r \in {reply[c]} : r # None})
        = IF Waiting(p) /\ Innermost(p).src = c THEN 1 ELSE 0

\* No client reads a body it was not given, one it freed, or a freed buffer.
NoFault == fault = {}

\* Between events the daemon's buffer holds the beginning of one message, so
\* the next header it reads is a header.
DaemonKeepsFraming ==
    /\ Len(equd) < MessageLen
    /\ \A i \in DOMAIN equd : equd[i] = [m |-> equd[1].m, at |-> i]

\* e->length is the length of e->buffer (equ_core.c: "length of the buffer"):
\* every byte it counts was received.
LengthOfTheBuffer ==
    \A c \in Conns : \A i \in DOMAIN buffer[c] : buffer[c][i] # Junk

\* The e->rbody handed to a caller is the decoded body of the reply whose
\* error it was given (equ_core.c: "decoded body of the reply message").
BodyIsOfTheReply ==
    \A p \in Procs : result[p] # None =>
        (result[p].error = NONE => result[p].body = result[p].answers)

\* While a message waits, e->reply is the reply to it (equ_core.c: "reply for
\* the last message sent").
ReplyIsForLastMessage ==
    \A c \in Conns : reply[c] # None /\ msg[c] # None =>
        reply[c].hdr.req = msg[c]

\* A reply without a body carries an error (equ_client.c: "To trigger an error
\* just set reply to NULL and return the error").
NoBodyMeansError ==
    \A c \in Conns : \A i \in DOMAIN s2c[c] :
        ~s2c[c][i].m.size => s2c[c][i].m.error # NONE

\* However the streams are cut, whoever leaves, and however calls nest, a
\* request is served at most once and its reply is consumed at most once: of
\* the request's header, the reply's header, the reply received and the
\* result that carries it there is at most one.  (A reply inside a buffer is
\* that buffer's header; a freed buffer holds none.)
ServedAtMostOnce ==
    \A p \in Procs : \A i \in 0..ids[p] - 1 :
        LET IsReq(m) == m # None /\ ProcOf[m.src] = p /\ m.id = i
            Asked(stream) == {k \in DOMAIN stream : stream[k].at = 1 /\ IsReq(stream[k].m)}
            Told(stream) == {k \in DOMAIN stream : stream[k].at = 1 /\ IsReq(stream[k].m.req)}
        IN
        Cardinality(Asked(equd))
          + Cardinality(UNION {{c} \X Asked(c2s[c]) : c \in Conns})
          + Cardinality(UNION {{c} \X Told(s2c[c]) : c \in Conns})
          + Cardinality(UNION {{c} \X Told(buffer[c]) : c \in Conns \ dangling})
          + Cardinality({c \in Conns : reply[c] # None /\ ~reply[c].inBuffer
                                       /\ IsReq(reply[c].hdr.req)})
          + Cardinality({q \in Procs : result[q] # None /\ IsReq(result[q].answers)})
        <= 1

-----------------------------------------------------------------------------
(* Why CallGetsItsAnswer holds when every process has one connection, calls *)
(* do not nest, reads return whole messages and no surface is asked for:    *)
(* the phases of a call, and what each connection holds in each.            *)

PlainUse ==
    /\ \A c \in Conns : FirstOf[ProcOf[c]] = c
    /\ MaxDepth = 1
    /\ ~SplitRequests
    /\ ~SplitReplies
    /\ SURFACE_GET \notin Requests

Quiet(c) == c2s[c] = << >> /\ s2c[c] = << >> /\ reply[c] = None

AnswerTo(m, r) ==
    /\ r.req = m
    /\ r.id = m.id
    /\ r.error = NONE <=> r.size

Sent(c, m) == c2s[c] = MessageCells(m) /\ s2c[c] = << >> /\ reply[c] = None

Told(c, m) ==
    /\ c2s[c] = << >> /\ reply[c] = None
    /\ s2c[c] # << >>
    /\ s2c[c] = ReplyCells(s2c[c][1].m)
    /\ AnswerTo(m, s2c[c][1].m)

Got(c, m) ==
    /\ c2s[c] = << >> /\ s2c[c] = << >>
    /\ reply[c] # None
    /\ AnswerTo(m, reply[c].hdr)
    /\ ~reply[c].inBuffer
    /\ reply[c].hdr.size => rbody[c] = m /\ c \notin freed

Asking(c, m) == m.src = c /\ NameGet(m.type) \in Handled /\ ReplyHas(m.type)

Phase(p) ==
    LET c == FirstOf[p]
        m == frames[p][1]
    IN
    /\ buffer[c] = << >>
    /\ \/ frames[p] = << >> /\ Quiet(c)
       \/ /\ frames[p] = <<m>>
          /\ msg[c] = m
          /\ Asking(c, m)
          /\ Sent(c, m) \/ Told(c, m) \/ Got(c, m) \/ (Quiet(c) /\ ~up)

\* What a process that left leaves behind.
Leftover(p) ==
    LET c == FirstOf[p] IN
    /\ c2s[c] # << >> => /\ c2s[c] = MessageCells(c2s[c][1].m)
                         /\ Asking(c, c2s[c][1].m)
    /\ \A i \in DOMAIN s2c[c] : s2c[c][i].m.req # None /\ s2c[c][i].m.req.src = c

PhaseInv ==
    /\ equd = << >>
    /\ fault = {}
    /\ dangling = {}
    /\ \A p \in Procs \ gone : Phase(p)
    /\ \A p \in gone : Leftover(p)
    /\ CallGetsItsAnswer

-----------------------------------------------------------------------------
(* Liveness.                                                               *)

\* Every call returns, unless its process leaves or the daemon does: there is
\* no timeout and no handler for the loss of the server.
EveryCallReturns ==
    \A p \in Procs :
        frames[p] # << >> ~> frames[p] = << >> \/ p \in gone \/ ~up

-----------------------------------------------------------------------------
(* Refinement.  A client with one connection, calls that do not nest, and  *)
(* whole messages: the streams, buffers and ids implement EquRpc.          *)

AnswerFrom(hdr) == [req |-> hdr.req, error |-> hdr.error,
                    body |-> IF hdr.size THEN hdr.req ELSE None]

ASSUME AnswerAssumption ==
    None \notin [req : Message \cup {None}, error : Errors, body : Message \cup {None}]

AbsCall == [p \in Procs |->
    IF Waiting(p) THEN Innermost(p) ELSE None]

AbsAnswer == [p \in Procs |->
    IF ~Waiting(p) THEN None
    ELSE LET c == Innermost(p).src IN
         IF reply[c] # None THEN AnswerFrom(reply[c].hdr)
         ELSE IF buffer[c] # << >> THEN AnswerFrom(buffer[c][1].m)
         ELSE IF s2c[c] # << >> THEN AnswerFrom(s2c[c][1].m)
         ELSE None]

AbsResult == [p \in Procs |->
    IF result[p] = None THEN None
    ELSE [call |-> result[p].call,
          answer |-> [req |-> result[p].answers, error |-> result[p].error,
                      body |-> result[p].body]]]

AbsAnswers(m) == {AnswerFrom([req |-> m, error |-> a.error, size |-> a.size]) :
                    a \in Process(NameGet(m.type))}

Rpc == INSTANCE EquRpc WITH
         call <- AbsCall, answer <- AbsAnswer, result <- AbsResult,
         Calls <- [src : Conns, id : 0..MaxCalls, type : RequestTypes],
         Answer <- AbsAnswers

ImplementsRpc == Rpc!Spec
=============================================================================
