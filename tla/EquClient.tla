----------------------------- MODULE EquClient ------------------------------
(***************************************************************************)
(* The client library: equanime/src/lib/equ_core.c and the API calls that  *)
(* are made of it (equ_hosts_get, equ_host_controllers_get,                *)
(* equ_controller_layers_get, equ_layer_caps_get, equ_layer_status_get,    *)
(* equ_host_surface_get).  A call is synchronous: _server_send runs the    *)
(* Ecore main loop until a reply shows up, so any handler of the           *)
(* application may run, and call again, inside the wait.                   *)
(***************************************************************************)
EXTENDS EquTransport

CONSTANTS
    Procs,       \* client processes, one thread each
    ProcOf,      \* ProcOf[c]: the process that owns connection c
    FirstOf,     \* FirstOf[p]: the connection p made with its first equ_new
    Requests,    \* the request names the application uses
    MaxCalls,    \* bound on the calls one process makes
    MaxDepth,    \* bound on calls made inside a call's wait (1: none)
    MayExit      \* the processes that may go away at any moment

\* e->reply with where it points to, and what a call returned with.
Header == [hdr : Reply, inBuffer : BOOLEAN]
Result == [call : Message, answers : Message \cup {None}, id : Nat,
           error : Errors, body : Message \cup {None}]

ASSUME ProcAssumption ==
    /\ ProcOf \in [Conns -> Procs]
    /\ FirstOf \in [Procs -> Conns]
    /\ \A p \in Procs : ProcOf[FirstOf[p]] = p
    /\ Requests \subseteq RequestNames
    /\ MaxCalls \in Nat
    /\ MaxDepth \in Nat
    /\ MayExit \subseteq Procs
    /\ None \notin Message \cup Header \cup Result

VARIABLES
    frames,      \* frames[p]: messages of the nested _server_send calls, innermost last
    ids,         \* ids[p]: the static id of equ_message_new
    msg,         \* msg[c]: e->msg
    reply,       \* reply[c]: e->reply, and whether it points into e->buffer
    rbody,       \* rbody[c]: e->rbody, named by the request it answers
    freed,       \* connections whose e->rbody the caller has freed
    buffer,      \* buffer[c]: e->buffer, << >> when it is NULL
    dangling,    \* connections whose e->buffer has been freed as a reply
    result,      \* result[p]: the last call that returned to p
    fault,       \* processes that used a freed block or read a NULL body
    gone         \* processes that exited

equStruct == <<msg, reply, rbody, freed, buffer, dangling>>
client == <<frames, ids, equStruct, result, fault, gone>>

ClientTypeOK ==
    /\ frames \in [Procs -> Seq(Message)]
    /\ ids \in [Procs -> Nat]
    /\ msg \in [Conns -> Message \cup {None}]
    /\ reply \in [Conns -> Header \cup {None}]
    /\ rbody \in [Conns -> Message \cup {None}]
    /\ freed \in SUBSET Conns
    /\ buffer \in [Conns -> Seq(ReplyCell)]
    /\ dangling \in SUBSET Conns
    /\ result \in [Procs -> Result \cup {None}]
    /\ fault \in SUBSET Procs
    /\ gone \in SUBSET Procs

ClientInit ==
    /\ frames = [p \in Procs |-> << >>]
    /\ ids = [p \in Procs |-> 0]
    /\ msg = [c \in Conns |-> None]
    /\ reply = [c \in Conns |-> None]
    /\ rbody = [c \in Conns |-> None]
    /\ freed = {}
    /\ buffer = [c \in Conns |-> << >>]
    /\ dangling = {}
    /\ result = [p \in Procs |-> None]
    /\ fault = {}
    /\ gone = {}

Running == Procs \ (fault \cup gone)

ConnsOf(p) == {c \in Conns : ProcOf[c] = p}

-----------------------------------------------------------------------------
(* equ_message_server_send up to the wait loop.  The application is either *)
(* outside every call or in a handler the wait loop of one runs.           *)

Call(p, c, name) ==
    /\ p \in Running
    /\ ProcOf[c] = p
    /\ Len(frames[p]) < MaxDepth
    /\ ids[p] < MaxCalls
    /\ LET m == [src |-> c, id |-> ids[p], type |-> TypeOf(name)] IN
          /\ frames' = [frames EXCEPT ![p] = Append(@, m)]
          /\ msg' = [msg EXCEPT ![c] = m]
          /\ c2s' = [c2s EXCEPT ![c] = @ \o MessageCells(m)]
    /\ ids' = [ids EXCEPT ![p] = @ + 1]
    /\ UNCHANGED <<reply, rbody, freed, buffer, dangling, result, fault, gone, s2c>>

-----------------------------------------------------------------------------
(* _server_data.  It runs inside a wait loop.  The handler of the first    *)
(* equ_new takes every event: it does not look at the server the event is  *)
(* for, and returns 0, which keeps Ecore from calling the next handler.    *)

Arrived(p, c, n) ==
    /\ p \in Running
    /\ ProcOf[c] = p
    /\ frames[p] # << >>
    /\ n \in Reads(s2c[c], SplitReplies)
    /\ s2c' = [s2c EXCEPT ![c] = Drop(@, n)]
    /\ UNCHANGED <<frames, ids, result, gone, c2s>>

Joined(p, c, n) == buffer[FirstOf[p]] \o Take(s2c[c], n)

\* No message waits for a reply: the data is dropped.
ReplyDropped(p, c, n) ==
    /\ Arrived(p, c, n)
    /\ msg[FirstOf[p]] = None
    /\ UNCHANGED <<equStruct, fault>>

\* The buffer was freed when its header was returned as a reply.
ReplyIntoFreed(p, c, n) ==
    /\ Arrived(p, c, n)
    /\ msg[FirstOf[p]] # None
    /\ FirstOf[p] \in dangling
    /\ fault' = fault \cup {p}
    /\ UNCHANGED equStruct

\* Mutant: a header still in the buffer is taken for a copied one.
AlreadyCopied(hdr) == [hdr |-> hdr, inBuffer |-> FALSE]

\* What the handler stores as e->reply while it keeps the bytes.
InBuffer(hdr) == [hdr |-> hdr, inBuffer |-> TRUE]
Copied(hdr)   == [hdr |-> hdr, inBuffer |-> FALSE]

\* Bytes that are no header are read as one all the same.
GarbageReplies == {[req |-> None, id |-> 0, error |-> e, size |-> b] :
                     e \in Unset, b \in BOOLEAN}

\* e->reply is set as soon as a header is there, the body may be missing.
ReplyPartial(p, c, n) ==
    LET e == FirstOf[p]
        buf == Joined(p, c, n)
    IN
    /\ Arrived(p, c, n)
    /\ msg[e] # None
    /\ e \notin dangling
    /\ buffer' = [buffer EXCEPT ![e] = buf]
    /\ \/ /\ Len(buf) < HdrLen
          /\ UNCHANGED reply
       \/ /\ Len(buf) >= HdrLen
          /\ StartsWithHeader(buf)
          /\ Len(buf) < ReplyLen(buf[1].m)
          /\ reply' = [reply EXCEPT ![e] = InBuffer(buf[1].m)]
       \/ /\ Len(buf) >= HdrLen
          /\ ~StartsWithHeader(buf)
          /\ \E r \in GarbageReplies : reply' = [reply EXCEPT ![e] = InBuffer(r)]
    /\ UNCHANGED <<msg, rbody, freed, dangling, fault>>

\* The body the caller will be given: the descriptor is chosen by the message
\* that waits, not by the reply.
Decoded(buf, waiting) ==
    LET hdr == buf[1].m IN
    IF /\ BodyFollows(buf, ReplyLen(hdr))
       /\ hdr.req # None
       /\ ReplyNameGet(hdr.req.type) = ReplyNameGet(waiting.type)
    THEN hdr.req ELSE None

\* The header and its body are there.  rbody is left alone without a body.
ReplyFull(p, c, n) ==
    LET e == FirstOf[p]
        buf == Joined(p, c, n)
        hdr == buf[1].m
    IN
    /\ Arrived(p, c, n)
    /\ msg[e] # None
    /\ e \notin dangling
    /\ Len(buf) >= HdrLen
    /\ StartsWithHeader(buf)
    /\ Len(buf) >= ReplyLen(hdr)
    /\ IF hdr.size
       THEN /\ rbody' = [rbody EXCEPT ![e] = Decoded(buf, msg[e])]
            /\ freed' = freed \ {e}
       ELSE UNCHANGED <<rbody, freed>>
    /\ reply' = [reply EXCEPT ![e] = Copied(hdr)]
    /\ buffer' = [buffer EXCEPT ![e] = Shift(buf, ReplyLen(hdr))]
    /\ UNCHANGED <<msg, dangling, fault>>

\* The same when the bytes read as a header are none and the size they give
\* is no more than what is there: nothing decodes.
ReplyGarbage(p, c, n) ==
    LET e == FirstOf[p]
        buf == Joined(p, c, n)
    IN
    /\ Arrived(p, c, n)
    /\ msg[e] # None
    /\ e \notin dangling
    /\ Len(buf) >= HdrLen
    /\ ~StartsWithHeader(buf)
    /\ \E r \in GarbageReplies :
          \E k \in IF r.size THEN HdrLen + 1..Len(buf) ELSE {HdrLen} :
             /\ IF r.size
                THEN rbody' = [rbody EXCEPT ![e] = None] /\ freed' = freed \ {e}
                ELSE UNCHANGED <<rbody, freed>>
             /\ reply' = [reply EXCEPT ![e] = Copied(r)]
             /\ buffer' = [buffer EXCEPT ![e] = Shift(buf, k)]
    /\ UNCHANGED <<msg, dangling, fault>>

ServerData(p) ==
    \E c \in Conns : \E n \in 1..Len(s2c[c]) :
        \/ ReplyDropped(p, c, n)
        \/ ReplyIntoFreed(p, c, n)
        \/ ReplyPartial(p, c, n)
        \/ ReplyFull(p, c, n)
        \/ ReplyGarbage(p, c, n)

-----------------------------------------------------------------------------
(* The wait loop sees e->reply: _server_send returns, and so does the API  *)
(* call, which on EQU_ERR_NONE reads the body it was given and frees it.   *)

Return(p) ==
    /\ p \in Running
    /\ frames[p] # << >>
    /\ LET m == frames[p][Len(frames[p])]
           e == m.src
           hdr == reply[e].hdr
       IN
       /\ reply[e] # None
       /\ dangling' = IF reply[e].inBuffer THEN dangling \cup {e} ELSE dangling
       /\ reply' = [reply EXCEPT ![e] = None]
       /\ msg' = [msg EXCEPT ![e] = None]
       /\ result' = [result EXCEPT ![p] =
             [call |-> m, answers |-> hdr.req, id |-> hdr.id, error |-> hdr.error,
              body |-> IF hdr.error = NONE THEN rbody[e] ELSE None]]
       /\ fault' = IF hdr.error = NONE /\ (rbody[e] = None \/ e \in freed)
                   THEN fault \cup {p} ELSE fault
       /\ freed' = IF hdr.error = NONE THEN freed \cup {e} ELSE freed
    /\ frames' = [frames EXCEPT ![p] = Take(@, Len(@) - 1)]
    /\ UNCHANGED <<ids, rbody, buffer, gone, transport>>

-----------------------------------------------------------------------------
(* The process goes away: what its sockets hold reaches the daemon, what   *)
(* was still in the process does not.                                      *)

Exit(p) ==
    /\ p \in MayExit \ gone
    /\ gone' = gone \cup {p}
    /\ c2s' \in Cut(c2s, ConnsOf(p), SplitRequests, Longest)
    /\ s2c' = [c \in Conns |-> IF c \in ConnsOf(p) THEN << >> ELSE s2c[c]]
    /\ UNCHANGED <<frames, ids, equStruct, result, fault>>
=============================================================================
