---------------------------- MODULE DccSessions ----------------------------
(***************************************************************************)
(* The direct client connections of an IRC session (eirc/src/lib/dcc.c):   *)
(* the list session->dcc_sessions, the blocks it is made of, the sockets   *)
(* and the mutex mutex_dcc.  A block is known by the id of its session:    *)
(* ids are given in order and never again.  A freed block keeps what it    *)
(* held.                                                                   *)
(*                                                                         *)
(* mutex_outbuf is always taken inside mutex_dcc or while nothing is       *)
(* waited for, so it blocks nobody: the steps that take it are atomic.     *)
(***************************************************************************)
EXTENDS Integers

CONSTANTS
    Loop,          \* the thread that runs irc_run
    Users,         \* the other threads of the application
    None,          \* no thread
    MaxId,         \* bound on the sessions that are ever made
    UnlockAny      \* unlocking a mutex another thread holds opens it

Ids == 1..MaxId
Nil == 0                      \* the end of the list
Closed == -1                  \* the value of a socket that was closed
Fds == 1..MaxId + 1
Threads == {Loop} \cup Users

ASSUME DccAssumption ==
    MaxId \in Nat \ {0} /\ Loop \notin Users /\ None \notin Threads /\ UnlockAny \in BOOLEAN

States == {"INIT", "LISTENING", "CONNECTING", "CONNECTED", "CONFIRM_SIZE", "REMOVED"}
Modes  == {"CHAT", "SENDFILE", "RECVFILE"}

\* irc_dcc_session_t: cb and fp say whether a callback is set and a file open,
\* out whether the outgoing buffer holds something.
Session == [state : States, mode : Modes, sock : Fds \cup {Closed},
            cb : BOOLEAN, fp : BOOLEAN, out : BOOLEAN, next : Ids \cup {Nil}]

VARIABLES
    dcc,        \* dcc[id]: the block of session id
    live,       \* sessions whose block is allocated
    head,       \* session->dcc_sessions
    lastId,     \* session->dcc_last_id
    owner,      \* the thread that holds mutex_dcc, or None
    told,       \* sessions whose peer was told where to connect
    knock,      \* listening sockets on which a connection waits
    ended,      \* sessions whose callback was told of their end
    closed,     \* sessions a call of the application ended
    fault       \* "none", or what undefined behaviour was met

Faults == {"none", "freed session", "double free", "null callback",
           "bad descriptor", "blocked in accept", "aborted"}

table == <<dcc, live, head, lastId>>

SessionsTypeOK ==
    /\ dcc \in [Ids -> Session]
    /\ live \in SUBSET Ids
    /\ head \in Ids \cup {Nil}
    /\ lastId \in 1..MaxId + 1
    /\ owner \in Threads \cup {None}
    /\ told \in SUBSET Ids
    /\ knock \in SUBSET Ids
    /\ ended \in SUBSET Ids
    /\ closed \in SUBSET Ids
    /\ fault \in Faults

SessionsInit ==
    /\ dcc = [id \in Ids |-> [state |-> "INIT", mode |-> "CHAT", sock |-> Closed,
                              cb |-> FALSE, fp |-> FALSE, out |-> FALSE, next |-> Nil]]
    /\ live = {}
    /\ head = Nil
    /\ lastId = 1
    /\ owner = None
    /\ told = {}
    /\ knock = {}
    /\ ended = {}
    /\ closed = {}
    /\ fault = "none"

-----------------------------------------------------------------------------
(* The list.                                                               *)

Nth[k \in 0..MaxId] ==
    IF k = 0 THEN head
    ELSE IF Nth[k - 1] = Nil THEN Nil ELSE dcc[Nth[k - 1]].next

Listed == {id \in Ids : \E k \in 0..MaxId : Nth[k] = id}

\* The lowest descriptor that is not in use, as the system gives it.
FreeFd == CHOOSE fd \in Fds :
    /\ \A id \in live : dcc[id].sock # fd
    /\ \A lower \in 1..fd - 1 : \E id \in live : dcc[id].sock = lower

\* Mutants: the socket is cleared, not closed; the state is left as it was; the
\* predecessor keeps its successor.
DestroyedWithZero(d) == [d EXCEPT !.sock = 0, !.state = "REMOVED"]
DestroyedKeepsState(d) == [d EXCEPT !.sock = Closed]
UnlinkedHeadOnly(id) ==
    [i \in Ids |-> IF i = id THEN [dcc[i] EXCEPT !.sock = Closed, !.fp = FALSE] ELSE dcc[i]]

\* libirc_dcc_destroy_nolock: the session stays in the list until the loop
\* of the library removes it.
Destroyed(d) == [d EXCEPT !.sock = Closed, !.state = "REMOVED"]

DestroyNolock(id) ==
    dcc' = IF id \in Listed THEN [dcc EXCEPT ![id] = Destroyed(@)] ELSE dcc

\* The blocks once id is unlinked.
Unlinked(id) ==
    [i \in Ids |->
        IF i = id THEN [dcc[i] EXCEPT !.sock = Closed, !.fp = FALSE]
        ELSE IF head # id /\ i \in Listed /\ dcc[i].next = id
             THEN [dcc[i] EXCEPT !.next = dcc[id].next]
        ELSE dcc[i]]

\* libirc_remove_dcc_session, by a thread nobody runs against.
Remove(id) ==
    IF id \in live
    THEN /\ dcc' = Unlinked(id)
         /\ head' = IF head = id THEN dcc[id].next ELSE head
         /\ live' = live \ {id}
         /\ UNCHANGED fault
    ELSE /\ fault' = "double free"
         /\ UNCHANGED <<dcc, head, live>>

\* libirc_new_dcc_session: a listening socket, or one that is not connected.
New(state, mode) ==
    /\ lastId <= MaxId
    /\ dcc' = [dcc EXCEPT ![lastId] =
                 [state |-> state, mode |-> mode, sock |-> FreeFd, cb |-> FALSE,
                  fp |-> FALSE, out |-> FALSE, next |-> head]]
    /\ head' = lastId
    /\ live' = live \cup {lastId}
    /\ lastId' = lastId + 1

-----------------------------------------------------------------------------
(* mutex_dcc.  UnlockAny tells the default mutex, which any thread can     *)
(* open, from the recursive one, which refuses all but its owner.          *)

Lock(t)   == owner = None /\ owner' = t
Unlock(t) == owner' = IF owner = t \/ UnlockAny THEN None ELSE owner
=============================================================================
