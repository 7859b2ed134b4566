------------------------------- MODULE DccApi -------------------------------
(***************************************************************************)
(* The calls an application makes about direct connections, from any of    *)
(* its threads or, on the thread of the loop, from a callback.  A call     *)
(* that finds no session, or one in the wrong state, changes nothing.      *)
(***************************************************************************)
EXTENDS DccSessions

VARIABLES
    calls       \* calls[t]: where thread t is in a call, and about which session

CallPcs == {"announce", "setcb", "unlink", "remove"}
NoCall  == [pc |-> "none", id |-> Nil]

CallsTypeOK == calls \in [Threads -> [pc : CallPcs, id : Ids] \cup {NoCall}]

CallsInit == calls = [t \in Threads |-> NoCall]

Comes(t) == calls' = [calls EXCEPT ![t] = NoCall]

Goes(t, pc, id) == calls' = [calls EXCEPT ![t] = [pc |-> pc, id |-> id]]

\* The thread starts a call.
Calls(t) == calls[t].pc = "none"

\* The caller of irc_dcc_chat or irc_dcc_sendfile learns the id at the end.
Creating == {calls[t].id : t \in {u \in Threads : calls[u].pc \in {"announce", "setcb", "unlink"}}}

\* The call finds session id, with the mutex free to take.
Finds(t, id) ==
    /\ Calls(t)
    /\ owner = None
    /\ id \in Listed \ Creating

-----------------------------------------------------------------------------
(* irc_dcc_chat, irc_dcc_sendfile.                                         *)

Offer(t, mode) ==
    /\ Calls(t)
    /\ owner = None
    /\ New("LISTENING", mode)
    /\ Goes(t, "announce", lastId)
    /\ UNCHANGED <<owner, told, knock, ended, closed, fault>>

\* The notice and the request are queued for the peer; the file is open.
Announce(t) ==
    LET id == calls[t].id IN
    /\ calls[t].pc = "announce"
    /\ dcc' = [dcc EXCEPT ![id].fp = (dcc[id].mode = "SENDFILE")]
    /\ told' = told \cup {id}
    /\ Goes(t, "setcb", id)
    /\ UNCHANGED <<live, head, lastId, owner, knock, ended, closed, fault>>

SetCallback(t) ==
    LET id == calls[t].id IN
    /\ calls[t].pc = "setcb"
    /\ dcc' = [dcc EXCEPT ![id].cb = TRUE]
    /\ fault' = IF id \in live THEN fault ELSE "freed session"
    /\ Comes(t)
    /\ UNCHANGED <<live, head, lastId, owner, told, knock, ended, closed>>

\* The file does not open, the socket has no address, or there is no room for
\* the request: libirc_remove_dcc_session, which closes before it locks.
AnnounceFails(t) ==
    LET id == calls[t].id IN
    /\ calls[t].pc = "announce"
    /\ dcc' = [dcc EXCEPT ![id].sock = Closed]
    /\ Goes(t, "unlink", id)
    /\ UNCHANGED <<live, head, lastId, owner, told, knock, ended, closed, fault>>

AnnounceUndone(t) ==
    /\ calls[t].pc = "unlink"
    /\ owner = None
    /\ Remove(calls[t].id)
    /\ Comes(t)
    /\ UNCHANGED <<lastId, owner, told, knock, ended, closed>>

-----------------------------------------------------------------------------
(* irc_dcc_accept, irc_dcc_decline, irc_dcc_msg.                           *)

\* Mutant: a session in any state is accepted.
AcceptAnyState(t, id) ==
    /\ Finds(t, id)
    /\ \/ /\ dcc' = [dcc EXCEPT ![id].cb = TRUE, ![id].state = "CONNECTING"]
          /\ UNCHANGED closed
       \/ /\ dcc' = [dcc EXCEPT ![id] = Destroyed([@ EXCEPT !.cb = TRUE])]
          /\ closed' = closed \cup {id}
    /\ UNCHANGED <<live, head, lastId, owner, told, knock, ended, fault, calls>>

Accept(t, id) ==
    /\ Finds(t, id)
    /\ dcc[id].state = "INIT"
    /\ \/ /\ dcc' = [dcc EXCEPT ![id].cb = TRUE, ![id].state = "CONNECTING"]
          /\ UNCHANGED closed
       \/ /\ dcc' = [dcc EXCEPT ![id] = Destroyed([@ EXCEPT !.cb = TRUE])]
          /\ closed' = closed \cup {id}
    /\ UNCHANGED <<live, head, lastId, owner, told, knock, ended, fault, calls>>

Decline(t, id) ==
    /\ Finds(t, id)
    /\ dcc[id].state = "INIT"
    /\ DestroyNolock(id)
    /\ closed' = closed \cup {id}
    /\ UNCHANGED <<live, head, lastId, owner, told, knock, ended, fault, calls>>

Msg(t, id) ==
    /\ Finds(t, id)
    /\ dcc[id].mode = "CHAT"
    /\ dcc' = [dcc EXCEPT ![id].out = TRUE]
    /\ UNCHANGED <<live, head, lastId, owner, told, knock, ended, closed, fault, calls>>

-----------------------------------------------------------------------------
(* irc_dcc_destroy.                                                        *)

DestroyCloses(t, id) ==
    /\ Finds(t, id)
    /\ owner' = t
    /\ dcc' = [dcc EXCEPT ![id].sock = Closed]
    /\ Goes(t, "remove", id)
    /\ UNCHANGED <<live, head, lastId, told, knock, ended, closed, fault>>

DestroyMarks(t) ==
    LET id == calls[t].id IN
    /\ calls[t].pc = "remove"
    /\ dcc' = [dcc EXCEPT ![id].state = "REMOVED"]
    /\ closed' = closed \cup {id}
    /\ Unlock(t)
    /\ Comes(t)
    /\ UNCHANGED <<live, head, lastId, told, knock, ended, fault>>

\* What a call does after its first step.
CallGoesOn(t) ==
    Announce(t) \/ SetCallback(t) \/ AnnounceFails(t) \/ AnnounceUndone(t) \/ DestroyMarks(t)
=============================================================================
