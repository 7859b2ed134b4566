------------------------------ MODULE DccLoop ------------------------------
(***************************************************************************)
(* The loop of the library (irc_run), first half: the preparation of the   *)
(* descriptors (libirc_dcc_add_descriptors) and select.  The mutex is      *)
(* dropped around every callback and taken again after it.  What the       *)
(* system answers (a socket is ready, a read fails or ends) is a choice.   *)
(***************************************************************************)
EXTENDS DccApi

CONSTANTS
    Timeouts,      \* a session may wait longer than session->dcc_timeout
    PeersTalk,     \* a peer may send to a session that only sends a file
    Incoming       \* the modes of the sessions that peers ask for

ASSUME IncomingAssumption == Incoming \subseteq Modes

VARIABLES
    loop,          \* the place of the loop: see LoopState
    inSet,         \* the descriptors to read from, then those that are ready
    outSet,        \* the same to write to
    stale          \* a freed session was read on the way

loopVars == <<loop, inSet, outSet, stale>>

LoopPcs == {"idle", "add", "expired", "stale", "fed", "sets", "select", "ready",
            "visit", "connected", "recv", "confirm", "reopen", "relock", "drop",
            "send", "sent", "finish", "done", "server", "callback", "over"}

\* cur is the session at hand, nxt the one add_descriptors goes on with, err
\* the local err, after where to go after a callback: a place that is reached
\* with the mutex taken again if lock.
LoopState == [pc : LoopPcs, cur : Ids \cup {Nil}, nxt : Ids \cup {Nil},
              err : BOOLEAN, after : LoopPcs, lock : BOOLEAN]

LoopTypeOK ==
    /\ loop \in LoopState
    /\ inSet \in SUBSET Fds
    /\ outSet \in SUBSET Fds
    /\ stale \in BOOLEAN

LoopInit ==
    /\ loop = [pc |-> "idle", cur |-> Nil, nxt |-> Nil, err |-> FALSE,
               after |-> "idle", lock |-> FALSE]
    /\ inSet = {}
    /\ outSet = {}
    /\ stale = FALSE

cur == loop.cur
\* A program that met undefined behaviour is not followed any further.
At(pc) == loop.pc = pc /\ fault = "none"
Jump(pc) == loop' = [loop EXCEPT !.pc = pc]

\* Mutant: the callback is called with the mutex held.
UnlockNot == UNCHANGED owner

\* The mutex is dropped for a callback.
UnlockForCallback == Unlock(Loop)

\* A callback about the session at hand; the last one if final.
Callback(final, after, lock) ==
    /\ UnlockForCallback
    /\ fault' = IF dcc[cur].cb THEN fault ELSE "null callback"
    /\ ended' = IF final THEN ended \cup {cur} ELSE ended
    /\ loop' = [loop EXCEPT !.pc = "callback", !.after = after, !.lock = lock]

\* Mutant: the mutex is not taken again.
ReturnsUnlocked ==
    /\ At("callback")
    /\ Calls(Loop)
    /\ Jump(loop.after)
    /\ UNCHANGED <<table, owner, told, knock, ended, closed, fault, calls, inSet, outSet, stale>>

CallbackReturns ==
    /\ At("callback")
    /\ Calls(Loop)
    /\ IF loop.lock THEN Lock(Loop) ELSE UNCHANGED owner
    /\ Jump(loop.after)
    /\ UNCHANGED <<table, told, knock, ended, closed, fault, calls, inSet, outSet, stale>>

-----------------------------------------------------------------------------
(* libirc_dcc_add_descriptors.                                             *)

AddBegins ==
    /\ At("idle")
    /\ Lock(Loop)
    /\ loop' = [loop EXCEPT !.pc = IF head = Nil THEN "sets" ELSE "add", !.cur = head]
    /\ UNCHANGED <<table, told, knock, ended, closed, fault, calls, inSet, outSet, stale>>

\* On to the session whose address was taken before this one was looked at.
AddNext(nxt) == loop' = [loop EXCEPT !.pc = IF nxt = Nil THEN "sets" ELSE "add", !.cur = nxt]

\* A session a call is still making has not waited that long.
TimedOut ==
    /\ Timeouts
    /\ dcc[cur].state \in {"INIT", "LISTENING", "CONNECTING"}
    /\ cur \notin Creating

\* Mutant: no session is told that it timed out.
ExpiresUntold ==
    /\ At("add")
    /\ cur \in live
    /\ TimedOut
    /\ Remove(cur)
    /\ loop' = [loop EXCEPT !.pc = "stale", !.nxt = dcc[cur].next]
    /\ UNCHANGED <<lastId, owner, told, knock, ended, closed, calls, inSet, outSet, stale>>

ExpiresUnseen ==
    /\ At("add")
    /\ cur \in live
    /\ TimedOut
    /\ dcc[cur].state = "INIT"
    /\ Remove(cur)
    /\ loop' = [loop EXCEPT !.pc = "stale", !.nxt = dcc[cur].next]
    /\ UNCHANGED <<lastId, owner, told, knock, ended, closed, calls, inSet, outSet, stale>>

Expires ==
    /\ At("add")
    /\ cur \in live
    /\ TimedOut
    /\ dcc[cur].state # "INIT"
    /\ UnlockForCallback
    /\ ended' = ended \cup {cur}
    /\ loop' = [loop EXCEPT !.pc = "callback", !.nxt = dcc[cur].next,
                            !.after = "expired", !.lock = TRUE]
    /\ UNCHANGED <<table, told, knock, closed, fault, calls, inSet, outSet, stale>>

Expired ==
    /\ At("expired")
    /\ Remove(cur)
    /\ Jump("stale")
    /\ UNCHANGED <<lastId, owner, told, knock, ended, closed, calls, inSet, outSet, stale>>

\* The state of the freed session is read twice more (dcc.c:144, 166), which is
\* undefined.  It is noted and, so that what follows is not lost, the block is
\* taken to hold what it held when it was freed.
Stale ==
    /\ At("stale")
    /\ stale' = TRUE
    /\ fault' = IF dcc[cur].state = "REMOVED" THEN "double free" ELSE fault
    /\ AddNext(loop.nxt)
    /\ UNCHANGED <<table, owner, told, knock, ended, closed, calls, inSet, outSet>>

\* A file is being sent and the buffer is empty.
Hungry ==
    /\ dcc[cur].state = "CONNECTED"
    /\ dcc[cur].mode = "SENDFILE"
    /\ dcc[cur].fp
    /\ ~dcc[cur].out

Feeds ==
    /\ At("add")
    /\ cur \in live
    /\ Hungry
    /\ dcc' = [dcc EXCEPT ![cur].out = TRUE]
    /\ AddNext(dcc[cur].next)
    /\ UNCHANGED <<live, head, lastId, owner, told, knock, ended, closed, fault, calls,
                   inSet, outSet, stale>>

\* The end of the file, or a read that fails.
FileEnds ==
    /\ At("add")
    /\ cur \in live
    /\ Hungry
    /\ UnlockForCallback
    /\ fault' = IF dcc[cur].cb THEN fault ELSE "null callback"
    /\ ended' = ended \cup {cur}
    /\ loop' = [loop EXCEPT !.pc = "callback", !.nxt = dcc[cur].next,
                            !.after = "fed", !.lock = TRUE]
    /\ UNCHANGED <<table, told, knock, closed, calls, inSet, outSet, stale>>

\* It is marked as removed and, in the same pass, removed.
Fed ==
    /\ At("fed")
    /\ Remove(cur)
    /\ AddNext(loop.nxt)
    /\ UNCHANGED <<lastId, owner, told, knock, ended, closed, calls, inSet, outSet, stale>>

\* Mutant: sessions are never swept.
SweepsNot ==
    /\ At("add")
    /\ cur \in live
    /\ ~Hungry
    /\ AddNext(dcc[cur].next)
    /\ UNCHANGED <<table, fault, owner, told, knock, ended, closed, calls, inSet, outSet, stale>>

\* The session is removed if it is marked so, and left alone otherwise.
Sweeps ==
    /\ At("add")
    /\ cur \in live
    /\ ~Hungry
    /\ IF dcc[cur].state = "REMOVED"
       THEN Remove(cur)
       ELSE UNCHANGED <<dcc, head, live, fault>>
    /\ AddNext(dcc[cur].next)
    /\ UNCHANGED <<lastId, owner, told, knock, ended, closed, calls, inSet, outSet, stale>>

ToRead(d) ==
    \/ d.state \in {"LISTENING", "CONNECTED"}
    \/ d.state = "CONFIRM_SIZE" /\ d.mode = "SENDFILE"

ToWrite(d) ==
    \/ d.state = "CONNECTING"
    \/ d.state = "CONNECTED" /\ d.out
    \/ d.state = "CONFIRM_SIZE" /\ d.mode = "RECVFILE" /\ d.out

\* The second pass over the list, under the same lock.
SetsMade ==
    /\ At("sets")
    /\ LET r == {dcc[id].sock : id \in {i \in Listed : ToRead(dcc[i])}}
           w == {dcc[id].sock : id \in {i \in Listed : ToWrite(dcc[i])}}
       IN /\ inSet' = r \ {Closed}
          /\ outSet' = w \ {Closed}
          /\ fault' = IF Closed \in r \cup w THEN "bad descriptor" ELSE fault
    /\ Unlock(Loop)
    /\ Jump("select")
    /\ UNCHANGED <<table, told, knock, ended, closed, calls, stale>>

-----------------------------------------------------------------------------
(* select.                                                                 *)

Open == {dcc[id].sock : id \in live} \ {Closed}

\* Descriptors of listening sockets on which nobody waits.
Silent == {dcc[id].sock : id \in {i \in live : dcc[i].state = "LISTENING" /\ i \notin knock}}

Selects ==
    /\ At("select")
    /\ inSet \cup outSet \subseteq Open
    /\ inSet' \in SUBSET (inSet \ Silent)
    /\ outSet' \in SUBSET outSet
    /\ Jump("ready")
    /\ UNCHANGED <<table, owner, told, knock, ended, closed, fault, calls, stale>>

\* A descriptor was closed before select was entered: EBADF, irc_run returns.
SelectFails ==
    /\ At("select")
    /\ ~(inSet \cup outSet \subseteq Open)
    /\ Jump("over")
    /\ UNCHANGED <<table, owner, told, knock, ended, closed, fault, calls,
                   inSet, outSet, stale>>
=============================================================================
