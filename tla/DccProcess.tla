----------------------------- MODULE DccProcess -----------------------------
(***************************************************************************)
(* The loop of the library, second half: what is ready is served           *)
(* (libirc_dcc_process_descriptors), then the requests that the IRC server *)
(* brings (libirc_dcc_request), until the loop goes round or ends.         *)
(***************************************************************************)
EXTENDS DccLoop

rest == <<told, closed, calls, inSet, outSet, stale>>

\* What the steps that make no callback leave alone.
quiet == <<owner, ended, fault>>

State == dcc[cur].state
Mode  == dcc[cur].mode

\* The session at hand is read, and so must be allocated.
Visits(pc) == At(pc) /\ cur \in live

NextSession == loop' = [loop EXCEPT !.pc = IF dcc[cur].next = Nil THEN "done" ELSE "visit",
                                    !.cur = dcc[cur].next, !.err = FALSE]

Readable == dcc[cur].sock \in inSet
Writable == dcc[cur].sock \in outSet

ProcessBegins ==
    /\ At("ready")
    /\ Lock(Loop)
    /\ loop' = [loop EXCEPT !.pc = IF head = Nil THEN "done" ELSE "visit",
                            !.cur = head, !.err = FALSE]
    /\ UNCHANGED <<table, knock, ended, fault, rest>>

-----------------------------------------------------------------------------
(* A connection comes in, or the one that was started is made or fails.    *)

\* A chat is told at once, a file transfer is not.
Tells(err) ==
    IF Mode = "CHAT"
    THEN /\ UnlockForCallback
         /\ fault' = IF dcc[cur].cb THEN fault ELSE "null callback"
         /\ ended' = IF err THEN ended \cup {cur} ELSE ended
         /\ loop' = [loop EXCEPT !.pc = "callback", !.after = "connected",
                                 !.lock = TRUE, !.err = err]
    ELSE /\ loop' = [loop EXCEPT !.pc = "connected", !.err = err]
         /\ UNCHANGED quiet

TakesConnection ==
    /\ Visits("visit")
    /\ State = "LISTENING"
    /\ Readable
    /\ cur \in knock
    /\ knock' = knock \ {cur}
    /\ \/ /\ dcc' = [dcc EXCEPT ![cur].sock = FreeFd, ![cur].state = "CONNECTED"]
          /\ Tells(FALSE)
       \/ /\ UNCHANGED dcc
          /\ Tells(TRUE)
    /\ UNCHANGED <<live, head, lastId, rest>>

\* The descriptor was ready for a session that has gone.
BlocksInAccept ==
    /\ Visits("visit")
    /\ State = "LISTENING"
    /\ Readable
    /\ cur \notin knock
    /\ fault' = "blocked in accept"
    /\ UNCHANGED <<table, owner, knock, ended, loop, rest>>

Connects ==
    /\ Visits("visit")
    /\ State = "CONNECTING"
    /\ Writable
    /\ \/ /\ dcc' = [dcc EXCEPT ![cur].state = "CONNECTED"]
          /\ Tells(FALSE)
       \/ /\ UNCHANGED dcc
          /\ Tells(TRUE)
    /\ UNCHANGED <<live, head, lastId, knock, rest>>

Connected ==
    /\ Visits("connected")
    /\ IF loop.err
       THEN DestroyNolock(cur) /\ NextSession
       ELSE UNCHANGED dcc /\ Jump("recv")
    /\ UNCHANGED <<live, head, lastId, knock, quiet, rest>>

\* A closed socket is looked for in the sets.
BadDescriptor ==
    /\ Visits("visit")
    /\ State \in {"LISTENING", "CONNECTING", "CONNECTED", "CONFIRM_SIZE"}
    /\ dcc[cur].sock = Closed
    /\ fault' = "bad descriptor"
    /\ UNCHANGED <<table, owner, knock, ended, loop, rest>>

\* Nothing to accept or to finish: on to the data, if there can be any.
Passes ==
    /\ Visits("visit")
    /\ dcc[cur].sock = Closed => State \in {"INIT", "REMOVED"}
    /\ State = "LISTENING" => ~Readable
    /\ State = "CONNECTING" => ~Writable
    /\ IF State \in {"CONNECTED", "CONFIRM_SIZE"} THEN Jump("recv") ELSE NextSession
    /\ UNCHANGED <<table, knock, quiet, rest>>

-----------------------------------------------------------------------------
(* Data comes in.                                                          *)

InService == State \in {"CONNECTED", "CONFIRM_SIZE"}

NothingToRead ==
    /\ Visits("recv")
    /\ IF ~InService THEN NextSession ELSE ~Readable /\ Jump("send")
    /\ UNCHANGED <<table, knock, quiet, rest>>

\* Data for a session that receives none: abort().
Aborts ==
    /\ Visits("recv")
    /\ PeersTalk
    /\ InService
    /\ Readable
    /\ IF Mode = "SENDFILE" THEN State = "CONNECTED" ELSE State = "CONFIRM_SIZE"
    /\ fault' = "aborted"
    /\ UNCHANGED <<table, owner, knock, ended, loop, rest>>

\* Mutant: the session is dropped and nobody is told.
ReadFailsUntold ==
    /\ Visits("recv")
    /\ InService
    /\ Readable
    /\ \E f \in {dcc[cur].fp, FALSE} : dcc' = [dcc EXCEPT ![cur].fp = f]
    /\ Jump("drop")
    /\ UNCHANGED <<live, head, lastId, knock, quiet, rest>>

\* The read fails, the peer has closed, or it confirms another size.
ReadFails ==
    /\ Visits("recv")
    /\ InService
    /\ Readable
    /\ \E f \in {dcc[cur].fp, FALSE} : dcc' = [dcc EXCEPT ![cur].fp = f]
    /\ Callback(TRUE, "drop", TRUE)
    /\ UNCHANGED <<live, head, lastId, knock, rest>>

\* Mutant: the session is kept.
DropsNot ==
    /\ Visits("drop")
    /\ NextSession
    /\ UNCHANGED <<table, knock, quiet, rest>>

\* After an error was told: the session is marked, nothing is sent.
Drops ==
    /\ Visits("drop")
    /\ DestroyNolock(cur)
    /\ NextSession
    /\ UNCHANGED <<live, head, lastId, knock, quiet, rest>>

\* All or a part of the size the peer confirms.
ReadsConfirmation ==
    /\ Visits("recv")
    /\ State = "CONFIRM_SIZE"
    /\ Mode = "SENDFILE"
    /\ Readable
    /\ \E s \in {"CONFIRM_SIZE", "CONNECTED"} : dcc' = [dcc EXCEPT ![cur].state = s]
    /\ Jump("send")
    /\ UNCHANGED <<live, head, lastId, knock, quiet, rest>>

ReadsChat ==
    /\ Visits("recv")
    /\ State = "CONNECTED"
    /\ Mode = "CHAT"
    /\ Readable
    /\ Callback(FALSE, "send", TRUE)
    /\ UNCHANGED <<table, knock, rest>>

ReadsFile ==
    /\ Visits("recv")
    /\ State = "CONNECTED"
    /\ Mode = "RECVFILE"
    /\ Readable
    /\ Callback(FALSE, "confirm", FALSE)
    /\ UNCHANGED <<table, knock, rest>>

\* Mutant: the state is set whatever the callback did.
StillOpenAlways == TRUE

StillOpen == State # "REMOVED"

\* After the callback, before the mutex is taken again: the state is looked at,
Confirms ==
    /\ Visits("confirm")
    /\ Jump(IF StillOpen THEN "reopen" ELSE "relock")
    /\ UNCHANGED <<table, knock, quiet, rest>>

\* and then set, with the size to confirm as the data to send.
Reopens ==
    /\ Visits("reopen")
    /\ dcc' = [dcc EXCEPT ![cur].state = "CONFIRM_SIZE", ![cur].out = TRUE]
    /\ Jump("relock")
    /\ UNCHANGED <<live, head, lastId, knock, quiet, rest>>

Relocks ==
    /\ At("relock")
    /\ Lock(Loop)
    /\ Jump("send")
    /\ UNCHANGED <<table, knock, ended, fault, rest>>

-----------------------------------------------------------------------------
(* Data goes out.                                                          *)

NothingToSend ==
    /\ Visits("send")
    /\ dcc[cur].sock = Closed => State = "REMOVED"
    /\ State = "REMOVED" \/ ~Writable \/ ~dcc[cur].out
    /\ NextSession
    /\ UNCHANGED <<table, knock, quiet, rest>>

SendsNowhere ==
    /\ Visits("send")
    /\ State # "REMOVED"
    /\ dcc[cur].sock = Closed
    /\ fault' = "bad descriptor"
    /\ UNCHANGED <<table, owner, knock, ended, loop, rest>>

CanSend ==
    /\ Visits("send")
    /\ State # "REMOVED"
    /\ Writable
    /\ dcc[cur].out

SendFails ==
    /\ CanSend
    /\ Callback(TRUE, "drop", TRUE)
    /\ UNCHANGED <<table, knock, rest>>

\* A packet of a file: its confirmation is waited for, the sender is told.
SendsPacket ==
    /\ CanSend
    /\ State = "CONNECTED"
    /\ Mode = "SENDFILE"
    /\ dcc' = [dcc EXCEPT ![cur].state = "CONFIRM_SIZE"]
    /\ Callback(FALSE, "sent", TRUE)
    /\ UNCHANGED <<live, head, lastId, knock, rest>>

Sends ==
    /\ CanSend
    /\ ~(State = "CONNECTED" /\ Mode = "SENDFILE")
    /\ Jump("sent")
    /\ UNCHANGED <<table, knock, quiet, rest>>

\* What was sent leaves the buffer; some may stay.
Sent ==
    /\ Visits("sent")
    /\ \E more \in BOOLEAN : dcc' =
          [dcc EXCEPT ![cur].out = more,
             ![cur].state = IF ~more /\ State = "CONFIRM_SIZE" /\ Mode = "RECVFILE"
                            THEN "CONNECTED" ELSE @]
    /\ NextSession
    /\ UNCHANGED <<live, head, lastId, knock, quiet, rest>>

\* The confirmation of the last packet of a file went out: the receiver is
\* told, and from here on the mutex is no longer held.
FileReceived ==
    /\ Visits("sent")
    /\ State = "CONFIRM_SIZE"
    /\ Mode = "RECVFILE"
    /\ dcc' = [dcc EXCEPT ![cur].out = FALSE]
    /\ Callback(TRUE, "finish", FALSE)
    /\ UNCHANGED <<live, head, lastId, knock, rest>>

Finishes ==
    /\ Visits("finish")
    /\ DestroyNolock(cur)
    /\ NextSession
    /\ UNCHANGED <<live, head, lastId, knock, quiet, rest>>

ProcessEnds ==
    /\ At("done")
    /\ Unlock(Loop)
    /\ Jump("server")
    /\ UNCHANGED <<table, knock, ended, fault, rest>>

-----------------------------------------------------------------------------
(* The IRC server.                                                         *)

\* libirc_dcc_request: the session is made and the application is told of it.
Requested ==
    /\ At("server")
    /\ Calls(Loop)
    /\ owner = None
    /\ \E mode \in Incoming : New("INIT", mode)
    /\ loop' = [loop EXCEPT !.pc = "callback", !.after = "server", !.lock = FALSE]
    /\ UNCHANGED <<knock, quiet, rest>>

GoesRound ==
    /\ At("server")
    /\ Calls(Loop)
    /\ Jump("idle")
    /\ UNCHANGED <<table, knock, quiet, rest>>

\* The loop has returned and the application calls irc_destroy_session.
Torn ==
    /\ At("over")
    /\ live # {}
    /\ \A t \in Threads : Calls(t)
    /\ live' = {}
    /\ head' = Nil
    /\ UNCHANGED <<dcc, lastId, loop, knock, quiet, rest>>

Disconnected ==
    /\ At("server")
    /\ Calls(Loop)
    /\ Jump("over")
    /\ UNCHANGED <<table, knock, quiet, rest>>

\* A session that was freed is gone on with.
TouchesFreed ==
    /\ fault = "none"
    /\ loop.pc \in {"add", "visit", "connected", "recv", "confirm", "reopen", "drop",
                    "send", "sent", "finish"}
    /\ cur \notin live
    /\ fault' = "freed session"
    /\ UNCHANGED <<table, owner, knock, ended, loop, rest>>
=============================================================================
