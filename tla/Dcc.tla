-------------------------------- MODULE Dcc --------------------------------
(***************************************************************************)
(* Direct client connections: the loop of the library and the threads of   *)
(* the application, which call at any moment, also from callbacks.         *)
(***************************************************************************)
EXTENDS DccProcess

CONSTANTS
    Offers,        \* the modes of the sessions the application offers
    Offerers,      \* the threads that offer sessions, fail to, or take requests
    Destroyers     \* the threads that destroy sessions

ASSUME OffersAssumption == Offers \subseteq Modes

vars == <<table, knock, owner, ended, fault, rest, loop>>

Init == SessionsInit /\ CallsInit /\ LoopInit

\* A thread begins a call: that of the loop from a callback, or from a handler
\* that the main loop of Ecore runs between two turns.  A callback does not
\* destroy a session that ended (the documentation asks for that).
Begins(t) ==
    /\ t = Loop => At("callback") \/ At("server")
    /\ ~At("over")
    /\ \/ /\ t \in Offerers
          /\ \/ \E mode \in Offers : Offer(t, mode)
             \/ \E id \in Ids : Accept(t, id) \/ Decline(t, id)
       \/ \E id \in Ids : Msg(t, id)
       \/ /\ t \in Destroyers
          /\ \E id \in Ids : (t = Loop => id \notin ended) /\ DestroyCloses(t, id)

Calling(t) ==
    /\ fault = "none"
    /\ Begins(t) \/ CallGoesOn(t)
    /\ UNCHANGED loopVars

\* The peer that was told connects to the listening socket.
Knocks(id) ==
    /\ fault = "none"
    /\ id \in live \cap told
    /\ id \notin knock
    /\ dcc[id].state = "LISTENING"
    /\ dcc[id].sock # Closed
    /\ knock' = knock \cup {id}
    /\ UNCHANGED <<table, owner, ended, fault, rest, loop>>

Adding == AddBegins \/ ExpiresUnseen \/ Expires \/ Expired \/ Stale \/ Feeds \/ FileEnds
          \/ Fed \/ Sweeps \/ SetsMade \/ Selects \/ SelectFails

Serving == ProcessBegins \/ TakesConnection \/ BlocksInAccept \/ Connects \/ Connected
           \/ BadDescriptor \/ Passes \/ ProcessEnds

Reading == NothingToRead \/ Aborts \/ ReadFails \/ Drops \/ ReadsConfirmation \/ ReadsChat
           \/ ReadsFile \/ Confirms \/ Reopens \/ Relocks

Writing == NothingToSend \/ SendsNowhere \/ SendFails \/ SendsPacket \/ Sends \/ Sent
           \/ FileReceived \/ Finishes

Turning == CallbackReturns \/ Requested \/ GoesRound \/ Disconnected \/ Torn \/ TouchesFreed

Next ==
    \/ \E t \in Threads : Calling(t)
    \/ \E id \in Ids : Knocks(id)
    \/ Adding \/ Serving \/ Reading \/ Writing \/ Turning

Spec == Init /\ [][Next]_vars

TypeOK == SessionsTypeOK /\ CallsTypeOK /\ LoopTypeOK

\* The loop goes on, callbacks return and the threads finish the calls they
\* began; whoever waits for a mutex that is free again and again gets it.
\* Nobody has to call, connect or answer, and no session has to time out.
Fairness ==
    /\ SF_vars(Adding \/ Serving \/ Reading \/ Writing \/ CallbackReturns \/ GoesRound)
    /\ \A t \in Threads : SF_vars(fault = "none" /\ CallGoesOn(t) /\ UNCHANGED loopVars)

FairSpec == Spec /\ Fairness

-----------------------------------------------------------------------------
(* Properties.                                                             *)

\* The list holds every session that is allocated and nothing else, and ends,
\* however callbacks and threads add to it and the loop removes from it.
ListOk ==
    /\ Listed = live
    /\ \A k, l \in 0..MaxId : Nth[k] = Nth[l] /\ Nth[k] # Nil => k = l

\* A session is always put before the older ones and stays there, so that every
\* walk along the list comes to its end.
NewestFirst ==
    /\ head < lastId
    /\ \A id \in Ids : dcc[id].next < id

\* Nothing in the code is undefined: no session is read, used or freed after it
\* was freed, no callback that was not set is called, no closed socket is looked
\* for in a set, and the loop does not wait in accept.  Every timeout breaks it:
\* the state is read (dcc.c:144, 166) of the session just freed (dcc.c:137).
NoFault == fault = "none" /\ ~stale

\* What can be said where sessions time out: those two reads are all that is
\* undefined.  Nothing is freed twice or used in a callback, a call or a later
\* turn after it was freed, as long as free leaves the state in the block as it was.
OnlyStaleReads == fault = "none"

\* A session is freed once (libircclient.h: irc_dcc_destroy "can be called in any
\* moment, even from callbacks or from different threads").
FreedOnce == fault # "double free"

\* The callback given to irc_dcc_chat is called when the chat is accepted, so it
\* is set by then.
CallbackIsSet == fault # "null callback"

\* irc_run returns when the connection to the server ends: a session destroyed
\* by another thread does not end it.
LoopGoesOn == [][At("select") => loop'.pc # "over"]_vars

\* Once the application has ended a session, or was told of its end, it hears
\* no more of it.
NoCallbackAfterEnd ==
    [][loop'.pc = "callback" /\ ~At("callback") /\ ~At("server")
         => cur \notin ended \cup closed]_vars

\* A session that was destroyed stays so until it is freed (irc_dcc_destroy:
\* "It can be called in any moment, even from callbacks or from different
\* threads").
RemovedIsFinal ==
    [][\A id \in live \cap live' :
         dcc[id].state = "REMOVED" => dcc'[id].state = "REMOVED"]_vars

\* The places of the loop in its two walks over the list.
Walking == {"add", "expired", "stale", "fed", "sets", "visit", "connected", "recv", "drop",
            "send", "sent", "done"}

\* Only one thread is in the list at a time.
MutexHeld ==
    /\ loop.pc \in Walking => owner = Loop
    /\ \A t \in Threads : calls[t].pc = "remove" => owner = t

\* A session in one of the modes that had a callback and is gone was ended by
\* the application, or the callback was told of its end.
EndIsTold(modes) ==
    ~At("over") =>
        \A id \in Ids :
            id < lastId /\ id \notin live /\ dcc[id].mode \in modes /\ dcc[id].cb
                => id \in ended \cup closed

ChatEndIsTold == EndIsTold({"CHAT"})
AnyEndIsTold  == EndIsTold(Modes)

\* What is marked as removed is freed, unless the loop of the library ends.
RemovedIsFreed ==
    \A id \in Ids :
        id \in live /\ dcc[id].state = "REMOVED" ~> id \notin live \/ At("over")

\* The loop never stops at a mutex or in a walk over the list: whatever the
\* callbacks and the threads call, it comes round again or ends.
LoopComesRound == []<>(At("idle") \/ At("over"))
=============================================================================
