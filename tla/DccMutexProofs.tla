-------------------------- MODULE DccMutexProofs ---------------------------
(***************************************************************************)
(* Proofs about the direct connections for any number of threads and       *)
(* sessions.  First the mutex: when no file is received, only one thread   *)
(* is in the list at a time and a removed session stays so.  (The          *)
(* reception of a file is where the code goes on without the mutex.)       *)
(* Then what follows from orderly use: no undefined behaviour, and every   *)
(* chat that ends is told of it, once and last.                            *)
(***************************************************************************)
EXTENDS DccProofs

Receives == "RECVFILE" \in Incoming \cup Offers

NoFiles == \A id \in Ids : dcc[id].mode # "RECVFILE"

\* The inductive invariant: why the mutex is held in the walks.  The places
\* that are reached without it belong to the reception of a file; a callback
\* comes back to a walk with the mutex; and the thread of the loop is in a call
\* only where the loop is outside its walks.
MutexInv ==
    /\ MutexHeld
    /\ NoFiles
    /\ loop.pc \notin {"confirm", "reopen", "relock", "finish"}
    /\ loop.pc = "callback" => loop.after = "server" \/ (loop.after \in Walking /\ loop.lock)
    /\ calls[Loop].pc # "none" => loop.pc \in {"callback", "server"}

-----------------------------------------------------------------------------
(* What a step does to the blocks.                                         *)

\* No session becomes one that receives a file, and one that was removed stays
\* removed.
Final ==
    \A id \in Ids :
        /\ dcc'[id].mode # "RECVFILE"
        /\ id \in live /\ dcc[id].state = "REMOVED" => dcc'[id].state = "REMOVED"

LEMMA FinalKept ==
    ASSUME NoFiles, UNCHANGED dcc
    PROVE  Final
BY DEF NoFiles, Final

LEMMA FinalBlock ==
    ASSUME TableOK, NoFiles, NEW id \in Ids, NEW d, d.mode = dcc[id].mode,
           dcc[id].state = "REMOVED" => d.state = "REMOVED", dcc' = [dcc EXCEPT ![id] = d]
    PROVE  Final
BY DEF NoFiles, Final, TableOK

LEMMA FinalDestroy ==
    ASSUME TableOK, NoFiles, NEW id \in Ids, DestroyNolock(id)
    PROVE  Final
<1>1. CASE id \in Listed
  <2>1. Destroyed(dcc[id]).mode = dcc[id].mode /\ Destroyed(dcc[id]).state = "REMOVED"
    BY DEF Destroyed, TableOK, Session
  <2>2. dcc' = [dcc EXCEPT ![id] = Destroyed(dcc[id])]
    BY <1>1 DEF DestroyNolock, TableOK
  <2>. QED  BY <2>1, <2>2, FinalBlock
<1>2. CASE id \notin Listed
  BY <1>2, FinalKept DEF DestroyNolock
<1>. QED  BY <1>1, <1>2

LEMMA FinalRemove ==
    ASSUME TableOK, NoFiles, NEW id, Remove(id)
    PROVE  Final
<1>1. CASE id \in live
  <2>1. dcc' = Unlinked(id)
    BY <1>1 DEF Remove
  <2>2. ASSUME NEW i \in Ids
        PROVE  dcc'[i].mode = dcc[i].mode /\ dcc'[i].state = dcc[i].state
    <3>1. dcc[i] \in Session
      BY DEF TableOK
    <3>. QED  BY <2>1, <3>1 DEF Unlinked, Session
  <2>. QED  BY <2>2 DEF Final, NoFiles
<1>2. CASE id \notin live
  BY <1>2, FinalKept DEF Remove
<1>. QED  BY <1>1, <1>2

\* The block of a new session is none that is in use.
LEMMA FinalNew ==
    ASSUME TableOK, NoFiles, NEW state, NEW mode, mode # "RECVFILE", New(state, mode)
    PROVE  Final
<1>1. lastId \in Ids /\ lastId \notin live
  BY DccAssumption DEF New, TableOK, Given, Ids
<1>2. dcc'[lastId].mode = mode /\ \A i \in Ids \ {lastId} : dcc'[i] = dcc[i]
  BY <1>1 DEF New, TableOK
<1>. QED  BY <1>1, <1>2 DEF Final, NoFiles

-----------------------------------------------------------------------------
(* The mutex and the loop.                                                 *)

\* The kinds of steps of the loop: in a walk, into one, out of one, elsewhere.
Walks  == loop.pc \in Walking /\ loop'.pc \in Walking /\ UNCHANGED owner

Enters == loop'.pc \in Walking /\ Lock(Loop) /\ Calls(Loop)

Leaves ==
    /\ loop.pc \in Walking
    /\ Unlock(Loop)
    /\ \/ loop'.pc \in {"select", "server"}
       \/ loop'.pc = "callback" /\ loop'.after \in Walking /\ loop'.lock

Outside ==
    /\ Calls(Loop)
    /\ loop'.pc \in {"idle", "select", "ready", "over", "server", "callback"}
    /\ loop'.pc = "callback" => loop'.after = "server"
    /\ UNCHANGED owner \/ Lock(Loop)

LEMMA LoopMutex ==
    ASSUME IInv, MutexInv, UNCHANGED calls, Final,
           Walks \/ Enters \/ Leaves \/ Outside \/ UNCHANGED <<loop, owner>>
    PROVE  MutexInv'
<1>. USE DEF Walking, Calls, Lock, Unlock
<1>1. Loop \in Threads /\ None \notin Threads
  BY DccAssumption DEF Threads
<1>2. NoFiles'
  BY DEF Final, NoFiles
<1>3. CASE Walks
  BY <1>1, <1>2, <1>3 DEF Walks, MutexInv, MutexHeld
<1>4. CASE Enters
  BY <1>1, <1>2, <1>4 DEF Enters, MutexInv, MutexHeld
<1>5. CASE Leaves
  BY <1>1, <1>2, <1>5 DEF Leaves, MutexInv, MutexHeld
<1>6. CASE Outside
  BY <1>1, <1>2, <1>6 DEF Outside, MutexInv, MutexHeld
<1>7. CASE UNCHANGED <<loop, owner>>
  BY <1>2, <1>7 DEF MutexInv, MutexHeld
<1>. QED  BY <1>3, <1>4, <1>5, <1>6, <1>7

LEMMA JumpTo ==
    ASSUME LoopTypeOK, NEW pc, Jump(pc)
    PROVE  loop'.pc = pc
BY DEF LoopTypeOK, LoopState, Jump

LEMMA AddNextTo ==
    ASSUME LoopTypeOK, NEW nxt, AddNext(nxt)
    PROVE  loop'.pc \in Walking
<1>1. loop'.pc = IF nxt = Nil THEN "sets" ELSE "add"
  BY DEF LoopTypeOK, LoopState, AddNext
<1>. QED  BY <1>1 DEF Walking

LEMMA NextSessionTo ==
    ASSUME LoopTypeOK, NextSession
    PROVE  loop'.pc \in Walking
<1>1. loop'.pc = IF dcc[cur].next = Nil THEN "done" ELSE "visit"
  BY DEF LoopTypeOK, LoopState, NextSession
<1>. QED  BY <1>1 DEF Walking

LEMMA CallbackTo ==
    ASSUME LoopTypeOK, loop.pc \in Walking, NEW final, NEW after \in Walking,
           Callback(final, after, TRUE)
    PROVE  Leaves
<1>1. loop'.pc = "callback" /\ loop'.after = after /\ loop'.lock
  BY DEF Callback, LoopTypeOK, LoopState
<1>. QED  BY <1>1 DEF Leaves, Callback, UnlockForCallback

LEMMA TellsTo ==
    ASSUME LoopTypeOK, loop.pc \in Walking, NEW err, Tells(err)
    PROVE  Walks \/ Leaves
<1>1. CASE Mode = "CHAT"
  <2>1. loop'.pc = "callback" /\ loop'.after = "connected" /\ loop'.lock
    BY <1>1 DEF Tells, LoopTypeOK, LoopState
  <2>. QED  BY <1>1, <2>1 DEF Leaves, Tells, UnlockForCallback, Walking
<1>2. CASE Mode # "CHAT"
  <2>1. loop'.pc = "connected"
    BY <1>2 DEF Tells, LoopTypeOK, LoopState
  <2>. QED  BY <1>2, <2>1 DEF Walks, Tells, Walking, quiet
<1>. QED  BY <1>1, <1>2

LEMMA AddingMutex ==
    ASSUME IInv, MutexInv, Adding
    PROVE  MutexInv' /\ Final
<1>. TableOK /\ RestOK /\ LoopTypeOK /\ NoFiles
  BY DEF IInv, RestOK, MutexInv
<1>. USE DEF At, Visits
<1>1. CASE AddBegins
  <2>1. Final
    BY <1>1, FinalKept DEF AddBegins, table
  <2>2. Enters
    <3>1. loop'.pc \in Walking
      BY <1>1 DEF AddBegins, LoopTypeOK, LoopState, Walking
    <3>. QED  BY <1>1, <3>1 DEF AddBegins, Enters, Calls, MutexInv
  <2>. QED  BY <1>1, <2>1, <2>2, LoopMutex DEF AddBegins, rest
<1>2. CASE ExpiresUnseen
  <2>1. Final
    BY <1>2, FinalRemove DEF ExpiresUnseen
  <2>2. Walks
    <3>1. loop'.pc = "stale"
      BY <1>2 DEF ExpiresUnseen, LoopTypeOK, LoopState
    <3>. QED  BY <1>2, <3>1 DEF ExpiresUnseen, Walks, Walking
  <2>. QED  BY <1>2, <2>1, <2>2, LoopMutex DEF ExpiresUnseen, rest
<1>3. CASE Expires
  <2>1. Final
    BY <1>3, FinalKept DEF Expires, table
  <2>2. Leaves
    <3>1. loop'.pc = "callback" /\ loop'.after \in Walking /\ loop'.lock
      BY <1>3 DEF Expires, LoopTypeOK, LoopState, Walking
    <3>. QED  BY <1>3, <3>1 DEF Expires, Leaves, UnlockForCallback, Walking
  <2>. QED  BY <1>3, <2>1, <2>2, LoopMutex DEF Expires, rest
<1>4. CASE Expired
  <2>1. Final
    BY <1>4, FinalRemove DEF Expired
  <2>2. Walks
    BY <1>4, JumpTo DEF Expired, Walks, Walking, quiet
  <2>. QED  BY <1>4, <2>1, <2>2, LoopMutex DEF Expired, rest
<1>5. CASE Stale
  <2>1. Final
    BY <1>5, FinalKept DEF Stale, table
  <2>2. Walks
    BY <1>5, AddNextTo DEF Stale, Walks, Walking, quiet
  <2>. QED  BY <1>5, <2>1, <2>2, LoopMutex DEF Stale, rest
<1>6. CASE Feeds
  <2>1. Final
    <3>1. cur \in Ids /\ dcc \in [Ids -> Session]
      BY <1>6, AtHand DEF Feeds
    <3>2. \A i \in Ids : dcc'[i].mode = dcc[i].mode
                        /\ (dcc[i].state = "REMOVED" => dcc'[i].state = "REMOVED")
      BY <1>6, <3>1 DEF Feeds, Session, State
    <3>. QED  BY <3>2 DEF Final, NoFiles
  <2>2. Walks
    BY <1>6, AddNextTo DEF Feeds, Walks, Walking, quiet
  <2>. QED  BY <1>6, <2>1, <2>2, LoopMutex DEF Feeds, rest
<1>7. CASE FileEnds
  <2>1. Final
    BY <1>7, FinalKept DEF FileEnds, table
  <2>2. Leaves
    <3>1. loop'.pc = "callback" /\ loop'.after \in Walking /\ loop'.lock
      BY <1>7 DEF FileEnds, LoopTypeOK, LoopState, Walking
    <3>. QED  BY <1>7, <3>1 DEF FileEnds, Leaves, UnlockForCallback, Walking
  <2>. QED  BY <1>7, <2>1, <2>2, LoopMutex DEF FileEnds, rest
<1>8. CASE Fed
  <2>1. Final
    BY <1>8, FinalRemove DEF Fed
  <2>2. Walks
    BY <1>8, AddNextTo DEF Fed, Walks, Walking, quiet
  <2>. QED  BY <1>8, <2>1, <2>2, LoopMutex DEF Fed, rest
<1>9. CASE Sweeps
  <2>1. Final
    BY <1>9, FinalRemove, FinalKept DEF Sweeps
  <2>2. Walks
    BY <1>9, AddNextTo DEF Sweeps, Walks, Walking, quiet
  <2>. QED  BY <1>9, <2>1, <2>2, LoopMutex DEF Sweeps, rest
<1>10. CASE SetsMade
  <2>1. Final
    BY <1>10, FinalKept DEF SetsMade, table
  <2>2. Leaves
    BY <1>10, JumpTo DEF SetsMade, Leaves, Walking
  <2>. QED  BY <1>10, <2>1, <2>2, LoopMutex DEF SetsMade, rest
<1>11. CASE Selects
  <2>1. Final
    BY <1>11, FinalKept DEF Selects, table
  <2>2. Outside
    BY <1>11, JumpTo DEF Selects, Outside, Calls, MutexInv, quiet
  <2>. QED  BY <1>11, <2>1, <2>2, LoopMutex DEF Selects, rest
<1>12. CASE SelectFails
  <2>1. Final
    BY <1>12, FinalKept DEF SelectFails, table
  <2>2. Outside
    BY <1>12, JumpTo DEF SelectFails, Outside, Calls, MutexInv, quiet
  <2>. QED  BY <1>12, <2>1, <2>2, LoopMutex DEF SelectFails, rest
<1>. QED  BY <1>1, <1>2, <1>3, <1>4, <1>5, <1>6, <1>7, <1>8, <1>9, <1>10, <1>11, <1>12 DEF Adding

LEMMA ServingMutex ==
    ASSUME IInv, MutexInv, Serving
    PROVE  MutexInv' /\ Final
<1>. TableOK /\ RestOK /\ LoopTypeOK /\ NoFiles
  BY DEF IInv, RestOK, MutexInv
<1>. USE DEF At, Visits
<1>1. CASE ProcessBegins
  <2>1. Final
    BY <1>1, FinalKept DEF ProcessBegins, table
  <2>2. Enters
    <3>1. loop'.pc \in Walking
      BY <1>1 DEF ProcessBegins, LoopTypeOK, LoopState, Walking
    <3>. QED  BY <1>1, <3>1 DEF ProcessBegins, Enters, Calls, MutexInv
  <2>. QED  BY <1>1, <2>1, <2>2, LoopMutex DEF ProcessBegins, rest
<1>2. CASE TakesConnection
  <2>1. Final
    <3>1. cur \in Ids /\ dcc \in [Ids -> Session]
      BY <1>2, AtHand DEF TakesConnection
    <3>2. CASE dcc' = dcc
      BY <3>2, FinalKept
    <3>3. CASE dcc' = [dcc EXCEPT ![cur].sock = FreeFd, ![cur].state = "CONNECTED"]
      <4>1. \A i \in Ids : dcc'[i].mode = dcc[i].mode
                          /\ (dcc[i].state = "REMOVED" => dcc'[i].state = "REMOVED")
        BY <1>2, <3>1, <3>3 DEF TakesConnection, Session, State
      <4>. QED  BY <4>1 DEF Final, NoFiles
    <3>. QED  BY <1>2, <3>2, <3>3 DEF TakesConnection
  <2>2. Walks \/ Leaves
    BY <1>2, TellsTo DEF TakesConnection, Walking
  <2>. QED  BY <1>2, <2>1, <2>2, LoopMutex DEF TakesConnection, rest
<1>3. CASE BlocksInAccept
  <2>1. Final
    BY <1>3, FinalKept DEF BlocksInAccept, table
  <2>2. UNCHANGED <<loop, owner>>
    BY <1>3 DEF BlocksInAccept, quiet
  <2>. QED  BY <1>3, <2>1, <2>2, LoopMutex DEF BlocksInAccept, rest
<1>4. CASE Connects
  <2>1. Final
    <3>1. cur \in Ids /\ dcc \in [Ids -> Session]
      BY <1>4, AtHand DEF Connects
    <3>2. CASE dcc' = dcc
      BY <3>2, FinalKept
    <3>3. CASE dcc' = [dcc EXCEPT ![cur].state = "CONNECTED"]
      <4>1. \A i \in Ids : dcc'[i].mode = dcc[i].mode
                          /\ (dcc[i].state = "REMOVED" => dcc'[i].state = "REMOVED")
        BY <1>4, <3>1, <3>3 DEF Connects, Session, State
      <4>. QED  BY <4>1 DEF Final, NoFiles
    <3>. QED  BY <1>4, <3>2, <3>3 DEF Connects
  <2>2. Walks \/ Leaves
    BY <1>4, TellsTo DEF Connects, Walking
  <2>. QED  BY <1>4, <2>1, <2>2, LoopMutex DEF Connects, rest
<1>5. CASE Connected
  <2>1. Final
    BY <1>5, AtHand, FinalDestroy, FinalKept DEF Connected
  <2>2. Walks
    BY <1>5, JumpTo, NextSessionTo DEF Connected, Walks, Walking, quiet
  <2>. QED  BY <1>5, <2>1, <2>2, LoopMutex DEF Connected, rest
<1>6. CASE BadDescriptor
  <2>1. Final
    BY <1>6, FinalKept DEF BadDescriptor, table
  <2>2. UNCHANGED <<loop, owner>>
    BY <1>6 DEF BadDescriptor, quiet
  <2>. QED  BY <1>6, <2>1, <2>2, LoopMutex DEF BadDescriptor, rest
<1>7. CASE Passes
  <2>1. Final
    BY <1>7, FinalKept DEF Passes, table
  <2>2. Walks
    BY <1>7, JumpTo, NextSessionTo DEF Passes, Walks, Walking, quiet
  <2>. QED  BY <1>7, <2>1, <2>2, LoopMutex DEF Passes, rest
<1>8. CASE ProcessEnds
  <2>1. Final
    BY <1>8, FinalKept DEF ProcessEnds, table
  <2>2. Leaves
    BY <1>8, JumpTo DEF ProcessEnds, Leaves, Walking
  <2>. QED  BY <1>8, <2>1, <2>2, LoopMutex DEF ProcessEnds, rest
<1>. QED  BY <1>1, <1>2, <1>3, <1>4, <1>5, <1>6, <1>7, <1>8 DEF Serving

LEMMA ReadingMutex ==
    ASSUME IInv, MutexInv, Reading
    PROVE  MutexInv' /\ Final
<1>. TableOK /\ RestOK /\ LoopTypeOK /\ NoFiles
  BY DEF IInv, RestOK, MutexInv
<1>. USE DEF At, Visits
<1>1. CASE NothingToRead
  <2>1. Final
    BY <1>1, FinalKept DEF NothingToRead, table
  <2>2. Walks
    BY <1>1, JumpTo, NextSessionTo DEF NothingToRead, Walks, Walking, quiet
  <2>. QED  BY <1>1, <2>1, <2>2, LoopMutex DEF NothingToRead, rest
<1>2. CASE Aborts
  <2>1. Final
    BY <1>2, FinalKept DEF Aborts, table
  <2>2. UNCHANGED <<loop, owner>>
    BY <1>2 DEF Aborts, quiet
  <2>. QED  BY <1>2, <2>1, <2>2, LoopMutex DEF Aborts, rest
<1>3. CASE ReadFails
  <2>1. Final
    <3>1. cur \in Ids /\ dcc \in [Ids -> Session]
      BY <1>3, AtHand DEF ReadFails
    <3>2. \A i \in Ids : dcc'[i].mode = dcc[i].mode
                        /\ (dcc[i].state = "REMOVED" => dcc'[i].state = "REMOVED")
      BY <1>3, <3>1 DEF ReadFails, Session, State
    <3>. QED  BY <3>2 DEF Final, NoFiles
  <2>2. Leaves
    BY <1>3, CallbackTo DEF ReadFails, Walking
  <2>. QED  BY <1>3, <2>1, <2>2, LoopMutex DEF ReadFails, rest
<1>4. CASE Drops
  <2>1. Final
    BY <1>4, AtHand, FinalDestroy DEF Drops
  <2>2. Walks
    BY <1>4, NextSessionTo DEF Drops, Walks, Walking, quiet
  <2>. QED  BY <1>4, <2>1, <2>2, LoopMutex DEF Drops, rest
<1>5. CASE ReadsConfirmation
  <2>1. Final
    <3>1. cur \in Ids /\ dcc \in [Ids -> Session]
      BY <1>5, AtHand DEF ReadsConfirmation
    <3>2. \A i \in Ids : dcc'[i].mode = dcc[i].mode
                        /\ (dcc[i].state = "REMOVED" => dcc'[i].state = "REMOVED")
      BY <1>5, <3>1 DEF ReadsConfirmation, Session, State
    <3>. QED  BY <3>2 DEF Final, NoFiles
  <2>2. Walks
    BY <1>5, JumpTo DEF ReadsConfirmation, Walks, Walking, quiet
  <2>. QED  BY <1>5, <2>1, <2>2, LoopMutex DEF ReadsConfirmation, rest
<1>6. CASE ReadsChat
  <2>1. Final
    BY <1>6, FinalKept DEF ReadsChat, table
  <2>2. Leaves
    BY <1>6, CallbackTo DEF ReadsChat, Walking
  <2>. QED  BY <1>6, <2>1, <2>2, LoopMutex DEF ReadsChat, rest
<1>7. CASE ReadsFile
  BY <1>7, AtHand DEF ReadsFile, MutexInv, NoFiles, Mode
<1>8. CASE Confirms
  BY <1>8 DEF Confirms, MutexInv
<1>9. CASE Reopens
  BY <1>9 DEF Reopens, MutexInv
<1>10. CASE Relocks
  BY <1>10 DEF Relocks, MutexInv
<1>. QED  BY <1>1, <1>2, <1>3, <1>4, <1>5, <1>6, <1>7, <1>8, <1>9, <1>10 DEF Reading

LEMMA WritingMutex ==
    ASSUME IInv, MutexInv, Writing
    PROVE  MutexInv' /\ Final
<1>. TableOK /\ RestOK /\ LoopTypeOK /\ NoFiles
  BY DEF IInv, RestOK, MutexInv
<1>. USE DEF At, Visits
<1>1. CASE NothingToSend
  <2>1. Final
    BY <1>1, FinalKept DEF NothingToSend, table
  <2>2. Walks
    BY <1>1, NextSessionTo DEF NothingToSend, Walks, Walking, quiet
  <2>. QED  BY <1>1, <2>1, <2>2, LoopMutex DEF NothingToSend, rest
<1>2. CASE SendsNowhere
  <2>1. Final
    BY <1>2, FinalKept DEF SendsNowhere, table
  <2>2. UNCHANGED <<loop, owner>>
    BY <1>2 DEF SendsNowhere, quiet
  <2>. QED  BY <1>2, <2>1, <2>2, LoopMutex DEF SendsNowhere, rest
<1>3. CASE SendFails
  <2>1. Final
    BY <1>3, FinalKept DEF SendFails, CanSend, table
  <2>2. Leaves
    BY <1>3, CallbackTo DEF SendFails, CanSend, Walking
  <2>. QED  BY <1>3, <2>1, <2>2, LoopMutex DEF SendFails, rest
<1>4. CASE SendsPacket
  <2>1. Final
    <3>1. cur \in Ids /\ dcc \in [Ids -> Session]
      BY <1>4, AtHand DEF SendsPacket, CanSend
    <3>2. \A i \in Ids : dcc'[i].mode = dcc[i].mode
                        /\ (dcc[i].state = "REMOVED" => dcc'[i].state = "REMOVED")
      BY <1>4, <3>1 DEF SendsPacket, CanSend, Session, State
    <3>. QED  BY <3>2 DEF Final, NoFiles
  <2>2. Leaves
    BY <1>4, CallbackTo DEF SendsPacket, CanSend, Walking
  <2>. QED  BY <1>4, <2>1, <2>2, LoopMutex DEF SendsPacket, rest
<1>5. CASE Sends
  <2>1. Final
    BY <1>5, FinalKept DEF Sends, CanSend, table
  <2>2. Walks
    BY <1>5, JumpTo DEF Sends, CanSend, Walks, Walking, quiet
  <2>. QED  BY <1>5, <2>1, <2>2, LoopMutex DEF Sends, rest
<1>6. CASE Sent
  <2>1. Final
    <3>1. cur \in Ids /\ dcc \in [Ids -> Session]
      BY <1>6, AtHand DEF Sent
    <3>2. \A i \in Ids : dcc'[i].mode = dcc[i].mode
                        /\ (dcc[i].state = "REMOVED" => dcc'[i].state = "REMOVED")
      BY <1>6, <3>1 DEF Sent, Session, State
    <3>. QED  BY <3>2 DEF Final, NoFiles
  <2>2. Walks
    BY <1>6, NextSessionTo DEF Sent, Walks, Walking, quiet
  <2>. QED  BY <1>6, <2>1, <2>2, LoopMutex DEF Sent, rest
<1>7. CASE FileReceived
  BY <1>7, AtHand DEF FileReceived, MutexInv, NoFiles, Mode
<1>8. CASE Finishes
  BY <1>8 DEF Finishes, MutexInv
<1>. QED  BY <1>1, <1>2, <1>3, <1>4, <1>5, <1>6, <1>7, <1>8 DEF Writing

LEMMA TurningMutex ==
    ASSUME ~Receives, IInv, MutexInv, Turning
    PROVE  MutexInv' /\ Final
<1>. TableOK /\ RestOK /\ LoopTypeOK /\ NoFiles
  BY DEF IInv, RestOK, MutexInv
<1>. USE DEF At, Visits
<1>1. CASE CallbackReturns
  <2>1. Final
    BY <1>1, FinalKept DEF CallbackReturns, table
  <2>2. Enters \/ Outside
    BY <1>1, JumpTo DEF CallbackReturns, Enters, Outside, MutexInv
  <2>. QED  BY <1>1, <2>1, <2>2, LoopMutex DEF CallbackReturns, rest
<1>2. CASE Requested
  <2>1. Final
    BY <1>2, FinalNew DEF Requested, Receives
  <2>2. loop'.pc = "callback" /\ loop'.after = "server"
    BY <1>2 DEF Requested, LoopTypeOK, LoopState
  <2>3. Outside
    BY <1>2, <2>2 DEF Requested, Outside, quiet
  <2>. QED  BY <1>2, <2>1, <2>3, LoopMutex DEF Requested, rest
<1>3. CASE GoesRound
  <2>1. Final
    BY <1>3, FinalKept DEF GoesRound, table
  <2>2. Outside
    BY <1>3, JumpTo DEF GoesRound, Outside, Calls, MutexInv, quiet
  <2>. QED  BY <1>3, <2>1, <2>2, LoopMutex DEF GoesRound, rest
<1>4. CASE Disconnected
  <2>1. Final
    BY <1>4, FinalKept DEF Disconnected, table
  <2>2. Outside
    BY <1>4, JumpTo DEF Disconnected, Outside, Calls, MutexInv, quiet
  <2>. QED  BY <1>4, <2>1, <2>2, LoopMutex DEF Disconnected, rest
<1>5. CASE Torn
  <2>1. Final
    BY <1>5, FinalKept DEF Torn, table
  <2>2. UNCHANGED <<loop, owner>>
    BY <1>5 DEF Torn, quiet
  <2>. QED  BY <1>5, <2>1, <2>2, LoopMutex DEF Torn, rest
<1>6. CASE TouchesFreed
  <2>1. Final
    BY <1>6, FinalKept DEF TouchesFreed, table
  <2>2. UNCHANGED <<loop, owner>>
    BY <1>6 DEF TouchesFreed, quiet
  <2>. QED  BY <1>6, <2>1, <2>2, LoopMutex DEF TouchesFreed, rest
<1>. QED  BY <1>1, <1>2, <1>3, <1>4, <1>5, <1>6 DEF Turning

-----------------------------------------------------------------------------
(* The mutex and the calls.                                                *)

\* A step of a call that neither takes the mutex nor gives it back.
LEMMA CallMutex ==
    ASSUME MutexInv, Final, UNCHANGED <<owner, loop>>, NEW t \in Threads,
           t = Loop => loop.pc \in {"callback", "server"},
           \A u \in Threads \ {t} : calls'[u] = calls[u],
           calls'[t].pc # "remove"
    PROVE  MutexInv'
<1>1. NoFiles'
  BY DEF Final, NoFiles
<1>2. Loop \in Threads
  BY DEF Threads
<1>. QED  BY <1>1, <1>2 DEF MutexInv, MutexHeld

LEMMA BeginsMutex ==
    ASSUME ~Receives, IInv, MutexInv, NEW t \in Threads, Begins(t), UNCHANGED loopVars
    PROVE  MutexInv' /\ Final
<1>. TableOK /\ RestOK /\ CallsTypeOK /\ NoFiles
  BY DEF IInv, RestOK, MutexInv
<1>0. /\ t = Loop => loop.pc \in {"callback", "server"}
      /\ UNCHANGED loop
      /\ calls[t].pc = "none" => calls[t].pc # "remove"
  BY DEF Begins, At, loopVars
<1>1. ASSUME NEW mode \in Offers, Offer(t, mode)
      PROVE  MutexInv' /\ Final
  <2>1. Final
    BY <1>1, FinalNew DEF Offer, Receives
  <2>2. /\ calls'[t].pc = "announce"
        /\ \A u \in Threads \ {t} : calls'[u] = calls[u]
    BY <1>1 DEF Offer, Goes, CallsTypeOK
  <2>. QED  BY <1>0, <1>1, <2>1, <2>2, CallMutex DEF Offer
<1>2. ASSUME NEW id \in Ids, Accept(t, id)
      PROVE  MutexInv' /\ Final
  <2>. DEFINE c == [dcc[id] EXCEPT !.cb = TRUE, !.state = "CONNECTING"]
              r == Destroyed([dcc[id] EXCEPT !.cb = TRUE])
  <2>1. /\ c.mode = dcc[id].mode /\ dcc[id].state = "INIT"
        /\ r.mode = dcc[id].mode /\ r.state = "REMOVED"
    BY <1>2 DEF Accept, TableOK, Session, Destroyed
  <2>2. dcc' = [dcc EXCEPT ![id] = c] \/ dcc' = [dcc EXCEPT ![id] = r]
    BY <1>2 DEF Accept, TableOK
  <2>. HIDE DEF c, r
  <2>4. Final
    BY <2>1, <2>2, FinalBlock
  <2>. QED  BY <1>0, <1>2, <2>4, CallMutex DEF Accept, Finds, Calls
<1>3. ASSUME NEW id \in Ids, Decline(t, id)
      PROVE  MutexInv' /\ Final
  <2>1. Final
    BY <1>3, FinalDestroy DEF Decline
  <2>. QED  BY <1>0, <1>3, <2>1, CallMutex DEF Decline, Finds, Calls
<1>4. ASSUME NEW id \in Ids, Msg(t, id)
      PROVE  MutexInv' /\ Final
  <2>1. \A i \in Ids : dcc'[i].mode = dcc[i].mode /\ dcc'[i].state = dcc[i].state
    BY <1>4 DEF Msg, TableOK, Session
  <2>2. Final
    BY <2>1 DEF Final, NoFiles
  <2>. QED  BY <1>0, <1>4, <2>2, CallMutex DEF Msg, Finds, Calls
<1>5. ASSUME NEW id \in Ids, DestroyCloses(t, id)
      PROVE  MutexInv' /\ Final
  <2>1. \A i \in Ids : dcc'[i].mode = dcc[i].mode /\ dcc'[i].state = dcc[i].state
    BY <1>5 DEF DestroyCloses, TableOK, Session
  <2>2. Final
    BY <2>1 DEF Final, NoFiles
  <2>3. owner = None /\ owner' = t /\ None \notin Threads
    BY <1>5, DccAssumption DEF DestroyCloses, Finds
  <2>4. Loop \in Threads /\ loop.pc \notin Walking
    BY <2>3 DEF MutexInv, MutexHeld, Threads
  <2>5. \A u \in Threads : calls'[u].pc = "remove" => u = t
    BY <1>5, <2>3 DEF DestroyCloses, Goes, CallsTypeOK, MutexInv, MutexHeld
  <2>6. calls'[Loop].pc # "none" => loop.pc \in {"callback", "server"}
    BY <1>0, <1>5, <2>4 DEF DestroyCloses, Goes, CallsTypeOK, MutexInv
  <2>. QED  BY <1>0, <2>2, <2>3, <2>4, <2>5, <2>6 DEF MutexInv, MutexHeld, Final, NoFiles
<1>. QED  BY <1>1, <1>2, <1>3, <1>4, <1>5 DEF Begins

LEMMA CallGoesOnMutex ==
    ASSUME IInv, MutexInv, NEW t \in Threads, CallGoesOn(t), UNCHANGED loopVars
    PROVE  MutexInv' /\ Final
<1>. TableOK /\ RestOK /\ CallsTypeOK /\ NoFiles
  BY DEF IInv, RestOK, MutexInv
<1>. DEFINE id == calls[t].id
<1>0. /\ UNCHANGED loop
      /\ t = Loop => loop.pc \in {"callback", "server"}
  BY DEF loopVars, MutexInv, CallGoesOn, Announce, SetCallback, AnnounceFails,
         AnnounceUndone, DestroyMarks
<1>1. id \in Ids /\ dcc \in [Ids -> Session]
  BY InCall DEF CallPcs, CallGoesOn, Announce, SetCallback, AnnounceFails,
         AnnounceUndone, DestroyMarks, TableOK
<1>2. CASE AnnounceUndone(t)
  <2>1. Final
    BY <1>2, FinalRemove DEF AnnounceUndone
  <2>2. calls'[t].pc = "none" /\ \A u \in Threads \ {t} : calls'[u] = calls[u]
    BY <1>2 DEF AnnounceUndone, Comes, NoCall, CallsTypeOK
  <2>. QED  BY <1>0, <1>2, <2>1, <2>2, CallMutex DEF AnnounceUndone
<1>3. CASE Announce(t)
  <2>1. \A i \in Ids : dcc'[i].mode = dcc[i].mode /\ dcc'[i].state = dcc[i].state
    BY <1>1, <1>3 DEF Announce, Session
  <2>2. Final
    BY <2>1 DEF Final, NoFiles
  <2>3. calls'[t].pc = "setcb" /\ \A u \in Threads \ {t} : calls'[u] = calls[u]
    BY <1>3 DEF Announce, Goes, CallsTypeOK
  <2>. QED  BY <1>0, <1>3, <2>2, <2>3, CallMutex DEF Announce
<1>4. CASE SetCallback(t)
  <2>1. \A i \in Ids : dcc'[i].mode = dcc[i].mode /\ dcc'[i].state = dcc[i].state
    BY <1>1, <1>4 DEF SetCallback, Session
  <2>2. Final
    BY <2>1 DEF Final, NoFiles
  <2>3. calls'[t].pc = "none" /\ \A u \in Threads \ {t} : calls'[u] = calls[u]
    BY <1>4 DEF SetCallback, Comes, NoCall, CallsTypeOK
  <2>. QED  BY <1>0, <1>4, <2>2, <2>3, CallMutex DEF SetCallback
<1>5. CASE AnnounceFails(t)
  <2>1. \A i \in Ids : dcc'[i].mode = dcc[i].mode /\ dcc'[i].state = dcc[i].state
    BY <1>1, <1>5 DEF AnnounceFails, Session
  <2>2. Final
    BY <2>1 DEF Final, NoFiles
  <2>3. calls'[t].pc = "unlink" /\ \A u \in Threads \ {t} : calls'[u] = calls[u]
    BY <1>5 DEF AnnounceFails, Goes, CallsTypeOK
  <2>. QED  BY <1>0, <1>5, <2>2, <2>3, CallMutex DEF AnnounceFails
<1>6. CASE DestroyMarks(t)
  <2>1. \A i \in Ids : dcc'[i].mode = dcc[i].mode
                      /\ (dcc[i].state = "REMOVED" => dcc'[i].state = "REMOVED")
    BY <1>1, <1>6 DEF DestroyMarks, Session
  <2>2. Final
    BY <2>1 DEF Final, NoFiles
  <2>3. owner = t /\ owner' = None /\ None \notin Threads /\ Loop \in Threads
    BY <1>6, DccAssumption DEF DestroyMarks, Unlock, MutexInv, MutexHeld, Threads
  <2>4. calls' = [calls EXCEPT ![t] = NoCall] /\ NoCall.pc = "none"
    BY <1>6 DEF DestroyMarks, Comes, NoCall
  <2>5. loop.pc \notin Walking
    BY <1>0, <2>3 DEF MutexInv, MutexHeld, Walking
  <2>6. \A u \in Threads : calls'[u].pc # "remove"
    BY <2>3, <2>4 DEF CallsTypeOK, MutexInv, MutexHeld
  <2>7. calls'[Loop].pc # "none" => loop.pc \in {"callback", "server"}
    BY <2>3, <2>4 DEF CallsTypeOK, MutexInv
  <2>. QED  BY <1>0, <2>2, <2>3, <2>5, <2>6, <2>7 DEF MutexInv, MutexHeld, Final, NoFiles
<1>. QED  BY <1>2, <1>3, <1>4, <1>5, <1>6 DEF CallGoesOn

LEMMA KnocksMutex ==
    ASSUME IInv, MutexInv, NEW id \in Ids, Knocks(id)
    PROVE  MutexInv' /\ Final
<1>1. Final
  BY FinalKept DEF Knocks, MutexInv, table
<1>. QED  BY <1>1, LoopMutex DEF Knocks, rest

-----------------------------------------------------------------------------
(* The specification.                                                      *)

LEMMA InitMutex == Init => MutexInv
<1>. SUFFICES ASSUME Init PROVE MutexInv
  OBVIOUS
<1>1. NoFiles
  BY DEF Init, SessionsInit, NoFiles
<1>2. Loop \in Threads /\ \A t \in Threads : calls[t].pc = "none"
  BY DEF Init, CallsInit, NoCall, Threads
<1>3. loop.pc = "idle"
  BY DEF Init, LoopInit
<1>. QED  BY <1>1, <1>2, <1>3 DEF MutexInv, MutexHeld, Walking

LEMMA NextMutex ==
    ASSUME ~Receives
    PROVE  IInv /\ MutexInv /\ [Next]_vars => MutexInv' /\ (Final \/ UNCHANGED vars)
<1>. SUFFICES ASSUME IInv, MutexInv, [Next]_vars
              PROVE  MutexInv' /\ (Final \/ UNCHANGED vars)
  OBVIOUS
<1>1. ASSUME NEW t \in Threads, Calling(t)
      PROVE  MutexInv' /\ Final
  BY <1>1, BeginsMutex, CallGoesOnMutex DEF Calling
<1>2. ASSUME NEW id \in Ids, Knocks(id)
      PROVE  MutexInv' /\ Final
  BY <1>2, KnocksMutex
<1>3. CASE UNCHANGED vars
  BY <1>3, FinalKept, LoopMutex DEF vars, rest, table, MutexInv
<1>. QED  BY <1>1, <1>2, <1>3, AddingMutex, ServingMutex, ReadingMutex, WritingMutex,
             TurningMutex DEF Next

LEMMA MutexInvHolds ==
    ASSUME ~Receives
    PROVE  Spec => [](IInv /\ MutexInv)
<1>1. Init => IInv /\ MutexInv
  BY InitInv, InitMutex
<1>2. (IInv /\ MutexInv) /\ [Next]_vars => (IInv /\ MutexInv)'
  BY NextInv, NextMutex
<1>. QED  BY <1>1, <1>2, PTL DEF Spec

\* When no file is received, the loop holds mutex_dcc throughout its two walks
\* over the list, and a thread that destroys a session holds it: no two of them
\* are in the list at a time, for any number of threads, whichever kind of mutex.
THEOREM MutexIsHeld ==
    ASSUME "RECVFILE" \notin Incoming \cup Offers
    PROVE  Spec => []MutexHeld
<1>1. ~Receives
  BY DEF Receives
<1>2. IInv /\ MutexInv => MutexHeld
  BY DEF MutexInv
<1>. QED  BY <1>1, <1>2, MutexInvHolds, PTL

\* When no file is received, a session that was destroyed
\* (libirc_dcc_destroy_nolock, irc_dcc_destroy) stays so until it is freed.
THEOREM RemovedStays ==
    ASSUME "RECVFILE" \notin Incoming \cup Offers
    PROVE  Spec => RemovedIsFinal
<1>. DEFINE Stays == \A id \in live \cap live' :
                dcc[id].state = "REMOVED" => dcc'[id].state = "REMOVED"
<1>1. ~Receives
  BY DEF Receives
<1>2. ASSUME IInv, Final
      PROVE  Stays
  BY <1>2 DEF IInv, TableOK, Final
<1>3. IInv /\ MutexInv /\ [Next]_vars => [Stays]_vars
  BY <1>1, <1>2, NextMutex
<1>. QED  BY <1>1, <1>3, MutexInvHolds, PTL DEF Spec, RemovedIsFinal

-----------------------------------------------------------------------------
(* No undefined behaviour: the invariant.                                  *)

\* How sessions are used when nothing goes wrong: the thread of the loop makes,
\* accepts and declines them; it alone destroys them as well, or none times out
\* and no file is received; and a peer sends nothing to a session that only
\* sends.
OrderlyUse ==
    /\ Offerers \subseteq {Loop}
    /\ ~PeersTalk
    /\ Destroyers \subseteq {Loop} \/ (~Timeouts /\ ~Receives)

\* The place of the loop, or the one it comes back to from a callback.
Place == IF loop.pc = "callback" THEN loop.after ELSE loop.pc

\* The calls that make a session.
Makings == {"announce", "setcb", "unlink"}
Making(id) == calls[Loop].pc \in Makings /\ calls[Loop].id = id

\* The call gives the session up and has closed its socket.
Unmaking(id) == calls[Loop].pc = "unlink" /\ calls[Loop].id = id

\* A call has closed the socket of the session and not yet marked it.
Destroying(id) == \E t \in Threads : calls[t].pc = "remove" /\ calls[t].id = id

\* The places where the session at hand is being served, those where it is read
\* when the loop goes on, and those callbacks come back to.
Served    == {"connected", "recv", "confirm", "reopen", "relock", "drop", "send", "sent",
              "finish"}
AtSession == Served \cup {"add", "visit", "expired", "fed"}
Returns   == {"expired", "fed", "connected", "drop", "send", "confirm", "sent", "finish",
              "server"}

\* The loop has still to visit session id.
Ahead(id) ==
    \/ Place = "ready"
    \/ Place = "visit" /\ id <= cur
    \/ Place \in Served /\ id < cur

\* The session at hand was told of its end, or a file transfer failed untold.
Ending == Place \in {"drop", "finish", "expired", "fed"} \/ (Place = "connected" /\ loop.err)

\* What is true of a block whatever the loop does.
SoundBlock(id) ==
    /\ dcc[id].state = "INIT" => ~dcc[id].cb
    /\ dcc[id].state \in {"INIT", "REMOVED"} \/ dcc[id].cb \/ Making(id)
    /\ Making(id) => ~dcc[id].cb /\ dcc[id].state = "LISTENING"
    /\ dcc[id].state = "REMOVED" \/ dcc[id].sock # Closed \/ Unmaking(id) \/ Destroying(id)

\* A session on whose socket the loop is going to accept has a connection.
Awaited(id) ==
    Ahead(id) /\ dcc[id].state = "LISTENING" /\ dcc[id].sock \in inSet => id \in knock

\* A session that ended is marked, or will be in the next step at the place of
\* the loop.
EndedMarked(id) ==
    id \in ended \cup closed => dcc[id].state = "REMOVED" \/ (id = cur /\ Ending)

\* A chat that has gone or will be removed was ended by the application or told.
GoneTold(id) ==
    id < lastId /\ dcc[id].mode = "CHAT" /\ dcc[id].cb
    /\ (id \notin live \/ dcc[id].state = "REMOVED")
        => id \in ended \cup closed \/ loop.pc = "over"

SessionsOK ==
    /\ \A id \in live : SoundBlock(id) /\ Awaited(id) /\ EndedMarked(id)
    /\ \A id \in Ids : GoneTold(id)

\* What the loop is about to touch is allocated, and in the state that the
\* place of the loop stands for.
CurOK ==
    /\ cur < lastId /\ loop.nxt < lastId
    /\ Place \in AtSession => cur \in live
    /\ Place = "stale" => cur \in Ids
    /\ Place \in {"expired", "fed", "stale"} => loop.nxt \in live \cup {Nil}
    /\ Place \in {"expired", "fed"} => loop.nxt # cur
    /\ Place \in Served => dcc[cur].state # "INIT"
    /\ Place = "expired" => dcc[cur].state \notin {"INIT", "REMOVED"}
    /\ Place \in {"stale", "reopen"} => dcc[cur].state # "REMOVED"
    /\ Place \in {"drop", "finish", "expired", "fed"} => cur \in ended
    /\ Place = "connected" /\ loop.err /\ dcc[cur].mode = "CHAT" => cur \in ended
    /\ ~Timeouts => Place \notin {"expired", "stale"}
    /\ loop.pc = "callback" => loop.after \in Returns

\* The calls: a session that is made is younger than those of the loop, and one
\* that is destroyed has not ended before.
CallsOK ==
    /\ \A t \in Threads \ {Loop} :
          calls[t].pc \in {"none", "remove"} /\ (Destroyers \subseteq {Loop} => calls[t].pc = "none")
    /\ calls[Loop].pc # "none" => loop.pc \in {"callback", "server"}
    /\ \A t \in Threads : calls[t].pc # "none" => calls[t].id \in live
    /\ calls[Loop].pc \in Makings => cur < calls[Loop].id /\ loop.nxt < calls[Loop].id
    /\ \A t \in Threads : calls[t].pc = "remove" => ~Making(calls[t].id)
    /\ calls[Loop].pc = "remove" => calls[Loop].id \notin ended
    /\ \A id \in ended \cup closed : id < lastId

\* The inductive invariant.
OrderlyInv == OnlyStaleReads /\ SessionsOK /\ CurOK /\ CallsOK

\* What the steps below start from.
Known ==
    /\ OrderlyUse
    /\ IInv
    /\ Chained
    /\ Receives \/ MutexInv
    /\ OrderlyInv

\* The loop holds the mutex, or nobody else wants it.
Steady == Walking \cup {"confirm", "reopen", "relock", "finish"}

\* Nobody is in a call while the loop is at a session.
LEMMA Undisturbed ==
    ASSUME Known, loop.pc \in Steady
    PROVE  /\ \A t \in Threads : calls[t].pc = "none"
           /\ \A id : ~Making(id) /\ ~Unmaking(id) /\ ~Destroying(id)
           /\ Creating = {}
<1>0. Loop \in Threads /\ CallsOK
  BY DEF Threads, Known, OrderlyInv
<1>1. calls[Loop].pc = "none"
  BY <1>0 DEF Steady, Walking, CallsOK
<1>2. ASSUME NEW t \in Threads \ {Loop}
      PROVE  calls[t].pc = "none"
  <2>1. CASE Destroyers \subseteq {Loop}
    BY <1>0, <2>1 DEF CallsOK
  <2>2. CASE ~(Destroyers \subseteq {Loop})
    <3>1. MutexInv
      BY <2>2 DEF Known, OrderlyUse
    <3>2. loop.pc \in Walking
      BY <3>1 DEF MutexInv, Steady
    <3>3. owner = Loop
      BY <3>1, <3>2 DEF MutexInv, MutexHeld
    <3>4. calls[t].pc # "remove"
      BY <3>1, <3>3 DEF MutexInv, MutexHeld
    <3>. QED  BY <1>0, <3>4 DEF CallsOK
  <2>. QED  BY <2>1, <2>2
<1>3. \A t \in Threads : calls[t].pc = "none"
  BY <1>1, <1>2
<1>. QED  BY <1>0, <1>3 DEF Making, Makings, Unmaking, Destroying, Creating

-----------------------------------------------------------------------------
(* What a step leaves alone.                                               *)

\* A block keeps all that matters here.
Same(id) ==
    /\ dcc'[id].state = dcc[id].state
    /\ dcc'[id].mode = dcc[id].mode
    /\ dcc'[id].sock = dcc[id].sock
    /\ dcc'[id].cb = dcc[id].cb

LEMMA SoundKept ==
    ASSUME NEW id, SoundBlock(id), Same(id), Making(id)' <=> Making(id),
           Unmaking(id) => Unmaking(id)', Destroying(id) => Destroying(id)'
    PROVE  SoundBlock(id)'
BY DEF SoundBlock, Same

LEMMA AwaitedKept ==
    ASSUME NEW id, Awaited(id), Same(id), Ahead(id)' => Ahead(id) /\ UNCHANGED inSet,
           id \in knock => id \in knock'
    PROVE  Awaited(id)'
BY DEF Awaited, Same

LEMMA EndedKept ==
    ASSUME NEW id, EndedMarked(id), Same(id),
           id \in ended' \cup closed' => id \in ended \cup closed,
           id = cur /\ Ending => (id = cur)' /\ Ending'
    PROVE  EndedMarked(id)'
BY DEF EndedMarked, Same

LEMMA ToldKept ==
    ASSUME NEW id, GoneTold(id), Same(id), id < lastId' => id < lastId,
           id \in ended \cup closed => id \in ended' \cup closed',
           id \in live => id \in live',
           loop.pc = "over" => loop'.pc = "over"
    PROVE  GoneTold(id)'
BY DEF GoneTold, Same

\* The calls are not disturbed by a step of the loop that nobody runs against.
LEMMA CallsKept ==
    ASSUME Known, \A t \in Threads : calls[t].pc = "none", UNCHANGED <<calls, closed, lastId>>,
           \A id \in ended' : id < lastId
    PROVE  CallsOK'
<1>1. Loop \in Threads
  BY DEF Threads
<1>. QED  BY <1>1 DEF CallsOK, Known, OrderlyInv, Making, Makings

-----------------------------------------------------------------------------
(* The loop at a session.                                                  *)

\* The session at hand is a block of the list, followed by an older one.
LEMMA Followed ==
    ASSUME Known, NEW c \in live, c = cur
    PROVE  /\ c \in Ids /\ c \in Int /\ dcc \in [Ids -> Session] /\ dcc[c] \in Session
           /\ dcc[c].next \in live \cup {Nil} /\ dcc[c].next < c /\ dcc[c].next \in Int
           /\ c < lastId /\ dcc[c].next < lastId /\ lastId \in Int
           /\ Listed = live /\ \A i \in live : i \in Int
           /\ loop \in LoopState /\ LoopTypeOK /\ TableOK /\ fault = "none"
<1>1. IInv /\ Chained /\ TableOK /\ LoopTypeOK /\ OnlyStaleReads
  BY DEF Known, IInv, RestOK, OrderlyInv
<1>2. live \subseteq Ids /\ Ids \subseteq Int /\ lastId \in Int /\ Nil \in Int
  BY <1>1, DccAssumption DEF TableOK, Ids, Nil
<1>3. c \in Ids /\ dcc \in [Ids -> Session] /\ dcc[c] \in Session /\ c < lastId
  BY <1>1, <1>2 DEF TableOK, Given
<1>4. dcc[c].next \in live \cup {Nil}
  BY <1>1 DEF Chained, IsYoungest, Older
<1>5. dcc[c].next < c
  BY <1>1, <1>3 DEF TableOK, NewestFirst
<1>6. dcc[c].next \in Int /\ c \in Int
  BY <1>2, <1>3, <1>4
<1>7. dcc[c].next < lastId
  BY <1>2, <1>3, <1>5, <1>6
<1>8. Listed = live
  BY <1>1, ChainedListOk DEF ListOk
<1>. QED  BY <1>1, <1>2, <1>3, <1>4, <1>5, <1>6, <1>7, <1>8 DEF LoopTypeOK, OnlyStaleReads

\* The places in the walk over what is ready.
Serves == {"visit"} \cup Served

\* A step of the loop at session c, which changes nothing of the others.
AtServe(c) ==
    /\ c = cur
    /\ loop.pc \in Serves
    /\ UNCHANGED <<live, lastId, fault, rest>>
    /\ \A i \in Ids \ {c} : Same(i)
    /\ \A i \in knock \ {c} : i \in knock'
    /\ ended \subseteq ended' /\ ended' \subseteq ended \cup {c}

\* The other sessions are as sound as before.
LEMMA ServeOthers ==
    ASSUME Known, NEW c \in live, AtServe(c), CurOK',
           \A i \in live \ {c} : Ahead(i)' => Ahead(i),
           SoundBlock(c)', Awaited(c)', EndedMarked(c)', GoneTold(c)'
    PROVE  OrderlyInv'
<1>0. SessionsOK /\ CurOK /\ CallsOK /\ OnlyStaleReads
  BY DEF Known, OrderlyInv
<1>1. live' = live /\ live \subseteq Ids /\ UNCHANGED <<calls, closed, inSet, lastId>>
  BY DEF Known, IInv, TableOK, AtServe, rest
<1>2. \A t \in Threads : calls[t].pc = "none"
  BY Undisturbed DEF AtServe, Serves, Served, Steady, Walking
<1>3. \A i : Making(i)' = Making(i) /\ Unmaking(i)' = Unmaking(i)
             /\ Destroying(i)' = Destroying(i)
  BY <1>1 DEF Making, Unmaking, Destroying
<1>4. ASSUME NEW i \in live \ {c}
      PROVE  SoundBlock(i)' /\ Awaited(i)' /\ EndedMarked(i)'
  <2>1. /\ SoundBlock(i) /\ Awaited(i) /\ EndedMarked(i)
        /\ Same(i) /\ i # cur /\ (i \in knock => i \in knock')
        /\ (i \in ended' \cup closed' => i \in ended \cup closed)
    BY <1>0, <1>1 DEF SessionsOK, AtServe
  <2>. QED  BY <1>1, <1>3, <2>1, SoundKept, AwaitedKept, EndedKept
<1>5. ASSUME NEW i \in Ids \ {c}
      PROVE  GoneTold(i)'
  <2>1. GoneTold(i) /\ Same(i) /\ loop.pc # "over" /\ ended \subseteq ended'
    BY <1>0 DEF SessionsOK, AtServe, Serves, Served
  <2>. QED  BY <1>1, <2>1, ToldKept
<1>6. c < lastId
  BY DEF Known, IInv, TableOK, Given
<1>7. CallsOK'
  <2>1. \A id \in ended' : id < lastId
    BY <1>0, <1>6 DEF CallsOK, AtServe
  <2>. QED  BY <1>1, <1>2, <2>1, CallsKept
<1>8. SessionsOK'
  <2>1. \A i \in live' : SoundBlock(i)' /\ Awaited(i)' /\ EndedMarked(i)'
    BY <1>1, <1>4
  <2>2. \A i \in Ids : GoneTold(i)'
    BY <1>5
  <2>. QED  BY <2>1, <2>2 DEF SessionsOK
<1>9. OnlyStaleReads'
  BY <1>0 DEF AtServe, OnlyStaleReads
<1>. QED  BY <1>7, <1>8, <1>9 DEF OrderlyInv

\* The loop stays at the session it serves.
StaysAt(c) ==
    /\ loop'.cur = c /\ loop'.nxt = loop.nxt
    /\ Place' \in Served
    /\ loop'.pc = "callback" => loop'.after \in Returns
    /\ dcc'[c].state # "INIT"
    /\ dcc'[c].state # "REMOVED" => dcc'[c].cb /\ dcc'[c].sock # Closed
    /\ dcc'[c].state = "REMOVED" => Same(c)
    /\ c \in ended' \cup closed => dcc'[c].state = "REMOVED" \/ Ending'
    /\ Place' \in {"drop", "finish"} => c \in ended'
    /\ Place' = "connected" /\ loop'.err /\ dcc'[c].mode = "CHAT" => c \in ended'
    /\ Place' = "reopen" => dcc'[c].state # "REMOVED"

LEMMA StaysOK ==
    ASSUME Known, NEW c \in live, AtServe(c), StaysAt(c)
    PROVE  OrderlyInv'
<1>0. SessionsOK /\ CurOK /\ CallsOK
  BY DEF Known, OrderlyInv
<1>1. c \in Ids /\ c \in Int /\ c < lastId /\ \A i \in live : i \in Int
  BY Followed DEF AtServe
<1>2. UNCHANGED <<live, lastId, calls, closed, inSet>> /\ cur' = c /\ Place = loop.pc
  BY DEF AtServe, rest, StaysAt, cur, Place, Serves, Served
<1>3. \A id : ~Making(id) /\ ~Unmaking(id) /\ ~Destroying(id)
  BY Undisturbed DEF AtServe, Serves, Served, Steady, Walking
<1>4. \A id : ~Making(id)' /\ ~Unmaking(id)' /\ ~Destroying(id)'
  BY <1>2, <1>3 DEF Making, Unmaking, Destroying
<1>5. \A i : Ahead(i)' => i < c
  BY <1>2 DEF Ahead, StaysAt, Served
<1>6. \A i \in live \ {c} : Ahead(i)' => Ahead(i)
  <2>1. \A i \in live : i < c => Ahead(i)
    BY <1>1, <1>2 DEF Ahead, AtServe, Serves
  <2>. QED  BY <1>5, <2>1
<1>7. SoundBlock(c)'
  BY <1>4 DEF SoundBlock, StaysAt
<1>8. Awaited(c)'
  <2>1. ~(c < c)
    BY <1>1
  <2>. QED  BY <1>5, <2>1 DEF Awaited
<1>9. EndedMarked(c)'
  BY <1>2 DEF EndedMarked, StaysAt
<1>10. GoneTold(c)'
  <2>1. CASE dcc'[c].state = "REMOVED"
    <3>1. GoneTold(c) /\ Same(c) /\ loop.pc # "over" /\ ended \subseteq ended'
      BY <1>0, <1>1, <2>1 DEF SessionsOK, StaysAt, AtServe, Serves, Served
    <3>. QED  BY <1>2, <3>1, ToldKept
  <2>2. CASE dcc'[c].state # "REMOVED"
    BY <1>2, <2>2 DEF GoneTold
  <2>. QED  BY <2>1, <2>2
<1>11. CurOK'
  BY <1>0, <1>1, <1>2 DEF CurOK, StaysAt, Served
<1>. QED  BY <1>6, <1>7, <1>8, <1>9, <1>10, <1>11, ServeOthers

\* A block that the loop can leave.
Left(c) ==
    /\ dcc'[c].state = "INIT" => ~dcc'[c].cb
    /\ dcc'[c].state \in {"INIT", "REMOVED"} \/ dcc'[c].cb
    /\ dcc'[c].state = "REMOVED" \/ dcc'[c].sock # Closed
    /\ c \in ended \cup closed => dcc'[c].state = "REMOVED"
    /\ dcc'[c].mode = "CHAT" /\ dcc'[c].cb /\ dcc'[c].state = "REMOVED"
          => c \in ended \cup closed

\* The loop goes on to the next session.
LEMMA MovesOn ==
    ASSUME Known, NEW c \in live, AtServe(c), UNCHANGED ended, NextSession, Left(c)
    PROVE  OrderlyInv'
<1>. DEFINE n == dcc[c].next
<1>0. SessionsOK /\ CurOK /\ CallsOK
  BY DEF Known, OrderlyInv
<1>1. /\ c \in Ids /\ c \in Int /\ c < lastId /\ \A i \in live : i \in Int
      /\ n \in live \cup {Nil} /\ n < c /\ n \in Int /\ n < lastId
      /\ loop \in LoopState
  BY Followed DEF AtServe
<1>2. UNCHANGED <<live, lastId, calls, closed, inSet>> /\ Place = loop.pc /\ c = cur
  BY DEF AtServe, rest, cur, Place, Serves, Served
<1>3. /\ cur' = n /\ loop'.nxt = loop.nxt /\ loop'.pc = Place'
      /\ Place' = IF n = Nil THEN "done" ELSE "visit"
  BY <1>1, <1>2 DEF NextSession, cur, Place, LoopState
<1>. HIDE DEF n
<1>4. \A id : ~Making(id) /\ ~Unmaking(id) /\ ~Destroying(id)
  BY Undisturbed DEF AtServe, Serves, Served, Steady, Walking
<1>5. \A id : ~Making(id)' /\ ~Unmaking(id)' /\ ~Destroying(id)'
  BY <1>2, <1>4 DEF Making, Unmaking, Destroying
<1>6. \A i : Ahead(i)' => i <= n
  BY <1>3 DEF Ahead, Served
<1>7. \A i \in live \ {c} : Ahead(i)' => Ahead(i)
  <2>1. \A i \in live : i < c => Ahead(i)
    BY <1>1, <1>2 DEF Ahead, AtServe, Serves
  <2>2. \A i \in live : i <= n => i < c
    BY <1>1
  <2>. QED  BY <1>6, <2>1, <2>2
<1>8. SoundBlock(c)'
  BY <1>5 DEF SoundBlock, Left
<1>9. Awaited(c)'
  <2>1. ~(c <= n)
    BY <1>1
  <2>. QED  BY <1>6, <2>1 DEF Awaited
<1>10. EndedMarked(c)'
  BY <1>2 DEF EndedMarked, Left
<1>11. GoneTold(c)'
  BY <1>2 DEF GoneTold, Left
<1>12. CurOK'
  BY <1>0, <1>1, <1>2, <1>3 DEF CurOK, Served, AtSession
<1>. QED  BY <1>7, <1>8, <1>9, <1>10, <1>11, <1>12, ServeOthers

\* What is known of the session at hand.
LEMMA HandKnown ==
    ASSUME Known, NEW c \in live, c = cur, loop.pc \in Serves
    PROVE  /\ dcc[c].state = "INIT" => ~dcc[c].cb
           /\ dcc[c].state \in {"INIT", "REMOVED"} \/ dcc[c].cb
           /\ dcc[c].state = "REMOVED" \/ dcc[c].sock # Closed
           /\ c \in ended \cup closed =>
                 \/ dcc[c].state = "REMOVED"
                 \/ loop.pc \in {"drop", "finish"} \/ (loop.pc = "connected" /\ loop.err)
           /\ dcc[c].mode = "CHAT" /\ dcc[c].cb /\ dcc[c].state = "REMOVED"
                 => c \in ended \cup closed
           /\ loop.pc = "visit" /\ dcc[c].state = "LISTENING" /\ dcc[c].sock \in inSet
                 => c \in knock
           /\ loop.pc # "visit" => dcc[c].state # "INIT"
           /\ loop.pc \in {"drop", "finish"} => c \in ended
           /\ loop.pc = "connected" /\ loop.err /\ dcc[c].mode = "CHAT" => c \in ended
           /\ loop.pc = "reopen" => dcc[c].state # "REMOVED"
<1>1. SoundBlock(c) /\ Awaited(c) /\ EndedMarked(c) /\ GoneTold(c) /\ CurOK
  BY Followed DEF Known, OrderlyInv, SessionsOK
<1>2. ~Making(c) /\ ~Unmaking(c) /\ ~Destroying(c)
  BY Undisturbed DEF Serves, Served, Steady, Walking
<1>3. Place = loop.pc /\ loop.pc # "over"
  BY DEF Place, Serves, Served
<1>4. c < lastId /\ c <= cur
  BY Followed
<1>5. loop.pc = "visit" => Ahead(c)
  BY <1>3, <1>4 DEF Ahead
<1>6. Ending => loop.pc \in {"drop", "finish"} \/ (loop.pc = "connected" /\ loop.err)
  BY <1>3 DEF Ending, Serves, Served
<1>. QED  BY <1>1, <1>2, <1>3, <1>4, <1>5, <1>6
          DEF SoundBlock, Awaited, EndedMarked, GoneTold, CurOK, Serves

\* A step at session c that tells of a connection, or not.
LEMMA TellsStays ==
    ASSUME Known, NEW c \in live, c = cur, loop.pc = "visit",
           UNCHANGED <<live, lastId, rest>>, \A i \in Ids \ {c} : Same(i),
           \A i \in knock \ {c} : i \in knock',
           NEW err \in BOOLEAN, Tells(err),
           dcc[c].state \notin {"INIT", "REMOVED"},
           dcc'[c].state \notin {"INIT", "REMOVED"}, dcc'[c].mode = dcc[c].mode,
           dcc'[c].cb = dcc[c].cb, dcc'[c].sock # Closed
    PROVE  AtServe(c) /\ StaysAt(c)
<1>1. dcc[c].cb /\ c \notin ended \cup closed
  BY HandKnown DEF Serves
<1>2. loop \in LoopState
  BY Followed
<1>3. UNCHANGED closed
  BY DEF rest
<1>4. CASE Mode = "CHAT"
  <2>1. loop' = [loop EXCEPT !.pc = "callback", !.after = "connected", !.lock = TRUE, !.err = err]
        /\ fault' = fault /\ ended' = IF err THEN ended \cup {c} ELSE ended
    BY <1>1, <1>4 DEF Tells
  <2>2. loop'.pc = "callback" /\ loop'.after = "connected" /\ loop'.err = err
        /\ loop'.cur = c /\ loop'.nxt = loop.nxt
    BY <1>2, <2>1 DEF LoopState, cur
  <2>. QED  BY <1>1, <1>3, <2>1, <2>2 DEF AtServe, StaysAt, Place, Served, Returns, Serves, Ending
<1>5. CASE Mode # "CHAT"
  <2>1. loop' = [loop EXCEPT !.pc = "connected", !.err = err] /\ UNCHANGED quiet
    BY <1>5 DEF Tells
  <2>2. loop'.pc = "connected" /\ loop'.err = err /\ loop'.cur = c /\ loop'.nxt = loop.nxt
    BY <1>2, <2>1 DEF LoopState, cur
  <2>3. dcc'[c].mode # "CHAT"
    BY <1>5 DEF Mode
  <2>. QED  BY <1>1, <1>3, <2>1, <2>2, <2>3 DEF AtServe, StaysAt, Place, Served, Returns, Serves, Ending, quiet
<1>. QED  BY <1>4, <1>5

\* A step at session c that calls the callback.
LEMMA CallbackStays ==
    ASSUME Known, NEW c \in live, c = cur, loop.pc \in {"recv", "send", "sent"},
           UNCHANGED <<live, lastId, knock, rest>>, \A i \in Ids \ {c} : Same(i),
           NEW final \in BOOLEAN, NEW after \in Served \cap Returns, NEW lock,
           Callback(final, after, lock),
           final <=> after \in {"drop", "finish"}, after # "connected",
           dcc[c].state \notin {"INIT", "REMOVED"},
           dcc'[c].state \notin {"INIT", "REMOVED"}, dcc'[c].mode = dcc[c].mode,
           dcc'[c].cb = dcc[c].cb, dcc'[c].sock # Closed
    PROVE  AtServe(c) /\ StaysAt(c)
<1>1. dcc[c].cb /\ c \notin ended \cup closed
  BY HandKnown DEF Serves, Served
<1>2. loop \in LoopState
  BY Followed
<1>3. UNCHANGED closed
  BY DEF rest
<1>4. loop' = [loop EXCEPT !.pc = "callback", !.after = after, !.lock = lock]
      /\ fault' = fault /\ ended' = IF final THEN ended \cup {c} ELSE ended
  BY <1>1 DEF Callback
<1>5. loop'.pc = "callback" /\ loop'.after = after /\ loop'.cur = c /\ loop'.nxt = loop.nxt
  BY <1>2, <1>4 DEF LoopState, cur
<1>. QED  BY <1>1, <1>3, <1>4, <1>5 DEF AtServe, StaysAt, Place, Served, Returns, Serves, Ending

\* A step at session c that tells nobody and goes elsewhere in the round.
LEMMA JumpStays ==
    ASSUME Known, NEW c \in live, c = cur, loop.pc \in Serves \ {"drop", "finish"},
           loop.pc = "connected" => ~loop.err, dcc[c].state # "INIT",
           UNCHANGED <<live, lastId, knock, ended, fault, rest>>, \A i \in Ids \ {c} : Same(i),
           NEW pc \in Served \ {"drop", "finish", "connected"}, Jump(pc),
           pc = "reopen" => dcc[c].state # "REMOVED",
           Same(c) \/ (dcc[c].state # "REMOVED" /\ dcc'[c].state \notin {"INIT", "REMOVED"}
                       /\ dcc'[c].cb = dcc[c].cb /\ dcc'[c].sock = dcc[c].sock)
    PROVE  AtServe(c) /\ StaysAt(c)
<1>1. /\ dcc[c].state \in {"INIT", "REMOVED"} \/ dcc[c].cb
      /\ dcc[c].state = "REMOVED" \/ dcc[c].sock # Closed
      /\ c \in ended \cup closed => dcc[c].state = "REMOVED"
  BY HandKnown DEF Serves, Served
<1>2. loop' = [loop EXCEPT !.pc = pc] /\ loop \in LoopState
  BY Followed DEF Jump
<1>3. loop'.pc = pc /\ loop'.cur = c /\ loop'.nxt = loop.nxt
  BY <1>2 DEF LoopState, cur
<1>4. AtServe(c)
  BY DEF AtServe, Serves, Served
<1>5. UNCHANGED <<ended, closed>>
  BY DEF rest
<1>6. /\ dcc'[c].state # "INIT"
      /\ dcc'[c].state # "REMOVED" => dcc'[c].cb /\ dcc'[c].sock # Closed
      /\ dcc'[c].state = "REMOVED" => Same(c)
      /\ c \in ended' \cup closed' => dcc'[c].state = "REMOVED"
      /\ pc = "reopen" => dcc'[c].state # "REMOVED"
  BY <1>1, <1>5 DEF Same
<1>. QED  BY <1>3, <1>4, <1>5, <1>6 DEF StaysAt, Place, Served, Returns

\* The loop goes on from a session that it leaves as it is.
LEMMA LeavesAsIs ==
    ASSUME Known, NEW c \in live, c = cur, loop.pc \in Serves \ {"drop", "finish", "connected"},
           UNCHANGED <<table, knock, quiet, rest>>, NextSession
    PROVE  OrderlyInv'
<1>1. UNCHANGED <<dcc, live, lastId, knock, ended, fault, rest>>
  BY DEF table, quiet
<1>2. AtServe(c)
  BY <1>1 DEF AtServe, Same
<1>3. UNCHANGED closed
  BY <1>1 DEF rest
<1>4. Left(c)
  BY <1>1, <1>3, HandKnown DEF Left, Serves, Served
<1>. QED  BY <1>1, <1>2, <1>4, MovesOn

\* The loop marks a session that has ended and goes on.
LEMMA LeavesMarked ==
    ASSUME Known, NEW c \in live, c = cur, loop.pc \in {"drop", "finish", "connected"},
           loop.pc = "connected" => loop.err,
           DestroyNolock(c), UNCHANGED <<live, head, lastId, knock, quiet, rest>>, NextSession
    PROVE  OrderlyInv'
<1>1. c \in Ids /\ dcc \in [Ids -> Session] /\ dcc[c] \in Session /\ c \in Listed
  BY Followed
<1>2. dcc' = [dcc EXCEPT ![c] = Destroyed(dcc[c])]
  BY <1>1 DEF DestroyNolock
<1>3. /\ dcc'[c].state = "REMOVED" /\ dcc'[c].mode = dcc[c].mode /\ dcc'[c].cb = dcc[c].cb
      /\ \A i \in Ids \ {c} : Same(i)
  BY <1>1, <1>2 DEF Destroyed, Session, Same
<1>4. UNCHANGED <<live, lastId, knock, ended, fault, closed, rest>>
  BY DEF quiet, rest
<1>5. AtServe(c)
  BY <1>3, <1>4 DEF AtServe, Serves, Served
<1>6. dcc[c].mode = "CHAT" => c \in ended
  BY HandKnown DEF Serves, Served
<1>7. Left(c)
  BY <1>3, <1>4, <1>6 DEF Left
<1>. QED  BY <1>4, <1>5, <1>7, MovesOn

-----------------------------------------------------------------------------
(* What is ready is served.                                                *)

LEMMA ConnectionOrderly ==
    ASSUME Known, TakesConnection \/ Connects
    PROVE  OrderlyInv'
<1>. SUFFICES ASSUME NEW c \in live, c = cur PROVE OrderlyInv'
  BY DEF TakesConnection, Connects, Visits
<1>1. /\ c \in Ids /\ dcc \in [Ids -> Session] /\ dcc[c] \in Session
      /\ FreeFd \in Fds /\ Closed \notin Fds
  BY Followed, AtHand, DccAssumption DEF Known, IInv, Closed, Fds
<1>2. loop.pc = "visit" /\ dcc[c].state \in {"LISTENING", "CONNECTING"}
  BY DEF TakesConnection, Connects, Visits, At, State
<1>3. UNCHANGED <<live, lastId, rest>> /\ \A i \in knock \ {c} : i \in knock'
  BY DEF TakesConnection, Connects
<1>4. dcc[c].sock # Closed
  BY <1>2, HandKnown DEF Serves
<1>5. \/ dcc' = [dcc EXCEPT ![c].sock = FreeFd, ![c].state = "CONNECTED"] /\ Tells(FALSE)
      \/ dcc' = [dcc EXCEPT ![c].state = "CONNECTED"] /\ Tells(FALSE)
      \/ dcc' = dcc /\ Tells(TRUE)
  BY DEF TakesConnection, Connects
<1>6. PICK err \in BOOLEAN :
        /\ Tells(err)
        /\ dcc'[c].state \in {"LISTENING", "CONNECTING", "CONNECTED"}
        /\ dcc'[c].mode = dcc[c].mode /\ dcc'[c].cb = dcc[c].cb /\ dcc'[c].sock # Closed
        /\ \A i \in Ids \ {c} : Same(i)
  <2>1. CASE dcc' = [dcc EXCEPT ![c].sock = FreeFd, ![c].state = "CONNECTED"] /\ Tells(FALSE)
    BY <1>1, <2>1 DEF Same, Session
  <2>2. CASE dcc' = [dcc EXCEPT ![c].state = "CONNECTED"] /\ Tells(FALSE)
    BY <1>1, <1>4, <2>2 DEF Same, Session
  <2>3. CASE dcc' = dcc /\ Tells(TRUE)
    BY <1>2, <1>4, <2>3 DEF Same
  <2>. QED  BY <1>5, <2>1, <2>2, <2>3
<1>7. AtServe(c) /\ StaysAt(c)
  BY <1>2, <1>3, <1>6, TellsStays
<1>. QED  BY <1>7, StaysOK

LEMMA ServedOrderly ==
    ASSUME Known, BlocksInAccept \/ Connected \/ BadDescriptor \/ Passes
    PROVE  OrderlyInv'
<1>. SUFFICES ASSUME NEW c \in live, c = cur PROVE OrderlyInv'
  BY DEF BlocksInAccept, Connected, BadDescriptor, Passes, Visits
<1>1. CASE BlocksInAccept
  BY <1>1, HandKnown DEF BlocksInAccept, Visits, At, State, Readable, Serves
<1>2. CASE BadDescriptor
  BY <1>2, HandKnown DEF BadDescriptor, Visits, At, State, Serves
<1>3. CASE Connected
  <2>1. loop.pc = "connected"
    BY <1>3 DEF Connected, Visits, At
  <2>2. CASE loop.err
    BY <1>3, <2>1, <2>2, LeavesMarked DEF Connected
  <2>3. CASE ~loop.err
    <3>1. UNCHANGED <<dcc, live, lastId, knock, quiet, rest>> /\ Jump("recv")
      BY <1>3, <2>3 DEF Connected
    <3>2. dcc[c].state # "INIT"
      BY <2>1, HandKnown DEF Serves, Served
    <3>3. \A i : Same(i)
      BY <3>1 DEF Same
    <3>4. AtServe(c) /\ StaysAt(c)
      BY <2>1, <2>3, <3>1, <3>2, <3>3, JumpStays DEF Serves, Served, quiet
    <3>. QED  BY <3>4, StaysOK
  <2>. QED  BY <2>2, <2>3
<1>4. CASE Passes
  <2>1. loop.pc = "visit" /\ UNCHANGED <<table, knock, quiet, rest>>
    BY <1>4 DEF Passes, Visits, At
  <2>2. CASE State \in {"CONNECTED", "CONFIRM_SIZE"}
    <3>1. Jump("recv") /\ UNCHANGED <<dcc, live, lastId>> /\ dcc[c].state # "INIT"
      BY <1>4, <2>1, <2>2 DEF Passes, table, State
    <3>2. \A i : Same(i)
      BY <3>1 DEF Same
    <3>3. AtServe(c) /\ StaysAt(c)
      BY <2>1, <3>1, <3>2, JumpStays DEF Serves, Served, quiet
    <3>. QED  BY <3>3, StaysOK
  <2>3. CASE State \notin {"CONNECTED", "CONFIRM_SIZE"}
    BY <1>4, <2>1, <2>3, LeavesAsIs DEF Passes, Serves, Served
  <2>. QED  BY <2>2, <2>3
<1>. QED  BY <1>1, <1>2, <1>3, <1>4

LEMMA ReadingOrderly ==
    ASSUME Known, Reading
    PROVE  OrderlyInv'
<1>0. Relocks => loop.pc = "relock"
  BY DEF Relocks, At
<1>. SUFFICES ASSUME NEW c \in live, c = cur PROVE OrderlyInv'
  <2>1. CurOK
    BY DEF Known, OrderlyInv
  <2>2. loop.pc = "relock" => cur \in live
    BY <2>1 DEF CurOK, Place, AtSession, Served
  <2>. QED  BY <1>0, <2>2 DEF Reading, NothingToRead, Aborts, ReadFails, Drops, ReadsConfirmation,
            ReadsChat, ReadsFile, Confirms, Reopens, Visits
<1>. USE DEF Visits, At
<1>1. /\ c \in Ids /\ dcc \in [Ids -> Session] /\ dcc[c] \in Session
  BY Followed
<1>2. loop.pc \in Serves =>
        /\ dcc[c].state = "REMOVED" \/ dcc[c].sock # Closed
        /\ loop.pc # "visit" => dcc[c].state # "INIT"
        /\ loop.pc = "reopen" => dcc[c].state # "REMOVED"
  BY HandKnown
<1>3. CASE NothingToRead
  <2>1. loop.pc = "recv" /\ UNCHANGED <<table, knock, quiet, rest>>
    BY <1>3 DEF NothingToRead
  <2>2. CASE InService
    <3>1. Jump("send") /\ UNCHANGED <<dcc, live, lastId>> /\ dcc[c].state # "INIT"
      BY <1>3, <2>1, <2>2 DEF NothingToRead, table, InService, State
    <3>2. \A i : Same(i)
      BY <3>1 DEF Same
    <3>3. AtServe(c) /\ StaysAt(c)
      BY <2>1, <3>1, <3>2, JumpStays DEF Serves, Served, quiet
    <3>. QED  BY <3>3, StaysOK
  <2>3. CASE ~InService
    BY <1>3, <2>1, <2>3, LeavesAsIs DEF NothingToRead, Serves, Served
  <2>. QED  BY <2>2, <2>3
<1>4. CASE Aborts
  BY <1>4 DEF Aborts, Known, OrderlyUse
<1>5. CASE ReadFails
  <2>1. /\ loop.pc = "recv" /\ dcc[c].state \in {"CONNECTED", "CONFIRM_SIZE"}
        /\ UNCHANGED <<live, lastId, knock, rest>> /\ Callback(TRUE, "drop", TRUE)
    BY <1>5 DEF ReadFails, InService, State
  <2>2. \A i \in Ids : Same(i)
    BY <1>1, <1>5 DEF ReadFails, Same, Session
  <2>3. AtServe(c) /\ StaysAt(c)
    BY <1>1, <1>2, <2>1, <2>2, CallbackStays DEF Same, Served, Serves, Returns
  <2>. QED  BY <2>3, StaysOK
<1>6. CASE Drops
  BY <1>6, LeavesMarked DEF Drops
<1>7. CASE ReadsConfirmation
  <2>1. /\ loop.pc = "recv" /\ dcc[c].state = "CONFIRM_SIZE"
        /\ UNCHANGED <<live, lastId, knock, quiet, rest>> /\ Jump("send")
    BY <1>7 DEF ReadsConfirmation, State
  <2>2. PICK s \in {"CONFIRM_SIZE", "CONNECTED"} : dcc' = [dcc EXCEPT ![c].state = s]
    BY <1>7 DEF ReadsConfirmation
  <2>3. /\ \A i \in Ids \ {c} : Same(i)
        /\ dcc'[c].state = s /\ dcc'[c].cb = dcc[c].cb /\ dcc'[c].sock = dcc[c].sock
    BY <1>1, <2>2 DEF Same, Session
  <2>4. AtServe(c) /\ StaysAt(c)
    BY <2>1, <2>3, JumpStays DEF Serves, Served, quiet
  <2>. QED  BY <2>4, StaysOK
<1>8. CASE ReadsChat
  <2>1. /\ loop.pc = "recv" /\ dcc[c].state = "CONNECTED"
        /\ UNCHANGED <<dcc, live, lastId, knock, rest>> /\ Callback(FALSE, "send", TRUE)
    BY <1>8 DEF ReadsChat, State, table
  <2>2. \A i \in Ids : Same(i)
    BY <2>1 DEF Same
  <2>3. AtServe(c) /\ StaysAt(c)
    BY <1>1, <1>2, <2>1, <2>2, CallbackStays DEF Same, Served, Serves, Returns
  <2>. QED  BY <2>3, StaysOK
<1>9. CASE ReadsFile
  <2>1. /\ loop.pc = "recv" /\ dcc[c].state = "CONNECTED"
        /\ UNCHANGED <<dcc, live, lastId, knock, rest>> /\ Callback(FALSE, "confirm", FALSE)
    BY <1>9 DEF ReadsFile, State, table
  <2>2. \A i \in Ids : Same(i)
    BY <2>1 DEF Same
  <2>3. AtServe(c) /\ StaysAt(c)
    BY <1>1, <1>2, <2>1, <2>2, CallbackStays DEF Same, Served, Serves, Returns
  <2>. QED  BY <2>3, StaysOK
<1>10. CASE Confirms \/ Relocks
  <2>1. UNCHANGED <<dcc, live, lastId, knock, ended, fault, rest>> /\ \A i : Same(i)
    BY <1>10 DEF Confirms, Relocks, table, quiet, Same
  <2>2. /\ loop.pc \in {"confirm", "relock"}
        /\ \E pc \in {"reopen", "relock", "send"} :
              Jump(pc) /\ (pc = "reopen" => dcc[c].state # "REMOVED")
    BY <1>10 DEF Confirms, Relocks, StillOpen, State
  <2>3. dcc[c].state # "INIT"
    BY <1>2, <2>2 DEF Serves, Served
  <2>4. AtServe(c) /\ StaysAt(c)
    BY <2>1, <2>2, <2>3, JumpStays DEF Serves, Served
  <2>. QED  BY <2>4, StaysOK
<1>11. CASE Reopens
  <2>1. /\ loop.pc = "reopen" /\ UNCHANGED <<live, lastId, knock, quiet, rest>> /\ Jump("relock")
        /\ dcc' = [dcc EXCEPT ![c].state = "CONFIRM_SIZE", ![c].out = TRUE]
    BY <1>11 DEF Reopens
  <2>2. dcc[c].state \notin {"INIT", "REMOVED"}
    BY <1>2, <2>1 DEF Serves, Served
  <2>3. /\ \A i \in Ids \ {c} : Same(i)
        /\ dcc'[c].state = "CONFIRM_SIZE" /\ dcc'[c].cb = dcc[c].cb /\ dcc'[c].sock = dcc[c].sock
    BY <1>1, <2>1 DEF Same, Session
  <2>4. AtServe(c) /\ StaysAt(c)
    BY <2>1, <2>2, <2>3, JumpStays DEF Serves, Served, quiet
  <2>. QED  BY <2>4, StaysOK
<1>. QED  BY <1>3, <1>4, <1>5, <1>6, <1>7, <1>8, <1>9, <1>10, <1>11 DEF Reading

LEMMA WritingOrderly ==
    ASSUME Known, Writing
    PROVE  OrderlyInv'
<1>. SUFFICES ASSUME NEW c \in live, c = cur PROVE OrderlyInv'
  BY DEF Writing, NothingToSend, SendsNowhere, CanSend, SendFails, SendsPacket, Sends, Sent,
         FileReceived, Finishes, Visits
<1>. USE DEF Visits, At, CanSend
<1>1. c \in Ids /\ dcc \in [Ids -> Session] /\ dcc[c] \in Session
  BY Followed
<1>2. loop.pc \in Serves =>
        /\ dcc[c].state = "REMOVED" \/ dcc[c].sock # Closed
        /\ loop.pc # "visit" => dcc[c].state # "INIT"
  BY HandKnown
<1>3. CASE NothingToSend
  BY <1>3, LeavesAsIs DEF NothingToSend, Serves, Served
<1>4. CASE SendsNowhere
  BY <1>2, <1>4 DEF SendsNowhere, State, Serves, Served
<1>5. CASE SendFails
  <2>1. /\ loop.pc = "send" /\ dcc[c].state # "REMOVED"
        /\ UNCHANGED <<dcc, live, lastId, knock, rest>> /\ Callback(TRUE, "drop", TRUE)
    BY <1>5 DEF SendFails, State, table
  <2>2. \A i \in Ids : Same(i)
    BY <2>1 DEF Same
  <2>3. AtServe(c) /\ StaysAt(c)
    BY <1>1, <1>2, <2>1, <2>2, CallbackStays DEF Same, Served, Serves, Returns
  <2>. QED  BY <2>3, StaysOK
<1>6. CASE SendsPacket
  <2>1. /\ loop.pc = "send" /\ dcc[c].state = "CONNECTED"
        /\ UNCHANGED <<live, lastId, knock, rest>> /\ Callback(FALSE, "sent", TRUE)
        /\ dcc' = [dcc EXCEPT ![c].state = "CONFIRM_SIZE"]
    BY <1>6 DEF SendsPacket, State
  <2>2. /\ \A i \in Ids \ {c} : Same(i)
        /\ dcc'[c].state = "CONFIRM_SIZE" /\ dcc'[c].cb = dcc[c].cb
        /\ dcc'[c].mode = dcc[c].mode /\ dcc'[c].sock = dcc[c].sock
    BY <1>1, <2>1 DEF Same, Session
  <2>3. AtServe(c) /\ StaysAt(c)
    BY <1>1, <1>2, <2>1, <2>2, CallbackStays DEF Served, Serves, Returns
  <2>. QED  BY <2>3, StaysOK
<1>7. CASE Sends
  <2>1. /\ loop.pc = "send" /\ Jump("sent")
        /\ UNCHANGED <<dcc, live, lastId, knock, quiet, rest>> /\ \A i : Same(i)
    BY <1>7 DEF Sends, table, Same
  <2>2. dcc[c].state # "INIT"
    BY <1>2, <2>1 DEF Serves, Served
  <2>3. AtServe(c) /\ StaysAt(c)
    BY <2>1, <2>2, JumpStays DEF Serves, Served, quiet
  <2>. QED  BY <2>3, StaysOK
<1>8. CASE Sent
  <2>1. /\ loop.pc = "sent" /\ NextSession
        /\ UNCHANGED <<live, lastId, knock, ended, fault, rest>>
    BY <1>8 DEF Sent, quiet
  <2>2. PICK more \in BOOLEAN, s \in {dcc[c].state, "CONNECTED"} :
          /\ dcc' = [dcc EXCEPT ![c] = [dcc[c] EXCEPT !.out = more, !.state = s]]
          /\ s # dcc[c].state => dcc[c].state = "CONFIRM_SIZE"
    BY <1>1, <1>8 DEF Sent, State
  <2>3. /\ \A i \in Ids \ {c} : Same(i)
        /\ dcc'[c].state = s /\ dcc'[c].cb = dcc[c].cb
        /\ dcc'[c].mode = dcc[c].mode /\ dcc'[c].sock = dcc[c].sock
    BY <1>1, <2>2 DEF Same, Session
  <2>4. AtServe(c)
    BY <2>1, <2>3 DEF AtServe, Serves, Served
  <2>5. Left(c)
    <3>1. UNCHANGED <<ended, closed>>
      BY <2>1 DEF rest
    <3>. QED  BY <2>1, <2>2, <2>3, <3>1, HandKnown DEF Left, Serves, Served
  <2>. QED  BY <2>1, <2>4, <2>5, MovesOn
<1>9. CASE FileReceived
  <2>1. /\ loop.pc = "sent" /\ dcc[c].state = "CONFIRM_SIZE"
        /\ UNCHANGED <<live, lastId, knock, rest>> /\ Callback(TRUE, "finish", FALSE)
        /\ dcc' = [dcc EXCEPT ![c].out = FALSE]
    BY <1>9 DEF FileReceived, State
  <2>2. \A i \in Ids : Same(i)
    BY <1>1, <2>1 DEF Same, Session
  <2>3. AtServe(c) /\ StaysAt(c)
    BY <1>1, <1>2, <2>1, <2>2, CallbackStays DEF Same, Served, Serves, Returns
  <2>. QED  BY <2>3, StaysOK
<1>10. CASE Finishes
  BY <1>10, LeavesMarked DEF Finishes
<1>. QED  BY <1>3, <1>4, <1>5, <1>6, <1>7, <1>8, <1>9, <1>10 DEF Writing

-----------------------------------------------------------------------------
(* The loop between the sessions.                                          *)

\* A step of the loop that changes no session.
LEMMA PassesBy ==
    ASSUME Known, UNCHANGED <<live, lastId, ended, closed, calls, fault>>,
           \A i \in Ids : Same(i), calls[Loop].pc = "none" \/ UNCHANGED loop,
           \A i \in live : Awaited(i)', Ending => cur' = cur /\ Ending',
           loop.pc = "over" => loop'.pc = "over", CurOK'
    PROVE  OrderlyInv'
<1>0. SessionsOK /\ CallsOK /\ OnlyStaleReads /\ live \subseteq Ids /\ Loop \in Threads
  BY DEF Known, OrderlyInv, IInv, TableOK, Threads
<1>1. \A i : Making(i)' = Making(i) /\ Unmaking(i)' = Unmaking(i)
             /\ Destroying(i)' = Destroying(i)
  BY DEF Making, Unmaking, Destroying
<1>2. ASSUME NEW i \in live
      PROVE  SoundBlock(i)' /\ EndedMarked(i)'
  <2>1. SoundBlock(i) /\ EndedMarked(i) /\ Same(i)
    BY <1>0 DEF SessionsOK
  <2>. QED  BY <1>1, <2>1, SoundKept, EndedKept
<1>3. ASSUME NEW i \in Ids
      PROVE  GoneTold(i)'
  <2>1. GoneTold(i) /\ Same(i)
    BY <1>0 DEF SessionsOK
  <2>. QED  BY <2>1, ToldKept
<1>4. SessionsOK'
  BY <1>2, <1>3 DEF SessionsOK
<1>5. CallsOK'
  <2>1. CASE calls[Loop].pc = "none"
    BY <1>0, <2>1 DEF CallsOK, Makings, Making
  <2>2. CASE UNCHANGED loop
    BY <1>0, <2>2 DEF CallsOK, Makings, Making, cur
  <2>. QED  BY <2>1, <2>2
<1>6. OnlyStaleReads'
  BY <1>0 DEF OnlyStaleReads
<1>. QED  BY <1>4, <1>5, <1>6 DEF OrderlyInv

\* What is not said of a place that the loop has no session at.
LEMMA NoWait ==
    ASSUME Place' \in {"add", "sets", "stale", "select", "over", "done", "server", "idle"}
    PROVE  \A i : Awaited(i)'
BY DEF Awaited, Ahead, Served

\* The loop goes on with session n, or is through.
LEMMA AddsNext ==
    ASSUME Known, NEW n \in live' \cup {Nil}, n < lastId', lastId' = lastId, AddNext(n)
    PROVE  /\ CurOK' /\ Place' \in {"add", "sets"} /\ loop'.pc = Place'
<1>1. loop \in LoopState /\ CurOK
  BY DEF Known, IInv, RestOK, LoopTypeOK, OrderlyInv
<1>2. /\ loop'.cur = n /\ loop'.nxt = loop.nxt
      /\ loop'.pc = IF n = Nil THEN "sets" ELSE "add"
  BY <1>1 DEF AddNext, LoopState
<1>3. Place' = loop'.pc /\ cur' = n
  BY <1>2 DEF Place, cur
<1>. QED  BY <1>1, <1>2, <1>3 DEF CurOK, AtSession, Served

LEMMA BetweenOrderly ==
    ASSUME Known, AddBegins \/ SetsMade \/ Selects \/ SelectFails \/ ProcessBegins \/ ProcessEnds
    PROVE  OrderlyInv'
<1>0. /\ loop.pc \in {"idle", "sets", "select", "ready", "done"}
      /\ loop \in LoopState /\ CurOK /\ SessionsOK /\ CallsOK /\ TableOK /\ Chained /\ OnlyStaleReads
  BY DEF Known, IInv, RestOK, LoopTypeOK, OrderlyInv, AddBegins, SetsMade, Selects, SelectFails,
         ProcessBegins, ProcessEnds, At
<1>1. Place = loop.pc /\ ~Ending /\ calls[Loop].pc = "none"
  BY <1>0 DEF Place, Ending, CallsOK
<1>2. UNCHANGED <<dcc, live, lastId, ended, closed, calls>> /\ \A i : Same(i)
  BY DEF AddBegins, SetsMade, Selects, SelectFails, ProcessBegins, ProcessEnds, table, rest, Same
<1>3. head \in live \cup {Nil} /\ head < lastId
  BY <1>0 DEF Chained, IsYoungest, TableOK, NewestFirst
<1>4. CASE AddBegins
  <2>1. /\ loop'.cur = head /\ loop'.nxt = loop.nxt
        /\ loop'.pc = IF head = Nil THEN "sets" ELSE "add"
    BY <1>0, <1>4 DEF AddBegins, LoopState
  <2>2. Place' = loop'.pc /\ cur' = head
    BY <2>1 DEF Place, cur
  <2>3. CurOK'
    BY <1>0, <1>2, <1>3, <2>1, <2>2 DEF CurOK, AtSession, Served
  <2>. QED  BY <1>0, <1>1, <1>2, <1>4, <2>1, <2>2, <2>3, NoWait, PassesBy DEF AddBegins
<1>5. CASE ProcessBegins
  <2>1. /\ loop'.cur = head /\ loop'.nxt = loop.nxt
        /\ loop'.pc = IF head = Nil THEN "done" ELSE "visit"
    BY <1>0, <1>5 DEF ProcessBegins, LoopState
  <2>2. Place' = loop'.pc /\ cur' = head
    BY <2>1 DEF Place, cur
  <2>3. CurOK'
    BY <1>0, <1>2, <1>3, <2>1, <2>2 DEF CurOK, AtSession, Served
  <2>4. ASSUME NEW i \in live
        PROVE  Awaited(i)'
    <3>1. Awaited(i) /\ Ahead(i) /\ UNCHANGED <<inSet, knock>>
      BY <1>0, <1>1, <1>5 DEF SessionsOK, Ahead, ProcessBegins, At, rest
    <3>. QED  BY <1>2, <3>1, AwaitedKept
  <2>. QED  BY <1>0, <1>1, <1>2, <1>5, <2>3, <2>4, PassesBy DEF ProcessBegins
<1>6. CASE SetsMade
  <2>1. \A i \in Listed : ToRead(dcc[i]) \/ ToWrite(dcc[i]) => dcc[i].sock # Closed
    <3>1. loop.pc \in Steady
      BY <1>6 DEF SetsMade, At, Steady, Walking
    <3>2. Listed = live
      BY <1>0, ChainedListOk DEF ListOk
    <3>3. \A i \in live : dcc[i].state = "REMOVED" \/ dcc[i].sock # Closed
      BY <1>0, <3>1, Undisturbed DEF SessionsOK, SoundBlock
    <3>. QED  BY <3>2, <3>3 DEF ToRead, ToWrite
  <2>2. fault' = fault
    BY <1>6, <2>1 DEF SetsMade
  <2>3. loop'.pc = "select" /\ loop'.cur = loop.cur /\ loop'.nxt = loop.nxt
    BY <1>0, <1>6 DEF SetsMade, Jump, LoopState
  <2>4. Place' = "select" /\ cur' = cur
    BY <2>3 DEF Place, cur
  <2>5. CurOK'
    BY <1>0, <1>2, <2>3, <2>4 DEF CurOK, AtSession, Served
  <2>. QED  BY <1>0, <1>1, <1>2, <2>2, <2>4, <2>5, NoWait, PassesBy
<1>7. CASE Selects
  <2>1. loop'.pc = "ready" /\ loop'.cur = loop.cur /\ loop'.nxt = loop.nxt
    BY <1>0, <1>7 DEF Selects, Jump, LoopState
  <2>2. Place' = "ready" /\ cur' = cur
    BY <2>1 DEF Place, cur
  <2>3. CurOK'
    BY <1>0, <1>2, <2>1, <2>2 DEF CurOK, AtSession, Served
  <2>4. ASSUME NEW i \in live
        PROVE  Awaited(i)'
    BY <1>2, <1>7 DEF Awaited, Selects, Silent
  <2>. QED  BY <1>0, <1>1, <1>2, <1>7, <2>3, <2>4, PassesBy DEF Selects
<1>8. CASE SelectFails \/ ProcessEnds
  <2>1. loop'.pc \in {"over", "server"} /\ loop'.cur = loop.cur /\ loop'.nxt = loop.nxt
    BY <1>0, <1>8 DEF SelectFails, ProcessEnds, Jump, LoopState
  <2>2. Place' = loop'.pc /\ cur' = cur
    BY <2>1 DEF Place, cur
  <2>3. CurOK'
    BY <1>0, <1>2, <2>1, <2>2 DEF CurOK, AtSession, Served
  <2>. QED  BY <1>0, <1>1, <1>2, <1>8, <2>1, <2>2, <2>3, NoWait, PassesBy DEF SelectFails, ProcessEnds
<1>. QED  BY <1>4, <1>5, <1>6, <1>7, <1>8

\* A session is removed by the loop, and its end was told if it had to be.
LEMMA RemovesOrderly ==
    ASSUME Known, NEW c \in live, c = cur, loop.pc \in {"add", "expired", "fed"}, Remove(c),
           UNCHANGED <<lastId, ended, closed, calls>>, CurOK',
           Place' \in {"add", "sets", "stale"},
           dcc[c].mode = "CHAT" /\ dcc[c].cb => c \in ended \cup closed
    PROVE  OrderlyInv'
<1>0. /\ SessionsOK /\ CallsOK /\ OnlyStaleReads /\ live \subseteq Ids
      /\ dcc \in [Ids -> Session]
  BY DEF Known, OrderlyInv, IInv, TableOK
<1>1. /\ \A t \in Threads : calls[t].pc = "none"
      /\ \A i : ~Making(i) /\ ~Unmaking(i) /\ ~Destroying(i)
  BY Undisturbed DEF Steady, Walking
<1>2. \A i : ~Making(i)' /\ ~Unmaking(i)' /\ ~Destroying(i)'
  BY <1>1 DEF Making, Unmaking, Destroying
<1>3. dcc' = Unlinked(c) /\ live' = live \ {c} /\ fault' = fault
  BY DEF Remove
<1>4. \A i \in Ids \ {c} : Same(i)
  BY <1>0, <1>3 DEF Unlinked, Session, Same
<1>5. dcc'[c].mode = dcc[c].mode /\ dcc'[c].cb = dcc[c].cb
  BY <1>0, <1>3 DEF Unlinked, Session
<1>6. ASSUME NEW i \in live'
      PROVE  SoundBlock(i)' /\ Awaited(i)' /\ EndedMarked(i)'
  <2>1. SoundBlock(i) /\ EndedMarked(i) /\ Same(i) /\ i # cur
    BY <1>0, <1>3, <1>4 DEF SessionsOK
  <2>. QED  BY <1>1, <1>2, <2>1, SoundKept, EndedKept, NoWait
<1>7. ASSUME NEW i \in Ids
      PROVE  GoneTold(i)'
  <2>1. CASE i = c
    BY <1>5, <2>1 DEF GoneTold
  <2>2. CASE i # c
    <3>1. GoneTold(i) /\ Same(i) /\ (i \in live => i \in live')
      BY <1>0, <1>3, <1>4, <2>2 DEF SessionsOK
    <3>. QED  BY <3>1, ToldKept
  <2>. QED  BY <2>1, <2>2
<1>8. SessionsOK'
  BY <1>6, <1>7 DEF SessionsOK
<1>9. CallsOK'
  BY <1>0, <1>1, CallsKept DEF CallsOK
<1>10. OnlyStaleReads'
  BY <1>0, <1>3 DEF OnlyStaleReads
<1>. QED  BY <1>8, <1>9, <1>10 DEF OrderlyInv

\* The session at hand is told of its end before it is removed.
LEMMA EndsOrderly ==
    ASSUME Known, NEW c \in live, c = cur, loop.pc = "add",
           NEW a \in {"expired", "fed"}, a = "expired" => Timeouts,
           dcc[c].state \notin {"INIT", "REMOVED"},
           loop' = [loop EXCEPT !.pc = "callback", !.nxt = dcc[c].next, !.after = a, !.lock = TRUE],
           ended' = ended \cup {c}, UNCHANGED <<table, fault, closed, calls>>
    PROVE  OrderlyInv'
<1>0. /\ SessionsOK /\ CurOK /\ CallsOK /\ OnlyStaleReads
  BY DEF Known, OrderlyInv
<1>1. /\ c \in Ids /\ dcc[c].next \in live \cup {Nil} /\ dcc[c].next < c /\ c \in Int
      /\ dcc[c].next < lastId /\ c < lastId /\ loop \in LoopState
  BY Followed
<1>2. /\ \A t \in Threads : calls[t].pc = "none"
      /\ \A i : ~Making(i) /\ ~Unmaking(i) /\ ~Destroying(i)
  BY Undisturbed DEF Steady, Walking
<1>3. /\ loop'.pc = "callback" /\ loop'.after = a /\ loop'.cur = c /\ loop'.nxt = dcc[c].next
      /\ Place' = a /\ cur' = c
  BY <1>1 DEF LoopState, Place, cur
<1>4. UNCHANGED <<dcc, live, lastId>> /\ \A i : Same(i)
  BY DEF table, Same
<1>5. Ending' /\ \A i : ~Ahead(i)'
  BY <1>3 DEF Ending, Ahead, Served
<1>6. CurOK'
  <2>1. dcc[c].next # c
    BY <1>1
  <2>. QED  BY <1>0, <1>1, <1>3, <1>4, <2>1 DEF CurOK, AtSession, Served, Returns
<1>7. ASSUME NEW i \in live'
      PROVE  SoundBlock(i)' /\ Awaited(i)' /\ EndedMarked(i)'
  <2>1. SoundBlock(i) /\ Same(i) /\ EndedMarked(i) /\ i \in live
    BY <1>0, <1>4 DEF SessionsOK
  <2>2. SoundBlock(i)'
    BY <1>4, <2>1 DEF SoundBlock, Making, Unmaking, Destroying
  <2>3. EndedMarked(i)'
    BY <1>3, <1>4, <1>5, <2>1 DEF EndedMarked
  <2>. QED  BY <1>5, <2>2, <2>3 DEF Awaited
<1>8. ASSUME NEW i \in Ids
      PROVE  GoneTold(i)'
  BY <1>0, <1>4, ToldKept DEF SessionsOK
<1>9. SessionsOK'
  BY <1>7, <1>8 DEF SessionsOK
<1>10. CallsOK'
  BY <1>0, <1>1, <1>2, <1>4, CallsKept DEF CallsOK
<1>11. OnlyStaleReads'
  BY <1>0 DEF OnlyStaleReads
<1>. QED  BY <1>6, <1>9, <1>10, <1>11 DEF OrderlyInv

LEMMA AddOrderly ==
    ASSUME Known, ExpiresUnseen \/ Expires \/ Feeds \/ FileEnds \/ Sweeps
    PROVE  OrderlyInv'
<1>. SUFFICES ASSUME NEW c \in live, c = cur PROVE OrderlyInv'
  BY DEF ExpiresUnseen, Expires, Feeds, FileEnds, Sweeps
<1>0. loop.pc = "add" /\ SessionsOK /\ CurOK /\ CallsOK
  BY DEF ExpiresUnseen, Expires, Feeds, FileEnds, Sweeps, At, Known, OrderlyInv
<1>1. /\ c \in Ids /\ dcc[c].next \in live \cup {Nil} /\ dcc[c].next < c /\ c \in Int
      /\ dcc[c].next < lastId /\ dcc[c].next # c /\ loop \in LoopState
      /\ dcc \in [Ids -> Session] /\ dcc[c] \in Session
  BY Followed
<1>2. \A i : ~Making(i) /\ ~Unmaking(i) /\ ~Destroying(i)
  BY <1>0, Undisturbed DEF Steady, Walking
<1>3. SoundBlock(c) /\ GoneTold(c) /\ c < lastId
  BY <1>0, <1>1, Followed DEF SessionsOK
<1>4. calls[Loop].pc = "none" /\ ~Ending
  BY <1>0 DEF CallsOK, Ending, Place
<1>5. CASE ExpiresUnseen
  <2>1. /\ Remove(c) /\ UNCHANGED <<lastId, ended, closed, calls>> /\ dcc[c].state = "INIT"
        /\ loop' = [loop EXCEPT !.pc = "stale", !.nxt = dcc[c].next] /\ Timeouts
    BY <1>5 DEF ExpiresUnseen, TimedOut
  <2>2. loop'.pc = "stale" /\ loop'.cur = c /\ loop'.nxt = dcc[c].next
    BY <1>1, <2>1 DEF LoopState, cur
  <2>3. Place' = "stale" /\ cur' = c
    BY <2>2 DEF Place, cur
  <2>4. live' = live \ {c} /\ dcc'[c].state = "INIT"
    <3>1. live' = live \ {c} /\ dcc' = Unlinked(c)
      BY <2>1 DEF Remove
    <3>2. Unlinked(c)[c].state = dcc[c].state
      BY <1>1 DEF Unlinked, Session
    <3>. QED  BY <2>1, <3>1, <3>2
  <2>5. CurOK'
    BY <1>0, <1>1, <1>3, <2>1, <2>2, <2>3, <2>4 DEF CurOK, AtSession, Served
  <2>6. ~dcc[c].cb
    BY <1>3, <2>1 DEF SoundBlock
  <2>. QED  BY <1>0, <2>1, <2>3, <2>5, <2>6, RemovesOrderly
<1>6. CASE Expires
  BY <1>0, <1>6, EndsOrderly DEF Expires, TimedOut
<1>7. CASE FileEnds
  <2>1. dcc[c].state = "CONNECTED"
    BY <1>7 DEF FileEnds, Hungry
  <2>2. fault' = fault
    BY <1>2, <1>3, <1>7, <2>1 DEF FileEnds, SoundBlock
  <2>. QED  BY <1>0, <1>7, <2>1, <2>2, EndsOrderly DEF FileEnds
<1>8. CASE Feeds
  <2>1. \A i \in Ids : Same(i)
    BY <1>1, <1>8 DEF Feeds, Same, Session
  <2>2. UNCHANGED <<live, lastId, ended, closed, calls, fault>> /\ AddNext(dcc[c].next)
    BY <1>8 DEF Feeds
  <2>3. CurOK' /\ Place' \in {"add", "sets"}
    BY <1>1, <2>2, AddsNext
  <2>. QED  BY <1>0, <1>4, <2>1, <2>2, <2>3, NoWait, PassesBy
<1>9. CASE Sweeps
  <2>1. UNCHANGED <<lastId, ended, closed, calls>> /\ AddNext(dcc[c].next)
    BY <1>9 DEF Sweeps
  <2>2. CASE dcc[c].state = "REMOVED"
    <3>1. Remove(c)
      BY <1>9, <2>2 DEF Sweeps
    <3>2. dcc[c].next \in live' \cup {Nil}
      BY <1>1, <3>1 DEF Remove
    <3>3. CurOK' /\ Place' \in {"add", "sets"}
      BY <1>1, <2>1, <3>2, AddsNext
    <3>4. dcc[c].mode = "CHAT" /\ dcc[c].cb => c \in ended \cup closed
      BY <1>0, <1>3, <2>2 DEF GoneTold
    <3>. QED  BY <1>0, <2>1, <3>1, <3>3, <3>4, RemovesOrderly
  <2>3. CASE dcc[c].state # "REMOVED"
    <3>1. UNCHANGED <<dcc, live, fault>> /\ \A i : Same(i)
      BY <1>9, <2>3 DEF Sweeps, Same
    <3>2. CurOK' /\ Place' \in {"add", "sets"}
      BY <1>1, <2>1, <3>1, AddsNext
    <3>. QED  BY <1>0, <1>4, <2>1, <3>1, <3>2, NoWait, PassesBy
  <2>. QED  BY <2>2, <2>3
<1>. QED  BY <1>5, <1>6, <1>7, <1>8, <1>9

LEMMA GoneOrderly ==
    ASSUME Known, Expired \/ Stale \/ Fed
    PROVE  OrderlyInv'
<1>0. /\ loop.pc \in {"expired", "stale", "fed"} /\ SessionsOK /\ CurOK /\ CallsOK
      /\ loop \in LoopState /\ TableOK
  BY DEF Expired, Stale, Fed, At, Known, OrderlyInv, IInv, RestOK, LoopTypeOK
<1>1. /\ Place = loop.pc /\ calls[Loop].pc = "none"
      /\ loop.nxt \in live \cup {Nil} /\ loop.nxt < lastId
  BY <1>0 DEF Place, CallsOK, CurOK
<1>2. CASE Stale
  <2>1. /\ UNCHANGED <<table, ended, closed, calls>> /\ AddNext(loop.nxt) /\ loop.pc = "stale"
        /\ dcc[cur].state # "REMOVED"
    BY <1>0, <1>1, <1>2 DEF Stale, At, CurOK
  <2>2. UNCHANGED <<dcc, live, lastId, fault>> /\ \A i : Same(i)
    BY <1>2, <2>1 DEF Stale, table, Same
  <2>3. CurOK' /\ Place' \in {"add", "sets"} /\ ~Ending
    BY <1>1, <2>1, <2>2, AddsNext DEF Ending
  <2>. QED  BY <1>0, <1>1, <2>1, <2>2, <2>3, NoWait, PassesBy
<1>3. CASE Expired \/ Fed
  <2>1. /\ loop.pc \in {"expired", "fed"} /\ Remove(cur)
        /\ UNCHANGED <<lastId, ended, closed, calls>>
    BY <1>3 DEF Expired, Fed, At
  <2>. PICK c \in live : c = cur
    BY <1>0, <1>1, <2>1 DEF CurOK, AtSession
  <2>2. c \in ended /\ loop.nxt # c /\ dcc \in [Ids -> Session] /\ c \in Ids /\ c < lastId
    BY <1>0, <1>1, <2>1, Followed DEF CurOK
  <2>3. loop.nxt \in live' \cup {Nil} /\ live' = live \ {c} /\ dcc' = Unlinked(c)
    BY <1>1, <2>1, <2>2 DEF Remove
  <2>4. CurOK' /\ Place' \in {"add", "sets", "stale"}
    <3>1. CASE Fed
      BY <1>1, <2>1, <2>3, <3>1, AddsNext DEF Fed
    <3>2. CASE Expired
      <4>1. loop'.pc = "stale" /\ loop'.cur = c /\ loop'.nxt = loop.nxt /\ loop.pc = "expired"
        BY <1>0, <3>2 DEF Expired, Jump, LoopState, cur, At
      <4>2. Place' = "stale" /\ cur' = c
        BY <4>1 DEF Place, cur
      <4>3. dcc'[c].state = dcc[c].state /\ dcc[c].state # "REMOVED"
        BY <1>0, <1>1, <2>2, <2>3, <4>1 DEF Unlinked, Session, CurOK
      <4>. QED  BY <1>0, <1>1, <2>1, <2>2, <2>3, <4>1, <4>2, <4>3 DEF CurOK, AtSession, Served
    <3>. QED  BY <1>3, <3>1, <3>2
  <2>. QED  BY <2>1, <2>2, <2>4, RemovesOrderly
<1>. QED  BY <1>2, <1>3

-----------------------------------------------------------------------------
(* The calls of the application, and what the server brings.               *)

\* Where the loop is when its thread calls.
LEMMA LoopCalls ==
    ASSUME Known, loop.pc \in {"callback", "server"}
    PROVE  /\ Place \in Returns
           /\ loop \in LoopState /\ calls \in [Threads -> [pc : CallPcs, id : Ids] \cup {NoCall}]
           /\ Loop \in Threads
<1>1. CurOK /\ LoopTypeOK /\ CallsTypeOK
  BY DEF Known, OrderlyInv, IInv, RestOK
<1>2. Place \in Returns
  BY <1>1 DEF CurOK, Place, Returns
<1>. QED  BY <1>1, <1>2 DEF LoopTypeOK, CallsTypeOK, Threads

\* A session is made, by a call of the thread of the loop or for a peer.
LEMMA NewOrderly ==
    ASSUME Known, NEW state \in {"INIT", "LISTENING"}, NEW mode, New(state, mode),
           loop.pc \in {"callback", "server"}, calls[Loop].pc = "none",
           UNCHANGED <<ended, closed, fault, knock, inSet>>,
           Place' = Place, loop'.pc \in {"callback", "server"},
           loop'.pc = "callback" => loop'.after \in Returns,
           loop'.cur = loop.cur, loop'.nxt = loop.nxt, loop'.err = loop.err,
           \A t \in Threads \ {Loop} : calls'[t] = calls[t],
           IF state = "INIT" THEN calls'[Loop] = calls[Loop]
           ELSE calls'[Loop] = [pc |-> "announce", id |-> lastId]
    PROVE  OrderlyInv'
<1>. SUFFICES ASSUME NEW n \in Ids, n = lastId PROVE OrderlyInv'
  BY DccAssumption DEF New, Known, IInv, TableOK, Ids
<1>0. /\ SessionsOK /\ CurOK /\ CallsOK /\ OnlyStaleReads /\ TableOK
      /\ loop \in LoopState /\ Place \in Returns /\ Loop \in Threads
  BY LoopCalls DEF Known, OrderlyInv, IInv
<1>1. /\ n \in Ids /\ n \in Int /\ lastId' = n + 1 /\ n \notin live /\ live \subseteq Ids
      /\ \A i \in Ids : i \in Int
  BY <1>0, DccAssumption DEF New, TableOK, Given, Ids
<1>2. FreeFd \in Fds /\ Closed \notin Fds
  BY <1>0, FreeFdType, DccAssumption DEF Closed, Fds, TableOK
<1>3. /\ live' = live \cup {n}
      /\ dcc' = [dcc EXCEPT ![n] = [state |-> state, mode |-> mode, sock |-> FreeFd, cb |-> FALSE,
                                    fp |-> FALSE, out |-> FALSE, next |-> head]]
  BY DEF New
<1>4. /\ dcc'[n].state = state /\ ~dcc'[n].cb /\ dcc'[n].sock # Closed
      /\ \A i \in Ids \ {n} : Same(i)
  BY <1>0, <1>1, <1>2, <1>3 DEF TableOK, Same
<1>5. cur' = cur /\ Ending' = Ending /\ \A i : Ahead(i)' = Ahead(i)
  BY DEF cur, Ending, Ahead
<1>6. \A i : ~Making(i) /\ ~Unmaking(i)
  BY DEF Making, Makings, Unmaking
<1>7. /\ \A i : Making(i)' => i = n /\ state = "LISTENING"
      /\ state = "LISTENING" => Making(n)'
      /\ \A i : Destroying(i) => Destroying(i)'
  BY DEF Making, Makings, Destroying
<1>8. n \notin ended \cup closed /\ cur < n /\ loop.nxt < n
  <2>1. \A i \in ended \cup closed : i < n
    BY <1>0 DEF CallsOK
  <2>2. ~(n < n)
    BY <1>1
  <2>. QED  BY <1>0, <2>1, <2>2 DEF CurOK
<1>9. ~Ahead(n)
  <2>1. ~(n < cur)
    BY <1>0, <1>1, <1>8 DEF LoopState, cur, Ids, Nil
  <2>. QED  BY <1>0, <2>1 DEF Ahead, Returns, Served
<1>10. SoundBlock(n)' /\ Awaited(n)' /\ EndedMarked(n)' /\ GoneTold(n)'
  BY <1>4, <1>5, <1>7, <1>8, <1>9 DEF SoundBlock, Awaited, EndedMarked, GoneTold
<1>11. ASSUME NEW i \in live
       PROVE  SoundBlock(i)' /\ Awaited(i)' /\ EndedMarked(i)'
  <2>1. SoundBlock(i) /\ Awaited(i) /\ EndedMarked(i) /\ Same(i) /\ i # n
    BY <1>0, <1>1, <1>4 DEF SessionsOK
  <2>. QED  BY <1>5, <1>6, <1>7, <2>1, SoundKept, AwaitedKept, EndedKept
<1>12. ASSUME NEW i \in Ids \ {n}
       PROVE  GoneTold(i)'
  <2>1. GoneTold(i) /\ Same(i) /\ i \in Int /\ i # n
    BY <1>0, <1>1, <1>4 DEF SessionsOK
  <2>2. i < n + 1 => i < n
    BY <1>1, <2>1
  <2>. QED  BY <1>1, <1>3, <2>1, <2>2, ToldKept
<1>13. SessionsOK'
  BY <1>3, <1>10, <1>11, <1>12 DEF SessionsOK
<1>14. ASSUME NEW i \in Int, i < n
       PROVE  i < lastId'
  BY <1>1, <1>14
<1>15. cur \in Int /\ loop.nxt \in Int
  BY <1>0 DEF LoopState, cur, Ids, Nil
<1>16. CurOK'
  <2>1. /\ Place \in AtSession => cur \in live /\ Same(cur)
        /\ Place \notin {"stale", "reopen"}
    BY <1>0, <1>1, <1>4 DEF CurOK, Returns
  <2>2. cur < lastId' /\ loop.nxt < lastId'
    BY <1>8, <1>14, <1>15
  <2>. QED  BY <1>0, <1>3, <1>5, <2>1, <2>2 DEF CurOK, Same, AtSession, Served
<1>17. CallsOK'
  <2>1. \A i \in ended \cup closed : i < lastId'
    BY <1>0, <1>1, <1>14 DEF CallsOK, Known, IInv, RestOK
  <2>2. \A t \in Threads : calls'[t].pc = "remove" => t # Loop
    BY DEF CallPcs
  <2>3. ASSUME NEW t \in Threads, calls'[t].pc = "remove"
        PROVE  ~Making(calls[t].id)'
    <3>1. calls'[t] = calls[t] /\ calls[t].id \in live
      BY <1>0, <2>2, <2>3 DEF CallsOK
    <3>2. calls[t].id # n
      BY <1>1, <3>1
    <3>3. ASSUME NEW i, i # n
          PROVE  ~Making(i)'
      BY <1>7, <3>3
    <3>. QED  BY <3>1, <3>2, <3>3 DEF Making
  <2>4. \A t \in Threads : calls'[t].pc # "none" => calls'[t].id \in live'
    BY <1>0, <1>3 DEF CallsOK
  <2>5. calls'[Loop].pc \in Makings => cur < calls'[Loop].id /\ loop.nxt < calls'[Loop].id
    BY <1>8 DEF Makings
  <2>6. \A t \in Threads \ {Loop} :
           calls'[t].pc \in {"none", "remove"} /\ (Destroyers \subseteq {Loop} => calls'[t].pc = "none")
    BY <1>0 DEF CallsOK
  <2>. QED  BY <1>0, <1>5, <2>1, <2>2, <2>3, <2>4, <2>5, <2>6 DEF CallsOK
<1>18. OnlyStaleReads'
  BY <1>0 DEF OnlyStaleReads
<1>. QED  BY <1>13, <1>16, <1>17, <1>18 DEF OrderlyInv

LEMMA TurningOrderly ==
    ASSUME Known, Turning
    PROVE  OrderlyInv'
<1>0. SessionsOK /\ CurOK /\ CallsOK /\ OnlyStaleReads /\ loop \in LoopState
  BY DEF Known, OrderlyInv, IInv, RestOK, LoopTypeOK
<1>1. CASE CallbackReturns
  <2>1. /\ loop.pc = "callback" /\ calls[Loop].pc = "none" /\ loop' = [loop EXCEPT !.pc = loop.after]
        /\ UNCHANGED <<dcc, live, lastId, knock, ended, closed, fault, calls, inSet>>
    BY <1>1 DEF CallbackReturns, At, Calls, Jump, table
  <2>2. /\ loop'.pc = loop.after /\ loop'.cur = loop.cur /\ loop'.nxt = loop.nxt
        /\ loop'.err = loop.err /\ loop.after \in Returns
    BY <1>0, <2>1 DEF LoopState, CurOK
  <2>3. Place' = Place /\ cur' = cur /\ loop'.pc # "callback"
    BY <2>1, <2>2 DEF Place, cur, Returns
  <2>4. Ending' = Ending /\ \A i : Ahead(i)' = Ahead(i) /\ Same(i)
    BY <2>1, <2>2, <2>3 DEF Ending, Ahead, Same
  <2>5. CurOK'
    BY <1>0, <2>1, <2>2, <2>3 DEF CurOK
  <2>6. \A i \in live : Awaited(i)'
    BY <1>0, <2>1, <2>4, AwaitedKept DEF SessionsOK
  <2>. QED  BY <2>1, <2>3, <2>4, <2>5, <2>6, PassesBy
<1>2. CASE GoesRound \/ Disconnected
  <2>1. /\ loop.pc = "server" /\ calls[Loop].pc = "none"
        /\ UNCHANGED <<dcc, live, lastId, knock, ended, closed, fault, calls, inSet>>
        /\ loop' = [loop EXCEPT !.pc = "idle"] \/ loop' = [loop EXCEPT !.pc = "over"]
    BY <1>2 DEF GoesRound, Disconnected, At, Calls, Jump, table, quiet, rest
  <2>2. loop'.pc \in {"idle", "over"} /\ loop'.cur = loop.cur /\ loop'.nxt = loop.nxt
    BY <1>0, <2>1 DEF LoopState
  <2>3. Place' = loop'.pc /\ cur' = cur /\ ~Ending /\ \A i : Same(i)
    BY <2>1, <2>2 DEF Place, cur, Ending, Same
  <2>4. CurOK'
    BY <1>0, <2>1, <2>2, <2>3 DEF CurOK, AtSession, Served
  <2>. QED  BY <2>1, <2>2, <2>3, <2>4, NoWait, PassesBy
<1>3. CASE TouchesFreed
  <2>1. Place = loop.pc /\ loop.pc \in AtSession /\ cur \notin live
    BY <1>3 DEF TouchesFreed, Place, AtSession, Served
  <2>. QED  BY <1>0, <2>1 DEF CurOK
<1>4. CASE Torn
  <2>1. /\ loop.pc = "over" /\ live' = {} /\ UNCHANGED <<lastId, loop, ended, fault, closed, calls>>
        /\ \A t \in Threads : calls[t].pc = "none"
    BY <1>4 DEF Torn, At, Calls, quiet, rest
  <2>2. SessionsOK'
    BY <2>1 DEF SessionsOK, GoneTold
  <2>3. Place = "over" /\ Place' = Place /\ cur' = cur
    BY <2>1 DEF Place, cur
  <2>4. CurOK'
    BY <1>0, <2>1, <2>3 DEF CurOK, AtSession, Served
  <2>5. CallsOK'
    BY <1>0, <2>1, CallsKept DEF CallsOK
  <2>6. OnlyStaleReads'
    BY <1>0, <2>1 DEF OnlyStaleReads
  <2>. QED  BY <2>2, <2>4, <2>5, <2>6 DEF OrderlyInv
<1>5. CASE Requested
  <2>1. /\ loop.pc = "server" /\ calls[Loop].pc = "none"
        /\ UNCHANGED <<knock, ended, fault, closed, calls, inSet>>
        /\ loop' = [loop EXCEPT !.pc = "callback", !.after = "server", !.lock = FALSE]
    BY <1>5 DEF Requested, At, Calls, quiet, rest
  <2>2. PICK mode : New("INIT", mode)
    BY <1>5 DEF Requested
  <2>3. /\ loop'.pc = "callback" /\ loop'.after = "server" /\ loop'.cur = loop.cur
        /\ loop'.nxt = loop.nxt /\ loop'.err = loop.err
    BY <1>0, <2>1 DEF LoopState
  <2>4. Place' = Place
    BY <2>1, <2>3 DEF Place
  <2>. QED  BY <2>1, <2>2, <2>3, <2>4, NewOrderly DEF Returns
<1>. QED  BY <1>1, <1>2, <1>3, <1>4, <1>5 DEF Turning

\* A call changes the block of one session.
LEMMA BlockOrderly ==
    ASSUME Known, NEW c \in live, UNCHANGED <<live, lastId, ended, fault, knock, inSet, loop>>,
           \A i \in Ids \ {c} : Same(i), dcc'[c].mode = dcc[c].mode,
           \/ dcc'[c].state = dcc[c].state
           \/ dcc'[c].state = "REMOVED" /\ c \in closed'
           \/ dcc[c].state = "INIT" /\ dcc'[c].state = "CONNECTING",
           dcc'[c].state = dcc[c].state \/ c # cur \/ Place \notin {"expired", "stale", "reopen"},
           closed' = closed \/ (closed' = closed \cup {c} /\ dcc'[c].state = "REMOVED"),
           dcc'[c].sock \in {dcc[c].sock, Closed},
           dcc'[c].cb = dcc[c].cb \/ dcc'[c].state # "REMOVED" \/ c \in closed',
           \A i \in live \ {c} : /\ Making(i)' <=> Making(i)
                                 /\ Unmaking(i) => Unmaking(i)'
                                 /\ Destroying(i) => Destroying(i)',
           SoundBlock(c)', CallsOK'
    PROVE  OrderlyInv'
<1>0. /\ SessionsOK /\ CurOK /\ OnlyStaleReads /\ live \subseteq Ids /\ inSet \subseteq Fds
  BY DEF Known, OrderlyInv, IInv, TableOK, RestOK, LoopTypeOK
<1>1. Closed \notin Fds
  BY DccAssumption DEF Closed, Fds
<1>2. Place' = Place /\ cur' = cur /\ Ending' = Ending /\ \A i : Ahead(i)' = Ahead(i)
  BY DEF Place, cur, Ending, Ahead
<1>3. ASSUME NEW i \in live \ {c}
      PROVE  SoundBlock(i)' /\ Awaited(i)' /\ EndedMarked(i)'
  <2>1. /\ SoundBlock(i) /\ Awaited(i) /\ EndedMarked(i) /\ Same(i)
        /\ (i \in ended' \cup closed' => i \in ended \cup closed)
    BY <1>0 DEF SessionsOK
  <2>. QED  BY <1>2, <2>1, SoundKept, AwaitedKept, EndedKept
<1>4. ASSUME NEW i \in Ids \ {c}
      PROVE  GoneTold(i)'
  <2>1. GoneTold(i) /\ Same(i)
    BY <1>0 DEF SessionsOK
  <2>. QED  BY <2>1, ToldKept
<1>5. Awaited(c)'
  <2>1. Awaited(c)
    BY <1>0 DEF SessionsOK
  <2>. QED  BY <1>0, <1>1, <1>2, <2>1 DEF Awaited
<1>6. EndedMarked(c)'
  <2>1. EndedMarked(c)
    BY <1>0 DEF SessionsOK
  <2>2. dcc'[c].state = "REMOVED" \/ c \notin ended \cup closed \/ (c = cur /\ Ending)
    <3>1. CASE dcc[c].state = "INIT" /\ dcc'[c].state = "CONNECTING"
      BY <2>1, <3>1 DEF EndedMarked
    <3>2. CASE dcc'[c].state = dcc[c].state
      BY <2>1, <3>2 DEF EndedMarked
    <3>. QED  BY <3>1, <3>2
  <2>. QED  BY <1>2, <2>2 DEF EndedMarked
<1>7. GoneTold(c)'
  <2>1. GoneTold(c)
    BY <1>0 DEF SessionsOK
  <2>. QED  BY <2>1 DEF GoneTold
<1>8. SessionsOK'
  <2>1. \A i \in live' : SoundBlock(i)' /\ Awaited(i)' /\ EndedMarked(i)'
    BY <1>3, <1>5, <1>6
  <2>2. \A i \in Ids : GoneTold(i)'
    BY <1>4, <1>7
  <2>. QED  BY <2>1, <2>2 DEF SessionsOK
<1>9. CurOK'
  <2>1. Place \in AtSession => cur \in live
    BY <1>0 DEF CurOK
  <2>2. cur \in live => dcc'[cur].mode = dcc[cur].mode
    BY <1>0 DEF Same
  <2>3. Place \in Served => dcc'[cur].state # "INIT"
    BY <1>0, <2>1 DEF CurOK, AtSession, Same
  <2>4. Place = "expired" => dcc'[cur].state \notin {"INIT", "REMOVED"}
    BY <1>0, <2>1 DEF CurOK, AtSession, Same
  <2>5. Place \in {"stale", "reopen"} => dcc'[cur].state # "REMOVED"
    <3>1. Place \in {"stale", "reopen"} => cur \in Ids
      BY <1>0, <2>1 DEF CurOK, AtSession, Served
    <3>. QED  BY <1>0, <3>1 DEF CurOK, Same
  <2>. QED  BY <1>0, <1>2, <2>1, <2>2, <2>3, <2>4, <2>5 DEF CurOK, AtSession, Served
<1>10. OnlyStaleReads'
  BY <1>0 DEF OnlyStaleReads
<1>. QED  BY <1>8, <1>9, <1>10 DEF OrderlyInv

\* What a call leaves of the other threads, and of the loop.
LEMMA CallsChange ==
    ASSUME Known, NEW t \in Threads, NEW k, calls' = [calls EXCEPT ![t] = k]
    PROVE  calls'[t] = k /\ \A u \in Threads \ {t} : calls'[u] = calls[u]
BY DEF Known, IInv, RestOK, CallsTypeOK

LEMMA BeginsOrderly ==
    ASSUME Known, NEW t \in Threads, Begins(t), UNCHANGED loopVars
    PROVE  OrderlyInv'
<1>0. /\ SessionsOK /\ CurOK /\ CallsOK /\ OnlyStaleReads /\ TableOK
      /\ live \subseteq Ids /\ dcc \in [Ids -> Session] /\ Loop \in Threads
      /\ Listed = live /\ UNCHANGED <<loop, inSet>>
  BY ChainedListOk DEF Known, OrderlyInv, IInv, TableOK, Threads, ListOk, loopVars
<1>1. \A i \in live : i < lastId
  BY <1>0 DEF TableOK, Given
<1>2. t = Loop => loop.pc \in {"callback", "server"} /\ Place \in Returns
  BY LoopCalls DEF Begins, At
<1>3. Offerers \subseteq {Loop}
  BY DEF Known, OrderlyUse
<1>4. ASSUME NEW mode, Offer(t, mode), t \in Offerers
      PROVE  OrderlyInv'
  <2>1. t = Loop /\ New("LISTENING", mode) /\ calls[Loop].pc = "none"
        /\ calls' = [calls EXCEPT ![t] = [pc |-> "announce", id |-> lastId]]
        /\ UNCHANGED <<knock, ended, closed, fault>>
    BY <1>3, <1>4 DEF Offer, Calls, Goes
  <2>2. Place' = Place
    BY <1>0 DEF Place
  <2>3. loop.pc = "callback" => loop.after \in Returns
    BY <1>0 DEF CurOK
  <2>. QED  BY <1>0, <1>2, <2>1, <2>2, <2>3, CallsChange, NewOrderly
<1>5. ASSUME NEW id \in Ids, Accept(t, id) \/ Decline(t, id), t \in Offerers
      PROVE  OrderlyInv'
  <2>1. /\ t = Loop /\ calls[Loop].pc = "none" /\ id \in live /\ dcc[id].state = "INIT"
        /\ UNCHANGED <<live, lastId, knock, ended, fault, calls>>
    BY <1>0, <1>3, <1>5 DEF Accept, Decline, Finds, Calls
  <2>2. \/ dcc' = [dcc EXCEPT ![id].cb = TRUE, ![id].state = "CONNECTING"] /\ closed' = closed
        \/ dcc' = [dcc EXCEPT ![id] = Destroyed([dcc[id] EXCEPT !.cb = TRUE])]
           /\ closed' = closed \cup {id}
        \/ dcc' = [dcc EXCEPT ![id] = Destroyed(dcc[id])] /\ closed' = closed \cup {id}
    BY <1>0, <1>5, <2>1 DEF Accept, Decline, DestroyNolock
  <2>3. /\ \A i \in Ids \ {id} : Same(i)
        /\ dcc'[id].mode = dcc[id].mode
        /\ \/ dcc'[id].state = "CONNECTING" /\ dcc'[id].cb /\ dcc'[id].sock = dcc[id].sock
              /\ closed' = closed
           \/ dcc'[id].state = "REMOVED" /\ dcc'[id].sock = Closed /\ closed' = closed \cup {id}
    <3>0. dcc[id] \in Session
      BY <1>0
    <3>1. CASE dcc' = [dcc EXCEPT ![id].cb = TRUE, ![id].state = "CONNECTING"] /\ closed' = closed
      BY <1>0, <3>0, <3>1 DEF Same, Session
    <3>2. CASE /\ dcc' = [dcc EXCEPT ![id] = Destroyed([dcc[id] EXCEPT !.cb = TRUE])]
               /\ closed' = closed \cup {id}
      BY <1>0, <3>0, <3>2 DEF Same, Session, Destroyed
    <3>3. CASE dcc' = [dcc EXCEPT ![id] = Destroyed(dcc[id])] /\ closed' = closed \cup {id}
      BY <1>0, <3>0, <3>3 DEF Same, Session, Destroyed
    <3>. QED  BY <2>2, <3>1, <3>2, <3>3
  <2>4. \A i : /\ ~Making(i) /\ ~Unmaking(i) /\ ~Making(i)'
               /\ Destroying(i)' <=> Destroying(i)
    BY <2>1 DEF Making, Makings, Unmaking, Destroying
  <2>5. SoundBlock(id)'
    <3>1. dcc[id].sock # Closed \/ Destroying(id)
      BY <1>0, <2>1, <2>4 DEF SessionsOK, SoundBlock
    <3>. QED  BY <2>3, <2>4, <3>1 DEF SoundBlock
  <2>6. CallsOK'
    BY <1>0, <1>1, <2>1, <2>3, <2>4 DEF CallsOK, Makings, cur
  <2>7. id # cur \/ Place \notin {"expired", "stale", "reopen"}
    BY <1>0, <1>2, <2>1 DEF CurOK, Returns
  <2>. QED  BY <1>0, <2>1, <2>3, <2>4, <2>5, <2>6, <2>7, BlockOrderly
<1>6. ASSUME NEW id \in Ids, Msg(t, id)
      PROVE  OrderlyInv'
  <2>1. UNCHANGED <<live, lastId, knock, ended, closed, fault, calls>>
        /\ dcc' = [dcc EXCEPT ![id].out = TRUE]
    BY <1>6 DEF Msg
  <2>2. \A i \in Ids : Same(i)
    BY <1>0, <2>1 DEF Same, Session
  <2>3. id \in live /\ SoundBlock(id)
    BY <1>0, <1>6 DEF Msg, Finds, SessionsOK
  <2>4. \A i : Making(i)' = Making(i) /\ Unmaking(i)' = Unmaking(i) /\ Destroying(i)' = Destroying(i)
    BY <2>1 DEF Making, Unmaking, Destroying
  <2>5. SoundBlock(id)'
    BY <2>2, <2>3, <2>4, SoundKept
  <2>6. CallsOK'
    BY <1>0, <2>1, <2>4 DEF CallsOK, cur
  <2>. QED  BY <1>0, <2>1, <2>2, <2>3, <2>4, <2>5, <2>6, BlockOrderly DEF Same
<1>7. ASSUME NEW id \in Ids, DestroyCloses(t, id), t \in Destroyers, t = Loop => id \notin ended
      PROVE  OrderlyInv'
  <2>1. /\ calls[t].pc = "none" /\ id \in live /\ id \notin Creating
        /\ UNCHANGED <<live, lastId, knock, ended, closed, fault>>
        /\ dcc' = [dcc EXCEPT ![id].sock = Closed]
        /\ calls' = [calls EXCEPT ![t] = [pc |-> "remove", id |-> id]]
    BY <1>0, <1>7 DEF DestroyCloses, Finds, Calls, Goes
  <2>2. calls'[t] = [pc |-> "remove", id |-> id] /\ \A u \in Threads \ {t} : calls'[u] = calls[u]
    BY <2>1, CallsChange
  <2>3. /\ \A i \in Ids \ {id} : Same(i)
        /\ dcc'[id].mode = dcc[id].mode /\ dcc'[id].state = dcc[id].state
        /\ dcc'[id].cb = dcc[id].cb /\ dcc'[id].sock = Closed
    BY <1>0, <2>1 DEF Same, Session
  <2>4. /\ ~Making(id)
        /\ \A i : Making(i)' <=> Making(i)
        /\ \A i : Unmaking(i)' <=> Unmaking(i)
        /\ \A i : Destroying(i) => Destroying(i)'
        /\ Destroying(id)'
    <3>1. ~Making(id)
      BY <1>0, <2>1 DEF Making, Makings, Creating
    <3>2. \A i : (Making(i)' <=> Making(i)) /\ (Unmaking(i)' <=> Unmaking(i))
      BY <1>0, <2>1, <2>2 DEF Making, Makings, Unmaking
    <3>3. \A i : Destroying(i) => Destroying(i)'
      BY <2>1, <2>2 DEF Destroying
    <3>. QED  BY <2>2, <3>1, <3>2, <3>3 DEF Destroying
  <2>5. SoundBlock(id)'
    BY <1>0, <2>1, <2>3, <2>4 DEF SessionsOK, SoundBlock
  <2>6. CallsOK'
    <3>1. \A u \in Threads \ {Loop} :
             calls'[u].pc \in {"none", "remove"} /\ (Destroyers \subseteq {Loop} => calls'[u].pc = "none")
      BY <1>0, <1>7, <2>2 DEF CallsOK
    <3>2. calls'[Loop].pc # "none" => loop.pc \in {"callback", "server"}
      BY <1>0, <1>2, <2>2 DEF CallsOK
    <3>3. \A u \in Threads : calls'[u].pc # "none" => calls'[u].id \in live
      BY <1>0, <2>1, <2>2 DEF CallsOK
    <3>4. calls'[Loop].pc \in Makings => cur < calls'[Loop].id /\ loop.nxt < calls'[Loop].id
      BY <1>0, <2>2 DEF CallsOK, Makings
    <3>5. ASSUME NEW u \in Threads, calls'[u].pc = "remove"
          PROVE  ~Making(calls[u].id)'
      <4>1. CASE u = t
        BY <2>2, <2>4, <4>1 DEF Making
      <4>2. CASE u # t
        <5>1. ~Making(calls[u].id) /\ calls'[u] = calls[u]
          BY <1>0, <2>2, <3>5, <4>2 DEF CallsOK
        <5>. QED  BY <2>4, <5>1 DEF Making
      <4>. QED  BY <4>1, <4>2
    <3>6. calls'[Loop].pc = "remove" => calls'[Loop].id \notin ended
      BY <1>0, <1>7, <2>2 DEF CallsOK
    <3>. QED  BY <1>0, <2>1, <3>1, <3>2, <3>3, <3>4, <3>5, <3>6 DEF CallsOK, cur
  <2>. QED  BY <1>0, <2>1, <2>3, <2>4, <2>5, <2>6, BlockOrderly
<1>. QED  BY <1>4, <1>5, <1>6, <1>7 DEF Begins

LEMMA GoesOnOrderly ==
    ASSUME Known, NEW t \in Threads, CallGoesOn(t), UNCHANGED loopVars
    PROVE  OrderlyInv'
<1>0. /\ SessionsOK /\ CurOK /\ CallsOK /\ OnlyStaleReads /\ TableOK
      /\ live \subseteq Ids /\ dcc \in [Ids -> Session] /\ Loop \in Threads
      /\ Listed = live /\ UNCHANGED <<loop, inSet>>
  BY ChainedListOk DEF Known, OrderlyInv, IInv, TableOK, Threads, ListOk, loopVars
<1>1. calls[t].pc # "none" /\ calls[t].pc \in CallPcs
  BY DEF CallGoesOn, Announce, SetCallback, AnnounceFails, AnnounceUndone, DestroyMarks, CallPcs
<1>. PICK c \in live : c = calls[t].id
  BY <1>0, <1>1 DEF CallsOK
<1>2. /\ c \in Ids /\ dcc[c] \in Session /\ SoundBlock(c) /\ c < lastId
  BY <1>0 DEF SessionsOK, TableOK, Given
<1>3. \A u \in Threads \ {Loop} : calls[u].pc \in {"none", "remove"}
  BY <1>0 DEF CallsOK
<1>4. CASE Announce(t) \/ SetCallback(t) \/ AnnounceFails(t) \/ AnnounceUndone(t)
  <2>1. t = Loop /\ calls[Loop].pc \in Makings
    BY <1>3, <1>4 DEF Announce, SetCallback, AnnounceFails, AnnounceUndone, Makings
  <2>2. /\ Making(c) /\ ~Destroying(c) /\ \A i : i # c => ~Making(i) /\ ~Unmaking(i)
        /\ dcc[c].state = "LISTENING" /\ ~dcc[c].cb /\ cur < c /\ loop.nxt < c
        /\ calls[Loop].pc # "unlink" => dcc[c].sock # Closed
    <3>1. Making(c) /\ \A i : i # c => ~Making(i) /\ ~Unmaking(i)
      BY <2>1 DEF Making, Unmaking
    <3>2. ~Destroying(c)
      BY <1>0, <3>1 DEF CallsOK, Destroying
    <3>. QED  BY <1>0, <1>2, <2>1, <3>1, <3>2 DEF SoundBlock, CallsOK, Unmaking
  <2>3. loop.pc \in {"callback", "server"} /\ Place \in Returns
    BY <1>0, <1>1, <2>1, LoopCalls DEF CallsOK
  <2>4. PICK k \in {NoCall, [pc |-> "setcb", id |-> c], [pc |-> "unlink", id |-> c]} :
          calls' = [calls EXCEPT ![Loop] = k]
    BY <1>4, <2>1 DEF Announce, SetCallback, AnnounceFails, AnnounceUndone, Comes, Goes
  <2>5. calls'[Loop] = k /\ \A u \in Threads \ {Loop} : calls'[u] = calls[u]
    BY <1>0, <2>4, CallsChange
  <2>6. /\ \A i : i # c => ~Making(i)' /\ ~Unmaking(i)'
        /\ \A i : Destroying(i)' <=> Destroying(i)
        /\ Making(c)' <=> k # NoCall
        /\ Unmaking(c)' <=> k.pc = "unlink"
    <3>1. k \in {NoCall, [pc |-> "setcb", id |-> c], [pc |-> "unlink", id |-> c]}
      BY <2>4
    <3>2. \A i : Destroying(i)' <=> Destroying(i)
      BY <2>1, <2>5, <3>1 DEF Destroying, Makings, NoCall
    <3>. QED  BY <2>5, <3>1, <3>2 DEF Making, Makings, Unmaking, NoCall
  <2>7. ASSUME UNCHANGED <<ended, closed, lastId>>, live' = live \/ (live' = live \ {c} /\ k = NoCall)
        PROVE  CallsOK'
    <3>1. \A u \in Threads \ {Loop} : calls[u].pc # "none" => calls[u].id # c
      BY <1>3, <2>2 DEF Destroying
    <3>2. \A u \in Threads : calls'[u].pc # "none" => calls'[u].id \in live'
      BY <1>0, <2>4, <2>5, <2>7, <3>1 DEF CallsOK, NoCall
    <3>3. \A u \in Threads : calls'[u].pc = "remove" => u # Loop
      BY <2>4, <2>5 DEF NoCall
    <3>4. ASSUME NEW u \in Threads, calls'[u].pc = "remove"
          PROVE  ~Making(calls[u].id)'
      <4>1. calls'[u] = calls[u] /\ calls[u].id # c
        BY <2>5, <3>1, <3>3, <3>4
      <4>. QED  BY <2>6, <4>1 DEF Making
    <3>5. calls'[Loop].pc \in Makings => cur < calls'[Loop].id /\ loop.nxt < calls'[Loop].id
      BY <2>2, <2>4, <2>5 DEF NoCall, Makings
    <3>6. \A u \in Threads \ {Loop} :
             calls'[u].pc \in {"none", "remove"} /\ (Destroyers \subseteq {Loop} => calls'[u].pc = "none")
      BY <1>0, <2>5 DEF CallsOK
    <3>. QED  BY <1>0, <2>3, <2>7, <3>2, <3>3, <3>4, <3>5, <3>6 DEF CallsOK, cur
  <2>8. CASE Announce(t) \/ SetCallback(t) \/ AnnounceFails(t)
    <3>1. UNCHANGED <<live, lastId, knock, ended, closed, fault>>
      BY <2>8 DEF Announce, SetCallback, AnnounceFails
    <3>2. /\ \A i \in Ids \ {c} : Same(i)
          /\ dcc'[c].mode = dcc[c].mode /\ dcc'[c].state = dcc[c].state
          /\ \/ dcc'[c].cb = dcc[c].cb /\ dcc'[c].sock = dcc[c].sock /\ k # NoCall /\ calls[Loop].pc # "unlink"
             \/ dcc'[c].cb /\ dcc'[c].sock = dcc[c].sock /\ k = NoCall /\ calls[Loop].pc # "unlink"
             \/ dcc'[c].cb = dcc[c].cb /\ dcc'[c].sock = Closed /\ k.pc = "unlink"
      <4>1. CASE Announce(t)
        <5>1. /\ dcc' = [dcc EXCEPT ![c].fp = (dcc[c].mode = "SENDFILE")]
              /\ calls'[Loop] = [pc |-> "setcb", id |-> c] /\ calls[Loop].pc = "announce"
          BY <1>0, <2>1, <4>1, CallsChange DEF Announce, Goes
        <5>. QED  BY <1>0, <1>2, <2>5, <5>1 DEF Same, Session, NoCall
      <4>2. CASE SetCallback(t)
        <5>1. /\ dcc' = [dcc EXCEPT ![c].cb = TRUE]
              /\ calls'[Loop] = NoCall /\ calls[Loop].pc = "setcb"
          BY <1>0, <2>1, <4>2, CallsChange DEF SetCallback, Comes
        <5>. QED  BY <1>0, <1>2, <2>5, <5>1 DEF Same, Session, NoCall
      <4>3. CASE AnnounceFails(t)
        <5>1. /\ dcc' = [dcc EXCEPT ![c].sock = Closed]
              /\ calls'[Loop] = [pc |-> "unlink", id |-> c]
          BY <1>0, <2>1, <4>3, CallsChange DEF AnnounceFails, Goes
        <5>. QED  BY <1>0, <1>2, <2>5, <5>1 DEF Same, Session, NoCall
      <4>. QED  BY <2>8, <4>1, <4>2, <4>3
    <3>3. SoundBlock(c)'
      <4>1. k.pc = "unlink" => k # NoCall
        BY <2>4 DEF NoCall
      <4>. QED  BY <1>2, <2>2, <2>6, <3>2, <4>1 DEF SoundBlock
    <3>4. CallsOK'
      BY <2>7, <3>1
    <3>. QED  BY <1>0, <2>2, <2>6, <3>1, <3>2, <3>3, <3>4, BlockOrderly
  <2>9. CASE AnnounceUndone(t)
    <3>1. /\ UNCHANGED <<lastId, knock, ended, closed, fault>> /\ k = NoCall
          /\ dcc' = Unlinked(c) /\ live' = live \ {c}
      BY <1>0, <2>1, <2>5, <2>9, CallsChange DEF AnnounceUndone, Remove, Comes
    <3>2. \A i \in Ids \ {c} : Same(i)
      BY <1>0, <3>1 DEF Unlinked, Session, Same
    <3>3. ~dcc'[c].cb
      <4>1. Unlinked(c)[c].cb = dcc[c].cb
        BY <1>0, <1>2 DEF Unlinked, Session
      <4>. QED  BY <2>2, <3>1, <4>1
    <3>4. Place' = Place /\ cur' = cur /\ Ending' = Ending /\ \A i : Ahead(i)' = Ahead(i)
      BY <1>0 DEF Place, cur, Ending, Ahead
    <3>5. ASSUME NEW i \in live'
          PROVE  SoundBlock(i)' /\ Awaited(i)' /\ EndedMarked(i)'
      <4>1. SoundBlock(i) /\ Awaited(i) /\ EndedMarked(i) /\ Same(i) /\ i # c
        BY <1>0, <3>1, <3>2 DEF SessionsOK
      <4>. QED  BY <1>0, <2>2, <2>6, <3>1, <3>4, <4>1, SoundKept, AwaitedKept, EndedKept
    <3>6. ASSUME NEW i \in Ids
          PROVE  GoneTold(i)'
      <4>1. CASE i = c
        BY <3>3, <4>1 DEF GoneTold
      <4>2. CASE i # c
        <5>1. GoneTold(i) /\ Same(i) /\ (i \in live => i \in live')
          BY <1>0, <3>1, <3>2, <4>2 DEF SessionsOK
        <5>. QED  BY <1>0, <3>1, <5>1, ToldKept
      <4>. QED  BY <4>1, <4>2
    <3>7. SessionsOK'
      BY <3>5, <3>6 DEF SessionsOK
    <3>8. CallsOK'
      BY <2>7, <3>1
    <3>9. c # cur /\ c # loop.nxt
      <4>1. ~(c < c)
        BY <1>2 DEF Ids
      <4>. QED  BY <2>2, <4>1
    <3>10. CurOK'
      <4>1. /\ Place \in AtSession => cur \in live' /\ Same(cur)
            /\ Place \in {"expired", "fed"} => loop.nxt \in live' \cup {Nil}
            /\ Place \notin {"stale", "reopen"}
        BY <1>0, <2>3, <3>1, <3>2, <3>9 DEF CurOK, Returns
      <4>. QED  BY <1>0, <3>1, <3>4, <4>1 DEF CurOK, Same, AtSession, Served
    <3>11. OnlyStaleReads'
      BY <1>0, <3>1 DEF OnlyStaleReads
    <3>. QED  BY <3>7, <3>8, <3>10, <3>11 DEF OrderlyInv
  <2>. QED  BY <1>4, <2>8, <2>9
<1>5. CASE DestroyMarks(t)
  <2>1. /\ calls[t].pc = "remove" /\ closed' = closed \cup {c}
        /\ dcc' = [dcc EXCEPT ![c].state = "REMOVED"]
        /\ calls' = [calls EXCEPT ![t] = NoCall]
        /\ UNCHANGED <<live, lastId, knock, ended, fault>>
    BY <1>5 DEF DestroyMarks, Comes
  <2>2. calls'[t] = NoCall /\ \A u \in Threads \ {t} : calls'[u] = calls[u]
    BY <2>1, CallsChange
  <2>3. /\ \A i \in Ids \ {c} : Same(i)
        /\ dcc'[c].mode = dcc[c].mode /\ dcc'[c].state = "REMOVED"
        /\ dcc'[c].cb = dcc[c].cb /\ dcc'[c].sock = dcc[c].sock
    BY <1>0, <1>2, <2>1 DEF Same, Session
  <2>4. /\ ~Making(c)
        /\ \A i : Making(i)' <=> Making(i)
        /\ \A i : Unmaking(i)' <=> Unmaking(i)
        /\ \A i : i # c /\ Destroying(i) => Destroying(i)'
    <3>1. ~Making(c)
      BY <1>0, <2>1 DEF CallsOK
    <3>2. \A i : (Making(i)' <=> Making(i)) /\ (Unmaking(i)' <=> Unmaking(i))
      BY <1>0, <2>1, <2>2 DEF Making, Makings, Unmaking, NoCall
    <3>3. \A i : i # c /\ Destroying(i) => Destroying(i)'
      BY <2>1, <2>2 DEF Destroying
    <3>. QED  BY <3>1, <3>2, <3>3
  <2>5. SoundBlock(c)'
    BY <2>3, <2>4 DEF SoundBlock
  <2>6. CallsOK'
    <3>1. ASSUME NEW u \in Threads, calls'[u].pc = "remove"
          PROVE  ~Making(calls[u].id)' /\ calls'[u] = calls[u]
      <4>1. ~Making(calls[u].id) /\ calls'[u] = calls[u]
        BY <1>0, <2>2, <3>1 DEF CallsOK, NoCall
      <4>. QED  BY <2>4, <4>1 DEF Making
    <3>2. \A u \in Threads : calls'[u].pc # "none" => calls'[u] = calls[u]
      BY <2>2 DEF NoCall
    <3>3. \A u \in Threads \ {Loop} :
             calls'[u].pc \in {"none", "remove"} /\ (Destroyers \subseteq {Loop} => calls'[u].pc = "none")
      BY <1>0, <2>2 DEF CallsOK, NoCall
    <3>4. /\ calls'[Loop].pc \in Makings => cur < calls'[Loop].id /\ loop.nxt < calls'[Loop].id
          /\ calls'[Loop].pc # "none" => loop.pc \in {"callback", "server"}
          /\ calls'[Loop].pc = "remove" => calls'[Loop].id \notin ended
          /\ \A u \in Threads : calls'[u].pc # "none" => calls'[u].id \in live
      BY <1>0, <3>2 DEF CallsOK, Makings
    <3>. QED  BY <1>0, <1>2, <2>1, <3>1, <3>3, <3>4 DEF CallsOK, cur
  <2>7. c # cur \/ Place \notin {"expired", "stale", "reopen"}
    <3>1. CASE t = Loop
      <4>1. c \notin ended /\ Place \in Returns
        BY <1>0, <2>1, <3>1, LoopCalls DEF CallsOK
      <4>. QED  BY <1>0, <4>1 DEF CurOK, Returns
    <3>2. CASE t # Loop
      <4>1. ~(Destroyers \subseteq {Loop})
        BY <1>0, <2>1, <3>2 DEF CallsOK
      <4>2. ~Timeouts /\ MutexInv
        BY <4>1 DEF Known, OrderlyUse
      <4>3. Place # "reopen"
        BY <1>0, <4>2 DEF MutexInv, Place, CurOK, Returns
      <4>. QED  BY <1>0, <4>2, <4>3 DEF CurOK
    <3>. QED  BY <3>1, <3>2
  <2>. QED  BY <1>0, <2>1, <2>3, <2>4, <2>5, <2>6, <2>7, BlockOrderly
<1>. QED  BY <1>4, <1>5 DEF CallGoesOn

LEMMA KnocksOrderly ==
    ASSUME Known, NEW id \in Ids, Knocks(id)
    PROVE  OrderlyInv'
<1>0. SessionsOK /\ CurOK
  BY DEF Known, OrderlyInv
<1>1. /\ UNCHANGED <<dcc, live, lastId, ended, closed, calls, fault, loop, inSet>>
      /\ knock \subseteq knock'
  BY DEF Knocks, table, rest
<1>2. /\ Place' = Place /\ cur' = cur /\ Ending' = Ending /\ \A i : Ahead(i)' = Ahead(i)
      /\ \A i : Same(i)
  BY <1>1 DEF Place, cur, Ending, Ahead, Same
<1>3. \A i \in live : Awaited(i)'
  BY <1>0, <1>1, <1>2, AwaitedKept DEF SessionsOK
<1>4. CurOK'
  BY <1>0, <1>1, <1>2 DEF CurOK
<1>. QED  BY <1>1, <1>2, <1>3, <1>4, PassesBy

LEMMA InitOrderly == Init => OrderlyInv
<1>. SUFFICES ASSUME Init PROVE OrderlyInv
  OBVIOUS
<1>. USE DEF Init, SessionsInit, CallsInit, LoopInit
<1>0. Ids \subseteq Int /\ Loop \in Threads
  BY DccAssumption DEF Ids, Threads
<1>1. SessionsOK
  BY <1>0 DEF SessionsOK, GoneTold
<1>2. Place = "idle" /\ cur = 0
  BY DEF Place, cur, Nil
<1>3. CurOK
  BY <1>2 DEF CurOK, AtSession, Served, Nil
<1>4. CallsOK
  BY <1>0 DEF CallsOK, NoCall, Makings
<1>. QED  BY <1>1, <1>3, <1>4 DEF OrderlyInv, OnlyStaleReads

LEMMA StutterOrderly ==
    ASSUME Known, UNCHANGED vars
    PROVE  OrderlyInv'
<1>1. SessionsOK /\ CurOK
  BY DEF Known, OrderlyInv
<1>2. UNCHANGED <<dcc, live, lastId, knock, ended, closed, calls, fault, loop, inSet>>
  BY DEF vars, table, rest
<1>3. /\ Place' = Place /\ cur' = cur /\ Ending' = Ending /\ \A i : Ahead(i)' = Ahead(i)
      /\ \A i : Same(i)
  BY <1>2 DEF Place, cur, Ending, Ahead, Same
<1>4. \A i \in live : Awaited(i)'
  BY <1>1, <1>2, <1>3, AwaitedKept DEF SessionsOK
<1>5. CurOK'
  BY <1>1, <1>2, <1>3 DEF CurOK
<1>. QED  BY <1>2, <1>3, <1>4, <1>5, PassesBy

LEMMA NextOrderly ==
    ASSUME Known, [Next]_vars
    PROVE  OrderlyInv'
<1>1. ASSUME NEW t \in Threads, Calling(t)
      PROVE  OrderlyInv'
  BY <1>1, BeginsOrderly, GoesOnOrderly DEF Calling
<1>2. ASSUME NEW id \in Ids, Knocks(id)
      PROVE  OrderlyInv'
  BY <1>2, KnocksOrderly
<1>3. CASE Adding
  BY <1>3, BetweenOrderly, AddOrderly, GoneOrderly DEF Adding
<1>4. CASE Serving
  BY <1>4, BetweenOrderly, ConnectionOrderly, ServedOrderly DEF Serving
<1>5. CASE Reading
  BY <1>5, ReadingOrderly
<1>6. CASE Writing
  BY <1>6, WritingOrderly
<1>7. CASE Turning
  BY <1>7, TurningOrderly
<1>8. CASE UNCHANGED vars
  BY <1>8, StutterOrderly
<1>. QED  BY <1>1, <1>2, <1>3, <1>4, <1>5, <1>6, <1>7, <1>8 DEF Next

\* Under orderly use what the steps start from always holds.
LEMMA KnownHolds ==
    ASSUME OrderlyUse
    PROVE  Spec => []Known
<1>1. Init => Known
  <2>1. Init => Chained
    BY DEF Init, SessionsInit, Chained, IsYoungest
  <2>. QED  BY <2>1, InitInv, InitMutex, InitOrderly DEF Known
<1>2. Known /\ [Next]_vars => Known'
  <2>. SUFFICES ASSUME Known, [Next]_vars PROVE Known'
    OBVIOUS
  <2>1. IInv' /\ Chained' /\ OrderlyInv'
    BY NextInv, ChainedStep, NextOrderly DEF Known
  <2>2. Receives \/ MutexInv'
    BY NextMutex DEF Known, Receives
  <2>. QED  BY <2>1, <2>2 DEF Known, Receives, OrderlyUse
<1>. QED  BY <1>1, <1>2, PTL DEF Spec

\* The loop begins a callback only about a session that is not marked.
LEMMA TellsUnmarked ==
    ASSUME Known, Adding \/ Serving \/ Reading \/ Writing, loop'.pc = "callback",
           loop.pc # "callback"
    PROVE  /\ cur \in live /\ dcc[cur].state # "REMOVED"
           /\ loop.pc \in {"add", "visit", "recv", "send", "sent"}
<1>0. LoopTypeOK
  BY DEF Known, IInv, RestOK
<1>1. /\ \A pc : Jump(pc) => pc = "callback"
      /\ \A n : ~AddNext(n)
      /\ ~NextSession
  BY <1>0, JumpTo, AddNextTo, NextSessionTo DEF Walking
<1>. USE DEF Visits, At, State
<1>2. CASE Adding
  <2>1. ~AddBegins /\ ~ExpiresUnseen
    BY <1>0 DEF AddBegins, ExpiresUnseen, LoopTypeOK, LoopState
  <2>2. Expires \/ FileEnds
    BY <1>1, <1>2, <2>1 DEF Adding, Expired, Stale, Feeds, Fed, Sweeps, SetsMade, Selects, SelectFails
  <2>. QED  BY <2>2 DEF Expires, FileEnds, TimedOut, Hungry
<1>3. CASE Serving
  <2>1. ~ProcessBegins
    BY <1>0 DEF ProcessBegins, LoopTypeOK, LoopState
  <2>2. TakesConnection \/ Connects
    BY <1>1, <1>3, <2>1 DEF Serving, BlocksInAccept, Connected, BadDescriptor, Passes, ProcessEnds
  <2>. QED  BY <2>2 DEF TakesConnection, Connects
<1>4. CASE Reading
  <2>1. ReadFails \/ ReadsChat \/ ReadsFile
    BY <1>1, <1>4 DEF Reading, NothingToRead, Aborts, Drops, ReadsConfirmation, Confirms, Reopens,
                      Relocks
  <2>. QED  BY <2>1 DEF ReadFails, ReadsChat, ReadsFile, InService
<1>5. CASE Writing
  <2>1. SendFails \/ SendsPacket \/ FileReceived
    BY <1>1, <1>5 DEF Writing, NothingToSend, SendsNowhere, Sends, Sent, Finishes
  <2>. QED  BY <2>1 DEF SendFails, SendsPacket, FileReceived, CanSend
<1>. QED  BY <1>2, <1>3, <1>4, <1>5

\* Only the loop reads a freed session, right after a timeout.
LEMMA StaleKept ==
    ASSUME [Next]_vars, ~Stale
    PROVE  stale' = stale
<1>. USE DEF table, rest
<1>1. ASSUME NEW t \in Threads, Calling(t)
      PROVE  stale' = stale
  BY <1>1 DEF Calling, loopVars
<1>2. ASSUME NEW id \in Ids, Knocks(id)
      PROVE  stale' = stale
  BY <1>2 DEF Knocks
<1>3. CASE Adding
  BY <1>3 DEF Adding, AddBegins, ExpiresUnseen, Expires, Expired, Feeds, FileEnds, Fed, Sweeps,
              SetsMade, Selects, SelectFails
<1>4. CASE Serving
  BY <1>4 DEF Serving, ProcessBegins, TakesConnection, BlocksInAccept, Connects, Connected,
              BadDescriptor, Passes, ProcessEnds
<1>5. CASE Reading
  BY <1>5 DEF Reading, NothingToRead, Aborts, ReadFails, Drops, ReadsConfirmation, ReadsChat,
              ReadsFile, Confirms, Reopens, Relocks
<1>6. CASE Writing
  BY <1>6 DEF Writing, NothingToSend, SendsNowhere, SendFails, SendsPacket, Sends, Sent,
              FileReceived, Finishes
<1>7. CASE Turning
  BY <1>7 DEF Turning, CallbackReturns, Requested, GoesRound, Disconnected, Torn, TouchesFreed
<1>8. CASE UNCHANGED vars
  BY <1>8 DEF vars
<1>. QED  BY <1>1, <1>2, <1>3, <1>4, <1>5, <1>6, <1>7, <1>8 DEF Next

-----------------------------------------------------------------------------
(* The theorems.                                                           *)

\* When the thread of the loop alone makes and accepts sessions, nobody sends to
\* one that only sends, and either that thread alone destroys them or none times
\* out and no file is received, then nothing but the two reads of the session a
\* timeout freed is undefined, if free leaves what they read: nothing is freed twice
\* or used later, every callback that is called was set, no closed socket is looked
\* for in a set and the loop does not wait in accept: for any number of threads
\* and sessions, whichever kind of mutex (dcc.c).
THEOREM TimeoutsAside ==
    ASSUME OrderlyUse
    PROVE  Spec => []OnlyStaleReads
<1>1. Known => OnlyStaleReads
  BY DEF Known, OrderlyInv
<1>. QED  BY <1>1, KnownHolds, PTL

\* Under the same use, where no session times out, the code does nothing that is
\* undefined: no session is read after it was freed either.
THEOREM NoUndefinedBehaviour ==
    ASSUME OrderlyUse, ~Timeouts
    PROVE  Spec => []NoFault
<1>1. Init => ~stale
  BY DEF Init, LoopInit
<1>2. ASSUME Known, ~stale, [Next]_vars
      PROVE  ~stale'
  <2>1. ~Stale
    BY <1>2 DEF Known, OrderlyInv, CurOK, Place, Stale, At
  <2>. QED  BY <1>2, <2>1, StaleKept
<1>3. Known /\ ~stale => NoFault
  BY DEF Known, OrderlyInv, OnlyStaleReads, NoFault
<1>. QED  BY <1>1, <1>2, <1>3, KnownHolds, PTL DEF Spec

\* Under the same use a chat that is gone was ended by the application, or its
\* callback was told of the end (libirc_dcc_add_descriptors,
\* libirc_dcc_process_descriptors).
THEOREM ChatEndsAreTold ==
    ASSUME OrderlyUse
    PROVE  Spec => []ChatEndIsTold
<1>1. ASSUME Known
      PROVE  ChatEndIsTold
  BY <1>1 DEF Known, OrderlyInv, OnlyStaleReads, SessionsOK, GoneTold, ChatEndIsTold, EndIsTold, At
<1>. QED  BY <1>1, KnownHolds, PTL

\* Under the same use the loop begins no callback about a session that the
\* application has ended or was told the end of (libirc_dcc_process_descriptors
\* looks at the state after the mutex is taken again).
THEOREM EndIsLast ==
    ASSUME OrderlyUse
    PROVE  Spec => NoCallbackAfterEnd
<1>. DEFINE Last == loop'.pc = "callback" /\ ~At("callback") /\ ~At("server")
                       => cur \notin ended \cup closed
<1>1. ASSUME Known, Next
      PROVE  Last
  <2>. SUFFICES ASSUME loop'.pc = "callback", loop.pc \notin {"callback", "server"}
                PROVE  cur \notin ended \cup closed
    BY <1>1 DEF Known, OrderlyInv, OnlyStaleReads, At
  <2>1. ~Turning
    <3>1. LoopTypeOK
      BY <1>1 DEF Known, IInv, RestOK
    <3>. QED  BY <3>1, JumpTo DEF Turning, CallbackReturns, Requested, GoesRound, Disconnected, Torn,
                  TouchesFreed, At
  <2>2. /\ \A t \in Threads : ~Calling(t)
        /\ \A id \in Ids : ~Knocks(id)
    BY DEF Calling, Knocks, loopVars
  <2>3. Adding \/ Serving \/ Reading \/ Writing
    BY <1>1, <2>1, <2>2 DEF Next
  <2>4. /\ cur \in live /\ dcc[cur].state # "REMOVED"
        /\ loop.pc \in {"add", "visit", "recv", "send", "sent"}
    BY <1>1, <2>3, TellsUnmarked
  <2>5. ~Ending
    BY <2>4 DEF Ending, Place
  <2>. QED  BY <1>1, <2>4, <2>5 DEF Known, OrderlyInv, SessionsOK, EndedMarked
<1>2. Known /\ [Next]_vars => [Last]_vars
  BY <1>1
<1>. QED  BY <1>2, KnownHolds, PTL DEF Spec, NoCallbackAfterEnd
=============================================================================
