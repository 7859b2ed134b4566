----------------------------- MODULE DccProofs ------------------------------
(***************************************************************************)
(* Proofs about the direct client connections, for any number of threads   *)
(* and sessions.                                                           *)
(***************************************************************************)
EXTENDS Dcc, FiniteSetTheorems, WellFoundedInduction, TLAPS

-----------------------------------------------------------------------------
(* The oldest and the youngest.                                             *)

\* Some numbers have a least one; some ids have a greatest one, the youngest.
LEMMA Oldest ==
    ASSUME NEW S \in SUBSET Nat, S # {}
    PROVE  \E m \in S : \A j \in S : m <= j
<1>0. S \subseteq Nat
  OBVIOUS
<1>1. PICK m \in S : \A j \in S : ~(<<j, m>> \in OpToRel(<, Nat))
  BY <1>0, NatLessThanWellFounded, WFMin
<1>2. \A j \in S : ~(j < m)
  BY <1>0, <1>1 DEF OpToRel
<1>3. ASSUME NEW j \in S
      PROVE  m <= j
  <2>1. j \in Nat /\ m \in Nat /\ ~(j < m)
    BY <1>2
  <2>. QED  BY <2>1
<1>. QED  BY <1>3

LEMMA Youngest ==
    ASSUME NEW S \in SUBSET Ids, S # {}
    PROVE  \E m \in S : \A j \in S : j <= m
<1>. DEFINE N == {n \in Nat : \E j \in S : n = MaxId - j}
<1>1. \A j \in S : j \in Int /\ MaxId - j \in N
  BY DccAssumption DEF Ids
<1>2. N # {} /\ N \subseteq Nat
  BY <1>1
<1>3. PICK n \in N : \A k \in N : n <= k
  BY <1>2, Oldest
<1>4. PICK m \in S : n = MaxId - m
  BY <1>3
<1>5. ASSUME NEW j \in S
      PROVE  j <= m
  <2>1. n <= MaxId - j
    BY <1>1, <1>3
  <2>. QED  BY <1>1, <1>4, <2>1, DccAssumption
<1>. QED  BY <1>5

-----------------------------------------------------------------------------
(* A free descriptor.                                                      *)

\* With at most MaxId sessions one of MaxId + 1 descriptors is not in use.
LEMMA SomeFdFree ==
    ASSUME live \subseteq Ids
    PROVE  \E fd \in Fds : \A id \in live : dcc[id].sock # fd
<1>. SUFFICES ASSUME \A fd \in Fds : \E id \in live : dcc[id].sock = fd
              PROVE  FALSE
  OBVIOUS
<1>. DEFINE f == [fd \in Fds |-> CHOOSE id \in live : dcc[id].sock = fd]
<1>1. f \in [Fds -> live] /\ \A fd \in Fds : dcc[f[fd]].sock = fd
  OBVIOUS
<1>. HIDE DEF f
<1>2. IsFiniteSet(Ids) /\ Cardinality(Ids) = MaxId
  BY DccAssumption, FS_Interval DEF Ids
<1>3. IsFiniteSet(live) /\ Cardinality(live) <= MaxId
  BY <1>2, FS_Subset
<1>4. IsFiniteSet(Fds) /\ Cardinality(Fds) = MaxId + 1
  BY DccAssumption, FS_Interval DEF Fds
<1>5. Cardinality(live) < Cardinality(Fds)
  BY <1>3, <1>4, FS_CardinalityType, DccAssumption
<1>6. PICK x \in Fds, y \in Fds : x # y /\ f[x] = f[y]
  BY <1>1, <1>3, <1>4, <1>5, FS_PigeonHole
<1>. QED  BY <1>1, <1>6

\* The system gives one that exists.
LEMMA FreeFdType ==
    ASSUME live \subseteq Ids
    PROVE  FreeFd \in Fds
<1>. DEFINE Free == {fd \in Fds : \A id \in live : dcc[id].sock # fd}
<1>a. PICK g \in Fds : \A id \in live : dcc[id].sock # g
  BY SomeFdFree
<1>b. g \in Free
  BY <1>a
<1>1. Free # {} /\ Free \subseteq Nat
  BY <1>b, DccAssumption DEF Fds
<1>. HIDE DEF Free
<1>2. PICK fd \in Free : \A lower \in Free : fd <= lower
  BY <1>1, Oldest
<1>3. \A lower \in Free : ~(lower < fd)
  <2>1. \A lower \in Free : lower \in Nat
    BY <1>1
  <2>. QED  BY <1>2, <2>1
<1>. USE DEF Free
<1>4. \A lower \in 1..fd - 1 : \E id \in live : dcc[id].sock = lower
  <2>1. SUFFICES ASSUME NEW lower \in 1..fd - 1
                 PROVE  \E id \in live : dcc[id].sock = lower
    OBVIOUS
  <2>2. fd \in 1..MaxId + 1 /\ MaxId \in Nat
    BY <1>2, DccAssumption DEF Fds
  <2>3. lower \in 1..MaxId + 1 /\ lower < fd
    BY <2>2
  <2>4. lower \notin Free
    BY <1>3, <2>3
  <2>. QED  BY <2>3, <2>4 DEF Fds
<1>. QED  BY <1>2, <1>4 DEF FreeFd

-----------------------------------------------------------------------------
(* The table.                                                              *)

\* Ids are given in order.
Given == \A id \in live : id < lastId

\* What is said of the list and its blocks alone.
TableOK ==
    /\ dcc \in [Ids -> Session]
    /\ live \in SUBSET Ids
    /\ head \in Ids \cup {Nil}
    /\ lastId \in 1..MaxId + 1
    /\ NewestFirst
    /\ Given

\* What the table does not hold.
RestOK ==
    /\ owner \in Threads \cup {None}
    /\ told \in SUBSET Ids
    /\ knock \in SUBSET Ids
    /\ ended \in SUBSET Ids
    /\ closed \in SUBSET Ids
    /\ fault \in Faults
    /\ CallsTypeOK
    /\ LoopTypeOK

\* The inductive invariant: types, and the order of the list.
IInv == TableOK /\ RestOK

LEMMA IInvImplies == IInv => TypeOK /\ NewestFirst
BY DEF IInv, TypeOK, SessionsTypeOK, TableOK, RestOK

LEMMA TableKept ==
    TableOK /\ UNCHANGED table => TableOK'
BY DEF TableOK, NewestFirst, Given, table

\* A block that changes keeps its successor.
LEMMA BlockChanged ==
    ASSUME TableOK, NEW id \in Ids, NEW d \in Session, d.next = dcc[id].next,
           dcc' = [dcc EXCEPT ![id] = d], UNCHANGED <<live, head, lastId>>
    PROVE  TableOK'
<1>1. dcc' \in [Ids -> Session]
  BY DEF TableOK
<1>2. \A i \in Ids : dcc'[i].next = dcc[i].next
  BY DEF TableOK
<1>. QED  BY <1>1, <1>2 DEF TableOK, NewestFirst, Given

LEMMA DestroyNolockTable ==
    ASSUME TableOK, NEW id \in Ids, DestroyNolock(id), UNCHANGED <<live, head, lastId>>
    PROVE  TableOK'
<1>1. CASE id \in Listed
  <2>1. /\ Destroyed(dcc[id]) \in Session
        /\ Destroyed(dcc[id]).next = dcc[id].next
    BY DEF TableOK, Destroyed, Session, States
  <2>2. dcc' = [dcc EXCEPT ![id] = Destroyed(dcc[id])]
    BY <1>1 DEF DestroyNolock, TableOK
  <2>. QED  BY <2>1, <2>2, BlockChanged
<1>2. CASE id \notin Listed
  BY <1>2, TableKept DEF DestroyNolock, table
<1>. QED  BY <1>1, <1>2

\* The new session is put before all others.
LEMMA NewTable ==
    ASSUME TableOK, NEW state \in States, NEW mode \in Modes, New(state, mode)
    PROVE  TableOK'
<1>1. FreeFd \in Fds
  BY FreeFdType DEF TableOK
<1>2. lastId \in Ids /\ lastId \in Int
  BY DccAssumption DEF New, TableOK, Ids
<1>. DEFINE d == [state |-> state, mode |-> mode, sock |-> FreeFd, cb |-> FALSE,
                  fp |-> FALSE, out |-> FALSE, next |-> head]
<1>3. d \in Session /\ d.next = head
  BY <1>1 DEF Session, TableOK
<1>4. dcc' = [dcc EXCEPT ![lastId] = d]
  BY DEF New
<1>. HIDE DEF d
<1>5. dcc' \in [Ids -> Session] /\ live' \in SUBSET Ids /\ head' \in Ids
  BY <1>2, <1>3, <1>4 DEF New, TableOK
<1>6. lastId' \in 1..MaxId + 1 /\ head' < lastId'
  BY <1>2, DccAssumption DEF New, TableOK, Ids
<1>7. \A i \in Ids : dcc'[i].next < i
  BY <1>2, <1>3, <1>4 DEF TableOK, NewestFirst
<1>8. Given'
  <2>1. lastId' = lastId + 1 /\ live' = live \cup {lastId} /\ \A id \in live : id < lastId
    BY DEF New, TableOK, Given
  <2>2. live \subseteq Int
    BY DccAssumption DEF TableOK, Ids
  <2>. QED  BY <1>2, <2>1, <2>2 DEF Given
<1>. QED  BY <1>5, <1>6, <1>7, <1>8 DEF TableOK, NewestFirst

\* What takes the place of a removed session is older than it was.
LEMMA RemoveTable ==
    ASSUME TableOK, NEW id \in Ids \cup {Nil}, Remove(id), UNCHANGED lastId
    PROVE  TableOK' /\ fault' \in {fault, "double free"}
<1>1. CASE id \in live
  <2>1. id \in Ids /\ Ids \subseteq Int /\ Nil \in Int
    BY <1>1, DccAssumption DEF TableOK, Ids, Nil
  <2>2. dcc[id] \in Session /\ dcc[id].next \in Ids \cup {Nil} /\ dcc[id].next < id
    BY <2>1 DEF TableOK, NewestFirst, Session
  <2>3. dcc' = Unlinked(id) /\ live' = live \ {id} /\ fault' = fault
        /\ head' = IF head = id THEN dcc[id].next ELSE head
    BY <1>1 DEF Remove
  <2>4. \A i \in Ids : dcc[i] \in Session /\ dcc[i].next < i
    BY DEF TableOK, NewestFirst
  <2>5. ASSUME NEW i \in Ids
        PROVE  Unlinked(id)[i] \in Session /\ Unlinked(id)[i].next < i
    <3>1. CASE i = id
      BY <3>1, <2>2, <2>4 DEF Unlinked, Session
    <3>2. CASE i # id /\ head # id /\ i \in Listed /\ dcc[i].next = id
      BY <3>2, <2>1, <2>2, <2>4 DEF Unlinked, Session
    <3>3. CASE i # id /\ ~(head # id /\ i \in Listed /\ dcc[i].next = id)
      BY <3>3, <2>4 DEF Unlinked
    <3>. QED  BY <3>1, <3>2, <3>3
  <2>6. dcc' \in [Ids -> Session] /\ \A i \in Ids : dcc'[i].next < i
    BY <2>3, <2>5 DEF Unlinked
  <2>7. head' \in Ids \cup {Nil} /\ head' < lastId'
    <3>1. head \in Ids \cup {Nil} /\ head < lastId /\ lastId' = lastId /\ lastId \in Int
      BY DccAssumption DEF TableOK, NewestFirst
    <3>2. head \in Int /\ dcc[id].next \in Int /\ id \in Int
      BY <2>1, <2>2, <3>1
    <3>. QED  BY <2>2, <2>3, <3>1, <3>2
  <2>. QED  BY <2>3, <2>6, <2>7 DEF TableOK, NewestFirst, Given
<1>2. CASE id \notin live
  BY <1>2, TableKept DEF Remove, table
<1>. QED  BY <1>1, <1>2

-----------------------------------------------------------------------------
(* The calls.                                                              *)

LEMMA InitInv == Init => IInv
<1>. USE DccAssumption
<1>1. SUFFICES ASSUME Init PROVE IInv
  OBVIOUS
<1>2. 1 \in 1..MaxId + 1
  OBVIOUS
<1>3. SessionsTypeOK
  BY <1>1, <1>2 DEF Init, SessionsInit, SessionsTypeOK, Session, States, Modes, Faults
<1>4. CallsTypeOK
  BY <1>1 DEF Init, CallsInit, CallsTypeOK
<1>5. LoopTypeOK
  BY <1>1 DEF Init, LoopInit, LoopTypeOK, LoopState, LoopPcs
<1>6. NewestFirst /\ Given
  BY <1>1 DEF Init, SessionsInit, NewestFirst, Given, Ids, Nil
<1>. QED  BY <1>3, <1>4, <1>5, <1>6 DEF IInv, TableOK, RestOK, SessionsTypeOK

\* A thread goes to another place of its call.
LEMMA GoesType ==
    ASSUME CallsTypeOK, NEW t \in Threads, NEW pc \in CallPcs, NEW id \in Ids,
           Goes(t, pc, id)
    PROVE  CallsTypeOK'
BY DEF CallsTypeOK, Goes

\* A call comes back.
LEMMA ComesType ==
    ASSUME CallsTypeOK, NEW t \in Threads, Comes(t)
    PROVE  CallsTypeOK'
BY DEF CallsTypeOK, Comes, NoCall

\* A thread in a call knows its session.
LEMMA InCall ==
    ASSUME CallsTypeOK, NEW t \in Threads, calls[t].pc \in CallPcs
    PROVE  calls[t].id \in Ids
BY DEF CallsTypeOK, NoCall, CallPcs

LEMMA UnlockType ==
    ASSUME owner \in Threads \cup {None}, NEW t \in Threads, Unlock(t)
    PROVE  owner' \in Threads \cup {None}
BY DEF Unlock

LEMMA BeginsInv ==
    ASSUME IInv, NEW t \in Threads, Begins(t), UNCHANGED loopVars
    PROVE  IInv'
<1>. USE DEF CallPcs
<1>. TableOK /\ RestOK
  BY DEF IInv
<1>0. LoopTypeOK'
  BY DEF RestOK, LoopTypeOK, loopVars
<1>1. ASSUME NEW mode \in Offers, Offer(t, mode)
      PROVE  TableOK' /\ RestOK'
  <2>1. mode \in Modes /\ "LISTENING" \in States
    BY OffersAssumption DEF States
  <2>2. TableOK'
    BY <1>1, <2>1, NewTable DEF Offer
  <2>3. lastId \in Ids
    BY <1>1, DccAssumption DEF Offer, New, TableOK, Ids
  <2>4. CallsTypeOK'
    BY <1>1, <2>3, GoesType DEF Offer, RestOK
  <2>. QED  BY <1>0, <1>1, <2>2, <2>4 DEF Offer, RestOK
<1>2. ASSUME NEW id \in Ids, Accept(t, id)
      PROVE  TableOK' /\ RestOK'
  <2>. DEFINE c == [dcc[id] EXCEPT !.cb = TRUE, !.state = "CONNECTING"]
              r == Destroyed([dcc[id] EXCEPT !.cb = TRUE])
  <2>1. c \in Session /\ r \in Session /\ c.next = dcc[id].next /\ r.next = dcc[id].next
    BY DEF TableOK, Session, States, Destroyed
  <2>2. dcc' = [dcc EXCEPT ![id] = c] \/ dcc' = [dcc EXCEPT ![id] = r]
    BY <1>2 DEF Accept, TableOK
  <2>. HIDE DEF c, r
  <2>3. TableOK'
    BY <1>2, <2>1, <2>2, BlockChanged DEF Accept
  <2>. QED  BY <1>0, <1>2, <2>3 DEF Accept, RestOK, CallsTypeOK
<1>3. ASSUME NEW id \in Ids, Decline(t, id)
      PROVE  TableOK' /\ RestOK'
  <2>1. TableOK'
    BY <1>3, DestroyNolockTable DEF Decline
  <2>. QED  BY <1>0, <1>3, <2>1 DEF Decline, RestOK, CallsTypeOK
<1>4. ASSUME NEW id \in Ids, Msg(t, id)
      PROVE  TableOK' /\ RestOK'
  <2>. DEFINE d == [dcc[id] EXCEPT !.out = TRUE]
  <2>1. d \in Session /\ d.next = dcc[id].next
    BY DEF TableOK, Session
  <2>2. dcc' = [dcc EXCEPT ![id] = d]
    BY <1>4 DEF Msg, TableOK
  <2>. HIDE DEF d
  <2>3. TableOK'
    BY <1>4, <2>1, <2>2, BlockChanged DEF Msg
  <2>. QED  BY <1>0, <1>4, <2>3 DEF Msg, RestOK, CallsTypeOK
<1>5. ASSUME NEW id \in Ids, DestroyCloses(t, id)
      PROVE  TableOK' /\ RestOK'
  <2>. DEFINE d == [dcc[id] EXCEPT !.sock = Closed]
  <2>1. d \in Session /\ d.next = dcc[id].next
    BY DEF TableOK, Session
  <2>2. dcc' = [dcc EXCEPT ![id] = d]
    BY <1>5 DEF DestroyCloses, TableOK
  <2>. HIDE DEF d
  <2>3. TableOK'
    BY <1>5, <2>1, <2>2, BlockChanged DEF DestroyCloses
  <2>4. CallsTypeOK'
    BY <1>5, GoesType DEF DestroyCloses, RestOK
  <2>. QED  BY <1>0, <1>5, <2>3, <2>4 DEF DestroyCloses, RestOK
<1>. QED  BY <1>1, <1>2, <1>3, <1>4, <1>5 DEF Begins, IInv

LEMMA CallGoesOnInv ==
    ASSUME IInv, NEW t \in Threads, CallGoesOn(t), UNCHANGED loopVars
    PROVE  IInv'
<1>. USE DEF CallPcs
<1>. DEFINE id == calls[t].id
<1>. TableOK /\ RestOK
  BY DEF IInv
<1>0. LoopTypeOK' /\ CallsTypeOK
  BY DEF RestOK, LoopTypeOK, loopVars
<1>1. id \in Ids
  BY <1>0, InCall DEF CallGoesOn, Announce, SetCallback, AnnounceFails, AnnounceUndone,
                      DestroyMarks
<1>. HIDE DEF id
<1>2. CASE Announce(t)
  <2>. DEFINE d == [dcc[id] EXCEPT !.fp = (dcc[id].mode = "SENDFILE")]
  <2>1. d \in Session /\ d.next = dcc[id].next
    BY <1>1 DEF TableOK, Session
  <2>2. dcc' = [dcc EXCEPT ![id] = d]
    BY <1>1, <1>2 DEF Announce, TableOK, id
  <2>. HIDE DEF d
  <2>3. TableOK'
    BY <1>1, <1>2, <2>1, <2>2, BlockChanged DEF Announce
  <2>4. CallsTypeOK'
    BY <1>0, <1>1, <1>2, GoesType DEF Announce, id
  <2>. QED  BY <1>0, <1>1, <1>2, <2>3, <2>4 DEF Announce, RestOK, IInv, id
<1>3. CASE SetCallback(t)
  <2>. DEFINE d == [dcc[id] EXCEPT !.cb = TRUE]
  <2>1. d \in Session /\ d.next = dcc[id].next
    BY <1>1 DEF TableOK, Session
  <2>2. dcc' = [dcc EXCEPT ![id] = d]
    BY <1>1, <1>3 DEF SetCallback, TableOK, id
  <2>. HIDE DEF d
  <2>3. TableOK'
    BY <1>1, <1>3, <2>1, <2>2, BlockChanged DEF SetCallback
  <2>4. CallsTypeOK'
    BY <1>0, <1>3, ComesType DEF SetCallback
  <2>. QED  BY <1>0, <1>3, <2>3, <2>4 DEF SetCallback, RestOK, IInv, Faults
<1>4. CASE AnnounceFails(t)
  <2>. DEFINE d == [dcc[id] EXCEPT !.sock = Closed]
  <2>1. d \in Session /\ d.next = dcc[id].next
    BY <1>1 DEF TableOK, Session
  <2>2. dcc' = [dcc EXCEPT ![id] = d]
    BY <1>1, <1>4 DEF AnnounceFails, TableOK, id
  <2>. HIDE DEF d
  <2>3. TableOK'
    BY <1>1, <1>4, <2>1, <2>2, BlockChanged DEF AnnounceFails
  <2>4. CallsTypeOK'
    BY <1>0, <1>1, <1>4, GoesType DEF AnnounceFails, id
  <2>. QED  BY <1>0, <1>4, <2>3, <2>4 DEF AnnounceFails, RestOK, IInv
<1>5. CASE AnnounceUndone(t)
  <2>1. TableOK' /\ fault' \in {fault, "double free"}
    BY <1>1, <1>5, RemoveTable DEF AnnounceUndone, id
  <2>2. CallsTypeOK'
    BY <1>0, <1>5, ComesType DEF AnnounceUndone
  <2>. QED  BY <1>0, <1>5, <2>1, <2>2 DEF AnnounceUndone, RestOK, IInv, Faults
<1>6. CASE DestroyMarks(t)
  <2>. DEFINE d == [dcc[id] EXCEPT !.state = "REMOVED"]
  <2>1. d \in Session /\ d.next = dcc[id].next
    BY <1>1 DEF TableOK, Session, States
  <2>2. dcc' = [dcc EXCEPT ![id] = d]
    BY <1>1, <1>6 DEF DestroyMarks, TableOK, id
  <2>. HIDE DEF d
  <2>3. TableOK'
    BY <1>1, <1>6, <2>1, <2>2, BlockChanged DEF DestroyMarks
  <2>4. CallsTypeOK'
    BY <1>0, <1>6, ComesType DEF DestroyMarks
  <2>5. owner' \in Threads \cup {None}
    BY <1>6, UnlockType DEF DestroyMarks, RestOK
  <2>. QED  BY <1>0, <1>1, <1>6, <2>3, <2>4, <2>5 DEF DestroyMarks, RestOK, IInv, id
<1>. QED  BY <1>2, <1>3, <1>4, <1>5, <1>6 DEF CallGoesOn

-----------------------------------------------------------------------------
(* The loop: where it goes.                                                *)

LEMMA JumpType ==
    ASSUME LoopTypeOK, NEW pc \in LoopPcs, Jump(pc)
    PROVE  loop' \in LoopState
BY DEF LoopTypeOK, LoopState, Jump

LEMMA AddNextType ==
    ASSUME LoopTypeOK, NEW nxt \in Ids \cup {Nil}, AddNext(nxt)
    PROVE  loop' \in LoopState
BY DEF LoopTypeOK, LoopState, LoopPcs, AddNext

LEMMA NextSessionType ==
    ASSUME TableOK, LoopTypeOK, cur \in Ids, NextSession
    PROVE  loop' \in LoopState
<1>1. dcc[cur].next \in Ids \cup {Nil}
  BY DEF TableOK, Session
<1>. QED  BY <1>1 DEF LoopTypeOK, LoopState, LoopPcs, NextSession

LEMMA CallbackType ==
    ASSUME RestOK, cur \in Ids, NEW final \in BOOLEAN, NEW after \in LoopPcs,
           NEW lock \in BOOLEAN, Callback(final, after, lock)
    PROVE  /\ owner' \in Threads \cup {None} /\ fault' \in Faults
           /\ ended' \in SUBSET Ids /\ loop' \in LoopState
<1>1. loop' \in LoopState
  BY DEF Callback, RestOK, LoopTypeOK, LoopState, LoopPcs
<1>. QED  BY <1>1 DEF Callback, UnlockForCallback, Unlock, RestOK, Faults

LEMMA TellsType ==
    ASSUME RestOK, cur \in Ids, NEW err \in BOOLEAN, Tells(err)
    PROVE  /\ owner' \in Threads \cup {None} /\ fault' \in Faults
           /\ ended' \in SUBSET Ids /\ loop' \in LoopState
<1>1. loop' \in LoopState
  <2>1. CASE Mode = "CHAT"
    <3>1. loop' = [loop EXCEPT !.pc = "callback", !.after = "connected",
                               !.lock = TRUE, !.err = err]
      BY <2>1 DEF Tells
    <3>. QED  BY <3>1 DEF RestOK, LoopTypeOK, LoopState, LoopPcs
  <2>2. CASE Mode # "CHAT"
    <3>1. loop' = [loop EXCEPT !.pc = "connected", !.err = err]
      BY <2>2 DEF Tells
    <3>. QED  BY <3>1 DEF RestOK, LoopTypeOK, LoopState, LoopPcs
  <2>. QED  BY <2>1, <2>2
<1>. QED  BY <1>1 DEF Tells, UnlockForCallback, Unlock, RestOK, Faults, quiet

LEMMA CurType == ASSUME LoopTypeOK PROVE cur \in Ids \cup {Nil} /\ loop.nxt \in Ids \cup {Nil}
                                         /\ loop.after \in LoopPcs
BY DEF LoopTypeOK, LoopState, cur

LEMMA CurLive == ASSUME TableOK, cur \in live PROVE cur \in Ids /\ dcc[cur].next \in Ids \cup {Nil}
BY DEF TableOK, Session

-----------------------------------------------------------------------------
(* The loop: its steps.                                                    *)

\* A step that leaves the table and the calls alone, and the rest in type.
LEMMA LoopStep ==
    ASSUME IInv, TableOK', UNCHANGED <<told, closed, calls>>,
           owner' \in Threads \cup {None}, knock' \in SUBSET Ids, ended' \in SUBSET Ids,
           fault' \in Faults, loop' \in LoopState, inSet' \in SUBSET Fds,
           outSet' \in SUBSET Fds, stale' \in BOOLEAN
    PROVE  IInv'
BY DEF IInv, RestOK, CallsTypeOK, LoopTypeOK

LEMMA AddingInv ==
    ASSUME IInv, Adding
    PROVE  IInv'
<1>. USE DEF LoopPcs
<1>. TableOK /\ RestOK /\ LoopTypeOK
  BY DEF IInv, RestOK
<1>0. /\ owner \in Threads \cup {None} /\ knock \in SUBSET Ids /\ ended \in SUBSET Ids
      /\ fault \in Faults /\ inSet \in SUBSET Fds /\ outSet \in SUBSET Fds
      /\ stale \in BOOLEAN /\ loop \in LoopState
      /\ cur \in Ids \cup {Nil} /\ loop.nxt \in Ids \cup {Nil}
      /\ Loop \in Threads /\ "double free" \in Faults
  BY CurType DEF RestOK, LoopTypeOK, Threads, Faults
<1>1. CASE AddBegins
  <2>1. TableOK'
    BY <1>1, TableKept DEF AddBegins
  <2>2. loop' \in LoopState
    BY <1>1, <1>0 DEF AddBegins, TableOK, LoopState
  <2>. QED  BY <1>0, <1>1, <2>1, <2>2, LoopStep DEF AddBegins, Lock
<1>2. CASE ExpiresUnseen
  <2>1. TableOK' /\ fault' \in Faults
    BY <1>0, <1>2, RemoveTable DEF ExpiresUnseen
  <2>2. loop' \in LoopState
    BY <1>0, <1>2, CurLive DEF ExpiresUnseen, LoopState
  <2>. QED  BY <1>0, <1>2, <2>1, <2>2, LoopStep DEF ExpiresUnseen
<1>3. CASE Expires
  <2>1. TableOK'
    BY <1>3, TableKept DEF Expires
  <2>2. loop' \in LoopState /\ ended' \in SUBSET Ids
    BY <1>0, <1>3, CurLive DEF Expires, LoopState
  <2>3. owner' \in Threads \cup {None}
    BY <1>0, <1>3, UnlockType DEF Expires, UnlockForCallback
  <2>. QED  BY <1>0, <1>3, <2>1, <2>2, <2>3, LoopStep DEF Expires
<1>4. CASE Expired
  <2>1. TableOK' /\ fault' \in Faults
    BY <1>0, <1>4, RemoveTable DEF Expired
  <2>. QED  BY <1>0, <1>4, <2>1, JumpType, LoopStep DEF Expired
<1>5. CASE Stale
  <2>1. TableOK'
    BY <1>5, TableKept DEF Stale
  <2>. QED  BY <1>0, <1>5, <2>1, AddNextType, LoopStep DEF Stale
<1>6. CASE Feeds
  <2>. DEFINE d == [dcc[cur] EXCEPT !.out = TRUE]
  <2>1. cur \in Ids /\ dcc[cur].next \in Ids \cup {Nil}
    BY <1>6, CurLive DEF Feeds
  <2>2. d \in Session /\ d.next = dcc[cur].next
    BY <2>1 DEF TableOK, Session
  <2>3. dcc' = [dcc EXCEPT ![cur] = d]
    BY <1>6, <2>1 DEF Feeds, TableOK
  <2>. HIDE DEF d
  <2>4. TableOK'
    BY <1>6, <2>1, <2>2, <2>3, BlockChanged DEF Feeds
  <2>. QED  BY <1>0, <1>6, <2>1, <2>4, AddNextType, LoopStep DEF Feeds
<1>7. CASE FileEnds
  <2>1. TableOK'
    BY <1>7, TableKept DEF FileEnds
  <2>2. loop' \in LoopState /\ ended' \in SUBSET Ids
    BY <1>0, <1>7, CurLive DEF FileEnds, LoopState
  <2>3. owner' \in Threads \cup {None} /\ fault' \in Faults
    BY <1>0, <1>7, UnlockType DEF FileEnds, UnlockForCallback, Faults
  <2>. QED  BY <1>0, <1>7, <2>1, <2>2, <2>3, LoopStep DEF FileEnds
<1>8. CASE Fed
  <2>1. TableOK' /\ fault' \in Faults
    BY <1>0, <1>8, RemoveTable DEF Fed
  <2>. QED  BY <1>0, <1>8, <2>1, AddNextType, LoopStep DEF Fed
<1>9. CASE Sweeps
  <2>1. cur \in Ids /\ dcc[cur].next \in Ids \cup {Nil}
    BY <1>9, CurLive DEF Sweeps
  <2>2. CASE State = "REMOVED"
    <3>1. TableOK' /\ fault' \in Faults
      BY <1>0, <1>9, <2>2, RemoveTable DEF Sweeps, State
    <3>. QED  BY <1>0, <1>9, <2>1, <3>1, AddNextType, LoopStep DEF Sweeps
  <2>3. CASE State # "REMOVED"
    <3>1. TableOK' /\ UNCHANGED fault
      BY <1>9, <2>3, TableKept DEF Sweeps, table, State
    <3>. QED  BY <1>0, <1>9, <2>1, <3>1, AddNextType, LoopStep DEF Sweeps
  <2>. QED  BY <2>2, <2>3
<1>10. CASE SetsMade
  <2>1. TableOK'
    BY <1>10, TableKept DEF SetsMade
  <2>2. \A id \in Listed : dcc[id].sock \in Fds \cup {Closed}
    BY DEF TableOK, Session, Listed
  <2>3. inSet' \in SUBSET Fds /\ outSet' \in SUBSET Fds /\ fault' \in Faults
    BY <1>0, <1>10, <2>2 DEF SetsMade, Faults
  <2>4. owner' \in Threads \cup {None}
    BY <1>0, <1>10, UnlockType DEF SetsMade
  <2>. QED  BY <1>0, <1>10, <2>1, <2>3, <2>4, JumpType, LoopStep DEF SetsMade
<1>11. CASE Selects
  <2>1. TableOK'
    BY <1>11, TableKept DEF Selects
  <2>2. inSet' \in SUBSET Fds /\ outSet' \in SUBSET Fds
    BY <1>0, <1>11 DEF Selects
  <2>. QED  BY <1>0, <1>11, <2>1, <2>2, JumpType, LoopStep DEF Selects
<1>12. CASE SelectFails
  <2>1. TableOK'
    BY <1>12, TableKept DEF SelectFails
  <2>. QED  BY <1>0, <1>12, <2>1, JumpType, LoopStep DEF SelectFails
<1>. QED  BY <1>1, <1>2, <1>3, <1>4, <1>5, <1>6, <1>7, <1>8, <1>9, <1>10, <1>11, <1>12
          DEF Adding

\* The types of what is not in the table, for the steps below.
RestTypes ==
    /\ owner \in Threads \cup {None} /\ knock \in SUBSET Ids /\ ended \in SUBSET Ids
    /\ fault \in Faults /\ loop \in LoopState /\ live \in SUBSET Ids
    /\ Loop \in Threads /\ Faults = {"none", "freed session", "double free",
          "null callback", "bad descriptor", "blocked in accept", "aborted"}

LEMMA RestTypesHold == IInv => RestTypes
BY DEF IInv, TableOK, RestOK, LoopTypeOK, Threads, Faults, RestTypes

\* A step that leaves the sets of descriptors alone as well.
LEMMA RestKept ==
    ASSUME IInv, TableOK', UNCHANGED rest, owner' \in Threads \cup {None},
           knock' \in SUBSET Ids, ended' \in SUBSET Ids, fault' \in Faults,
           loop' \in LoopState
    PROVE  IInv'
<1>1. inSet \in SUBSET Fds /\ outSet \in SUBSET Fds /\ stale \in BOOLEAN
  BY DEF IInv, RestOK, LoopTypeOK
<1>. QED  BY <1>1, LoopStep DEF rest

\* Some fields of the block at hand change, not its successor.
LEMMA AtHand ==
    ASSUME TableOK, cur \in live
    PROVE  /\ cur \in Ids /\ dcc[cur] \in Session /\ FreeFd \in Fds
           /\ dcc \in [Ids -> Session]
BY FreeFdType DEF TableOK

LEMMA ServingInv ==
    ASSUME IInv, Serving
    PROVE  IInv'
<1>. USE DEF LoopPcs
<1>. TableOK /\ RestOK /\ LoopTypeOK
  BY DEF IInv, RestOK
<1>0. RestTypes
  BY RestTypesHold
<1>. USE <1>0 DEF RestTypes, Visits
<1>1. CASE ProcessBegins
  <2>1. TableOK'
    BY <1>1, TableKept DEF ProcessBegins
  <2>2. loop' \in LoopState
    BY <1>1 DEF ProcessBegins, TableOK, LoopState
  <2>. QED  BY <1>1, <2>1, <2>2, RestKept DEF ProcessBegins, Lock
<1>2. CASE TakesConnection
  <2>. DEFINE d == [dcc[cur] EXCEPT !.sock = FreeFd, !.state = "CONNECTED"]
  <2>1. cur \in Ids /\ dcc[cur] \in Session /\ FreeFd \in Fds /\ dcc \in [Ids -> Session]
    BY <1>2, AtHand DEF TakesConnection
  <2>2. d \in Session /\ d.next = dcc[cur].next
    BY <2>1 DEF Session, States
  <2>3. \/ dcc' = [dcc EXCEPT ![cur] = d] /\ Tells(FALSE)
        \/ dcc' = dcc /\ Tells(TRUE)
    BY <1>2, <2>1 DEF TakesConnection
  <2>. HIDE DEF d
  <2>4. UNCHANGED <<live, head, lastId>> /\ UNCHANGED rest /\ knock' \in SUBSET Ids
    BY <1>2 DEF TakesConnection
  <2>5. TableOK'
    BY <2>1, <2>2, <2>3, <2>4, BlockChanged, TableKept DEF table
  <2>. QED  BY <2>1, <2>3, <2>4, <2>5, TellsType, RestKept
<1>3. CASE BlocksInAccept
  <2>1. TableOK'
    BY <1>3, TableKept DEF BlocksInAccept
  <2>. QED  BY <1>3, <2>1, RestKept DEF BlocksInAccept
<1>4. CASE Connects
  <2>. DEFINE d == [dcc[cur] EXCEPT !.state = "CONNECTED"]
  <2>1. cur \in Ids /\ dcc[cur] \in Session /\ dcc \in [Ids -> Session]
    BY <1>4, AtHand DEF Connects
  <2>2. d \in Session /\ d.next = dcc[cur].next
    BY <2>1 DEF Session, States
  <2>3. \/ dcc' = [dcc EXCEPT ![cur] = d] /\ Tells(FALSE)
        \/ dcc' = dcc /\ Tells(TRUE)
    BY <1>4, <2>1 DEF Connects
  <2>. HIDE DEF d
  <2>4. UNCHANGED <<live, head, lastId>> /\ UNCHANGED rest /\ UNCHANGED knock
    BY <1>4 DEF Connects
  <2>5. TableOK'
    BY <2>1, <2>2, <2>3, <2>4, BlockChanged, TableKept DEF table
  <2>. QED  BY <2>1, <2>3, <2>4, <2>5, TellsType, RestKept
<1>5. CASE Connected
  <2>1. cur \in Ids
    BY <1>5, AtHand DEF Connected
  <2>2. TableOK'
    BY <1>5, <2>1, DestroyNolockTable, TableKept DEF Connected, table
  <2>3. loop' \in LoopState
    BY <1>5, <2>1, NextSessionType, JumpType DEF Connected
  <2>. QED  BY <1>5, <2>2, <2>3, RestKept DEF Connected, quiet
<1>6. CASE BadDescriptor
  <2>1. TableOK'
    BY <1>6, TableKept DEF BadDescriptor
  <2>. QED  BY <1>6, <2>1, RestKept DEF BadDescriptor
<1>7. CASE Passes
  <2>1. TableOK' /\ cur \in Ids
    BY <1>7, AtHand, TableKept DEF Passes
  <2>2. loop' \in LoopState
    BY <1>7, <2>1, NextSessionType, JumpType DEF Passes
  <2>. QED  BY <1>7, <2>1, <2>2, RestKept DEF Passes, quiet
<1>8. CASE ProcessEnds
  <2>1. TableOK'
    BY <1>8, TableKept DEF ProcessEnds
  <2>. QED  BY <1>8, <2>1, JumpType, UnlockType, RestKept DEF ProcessEnds
<1>. QED  BY <1>1, <1>2, <1>3, <1>4, <1>5, <1>6, <1>7, <1>8 DEF Serving

LEMMA ReadingInv ==
    ASSUME IInv, Reading
    PROVE  IInv'
<1>. USE DEF LoopPcs
<1>. TableOK /\ RestOK /\ LoopTypeOK
  BY DEF IInv, RestOK
<1>0. RestTypes
  BY RestTypesHold
<1>. USE <1>0 DEF RestTypes, Visits
<1>1. CASE NothingToRead
  <2>1. TableOK' /\ cur \in Ids
    BY <1>1, AtHand, TableKept DEF NothingToRead, CanSend
  <2>2. loop' \in LoopState
    BY <1>1, <2>1, JumpType, NextSessionType DEF NothingToRead, CanSend
  <2>. QED  BY <1>1, <2>1, <2>2, RestKept DEF NothingToRead, quiet
<1>2. CASE Aborts
  <2>1. TableOK'
    BY <1>2, TableKept DEF Aborts
  <2>. QED  BY <1>2, <2>1, RestKept DEF Aborts
<1>3. CASE ReadFails
  <2>1. cur \in Ids /\ dcc[cur] \in Session /\ dcc \in [Ids -> Session]
    BY <1>3, AtHand DEF ReadFails, CanSend
  <2>2. PICK f \in {dcc[cur].fp, FALSE} : dcc' = [dcc EXCEPT ![cur].fp = f]
    BY <1>3 DEF ReadFails
  <2>. DEFINE d == [dcc[cur] EXCEPT !.fp = f]
  <2>3. d \in Session /\ d.next = dcc[cur].next
    BY <2>1, <2>2 DEF Session, States
  <2>4. dcc' = [dcc EXCEPT ![cur] = d]
    BY <2>1, <2>2
  <2>. HIDE DEF d
  <2>5. TableOK'
    BY <1>3, <2>1, <2>3, <2>4, BlockChanged DEF ReadFails
  <2>6. Callback(TRUE, "drop", TRUE) /\ UNCHANGED rest /\ UNCHANGED knock
    BY <1>3 DEF ReadFails
  <2>. QED  BY <2>1, <2>5, <2>6, CallbackType, RestKept
<1>4. CASE Drops
  <2>1. cur \in Ids
    BY <1>4, AtHand DEF Drops
  <2>2. TableOK'
    BY <1>4, <2>1, DestroyNolockTable DEF Drops
  <2>3. loop' \in LoopState
    BY <1>4, <2>1, NextSessionType DEF Drops
  <2>. QED  BY <1>4, <2>2, <2>3, RestKept DEF Drops, quiet
<1>5. CASE ReadsConfirmation
  <2>1. cur \in Ids /\ dcc[cur] \in Session /\ dcc \in [Ids -> Session]
    BY <1>5, AtHand DEF ReadsConfirmation, CanSend
  <2>2. PICK s \in {"CONFIRM_SIZE", "CONNECTED"} : dcc' = [dcc EXCEPT ![cur].state = s]
    BY <1>5 DEF ReadsConfirmation
  <2>. DEFINE d == [dcc[cur] EXCEPT !.state = s]
  <2>3. d \in Session /\ d.next = dcc[cur].next
    BY <2>1, <2>2 DEF Session, States
  <2>4. dcc' = [dcc EXCEPT ![cur] = d]
    BY <2>1, <2>2
  <2>. HIDE DEF d
  <2>5. TableOK'
    BY <1>5, <2>1, <2>3, <2>4, BlockChanged DEF ReadsConfirmation
  <2>6. loop' \in LoopState
    BY <1>5, <2>1, JumpType DEF ReadsConfirmation
  <2>. QED  BY <1>5, <2>5, <2>6, RestKept DEF ReadsConfirmation, quiet
<1>6. CASE ReadsChat
  <2>1. TableOK' /\ cur \in Ids
    BY <1>6, AtHand, TableKept DEF ReadsChat, CanSend
  <2>2. Callback(FALSE, "send", TRUE) /\ UNCHANGED rest /\ UNCHANGED knock
    BY <1>6 DEF ReadsChat
  <2>. QED  BY <2>1, <2>2, CallbackType, RestKept
<1>7. CASE ReadsFile
  <2>1. TableOK' /\ cur \in Ids
    BY <1>7, AtHand, TableKept DEF ReadsFile, CanSend
  <2>2. Callback(FALSE, "confirm", FALSE) /\ UNCHANGED rest /\ UNCHANGED knock
    BY <1>7 DEF ReadsFile
  <2>. QED  BY <2>1, <2>2, CallbackType, RestKept
<1>8. CASE Confirms
  <2>1. TableOK' /\ cur \in Ids
    BY <1>8, AtHand, TableKept DEF Confirms, CanSend
  <2>2. loop' \in LoopState
    BY <1>8, <2>1, JumpType, NextSessionType DEF Confirms, CanSend
  <2>. QED  BY <1>8, <2>1, <2>2, RestKept DEF Confirms, quiet
<1>9. CASE Reopens
  <2>1. cur \in Ids /\ dcc[cur] \in Session /\ dcc \in [Ids -> Session]
    BY <1>9, AtHand DEF Reopens, CanSend
  <2>2. dcc' = [dcc EXCEPT ![cur].state = "CONFIRM_SIZE", ![cur].out = TRUE]
    BY <1>9 DEF Reopens
  <2>. DEFINE d == [dcc[cur] EXCEPT !.state = "CONFIRM_SIZE", !.out = TRUE]
  <2>3. d \in Session /\ d.next = dcc[cur].next
    BY <2>1, <2>2 DEF Session, States
  <2>4. dcc' = [dcc EXCEPT ![cur] = d]
    BY <2>1, <2>2
  <2>. HIDE DEF d
  <2>5. TableOK'
    BY <1>9, <2>1, <2>3, <2>4, BlockChanged DEF Reopens
  <2>6. loop' \in LoopState
    BY <1>9, <2>1, JumpType DEF Reopens
  <2>. QED  BY <1>9, <2>5, <2>6, RestKept DEF Reopens, quiet
<1>10. CASE Relocks
  <2>1. TableOK'
    BY <1>10, TableKept DEF Relocks
  <2>. QED  BY <1>10, <2>1, JumpType, RestKept DEF Relocks, Lock
<1>. QED  BY <1>1, <1>2, <1>3, <1>4, <1>5, <1>6, <1>7, <1>8, <1>9, <1>10 DEF Reading

LEMMA WritingInv ==
    ASSUME IInv, Writing
    PROVE  IInv'
<1>. USE DEF LoopPcs
<1>. TableOK /\ RestOK /\ LoopTypeOK
  BY DEF IInv, RestOK
<1>0. RestTypes
  BY RestTypesHold
<1>. USE <1>0 DEF RestTypes, Visits
<1>1. CASE NothingToSend
  <2>1. TableOK' /\ cur \in Ids
    BY <1>1, AtHand, TableKept DEF NothingToSend, CanSend
  <2>2. loop' \in LoopState
    BY <1>1, <2>1, JumpType, NextSessionType DEF NothingToSend, CanSend
  <2>. QED  BY <1>1, <2>1, <2>2, RestKept DEF NothingToSend, quiet
<1>2. CASE SendsNowhere
  <2>1. TableOK'
    BY <1>2, TableKept DEF SendsNowhere
  <2>. QED  BY <1>2, <2>1, RestKept DEF SendsNowhere
<1>3. CASE SendFails
  <2>1. TableOK' /\ cur \in Ids
    BY <1>3, AtHand, TableKept DEF SendFails, CanSend
  <2>2. Callback(TRUE, "drop", TRUE) /\ UNCHANGED rest /\ UNCHANGED knock
    BY <1>3 DEF SendFails
  <2>. QED  BY <2>1, <2>2, CallbackType, RestKept
<1>4. CASE SendsPacket
  <2>1. cur \in Ids /\ dcc[cur] \in Session /\ dcc \in [Ids -> Session]
    BY <1>4, AtHand DEF SendsPacket, CanSend
  <2>2. dcc' = [dcc EXCEPT ![cur].state = "CONFIRM_SIZE"]
    BY <1>4 DEF SendsPacket
  <2>. DEFINE d == [dcc[cur] EXCEPT !.state = "CONFIRM_SIZE"]
  <2>3. d \in Session /\ d.next = dcc[cur].next
    BY <2>1, <2>2 DEF Session, States
  <2>4. dcc' = [dcc EXCEPT ![cur] = d]
    BY <2>1, <2>2
  <2>. HIDE DEF d
  <2>5. TableOK'
    BY <1>4, <2>1, <2>3, <2>4, BlockChanged DEF SendsPacket
  <2>6. Callback(FALSE, "sent", TRUE) /\ UNCHANGED rest /\ UNCHANGED knock
    BY <1>4 DEF SendsPacket
  <2>. QED  BY <2>1, <2>5, <2>6, CallbackType, RestKept
<1>5. CASE Sends
  <2>1. TableOK' /\ cur \in Ids
    BY <1>5, AtHand, TableKept DEF Sends, CanSend
  <2>2. loop' \in LoopState
    BY <1>5, <2>1, JumpType, NextSessionType DEF Sends, CanSend
  <2>. QED  BY <1>5, <2>1, <2>2, RestKept DEF Sends, quiet
<1>6. CASE Sent
  <2>1. cur \in Ids /\ dcc[cur] \in Session /\ dcc \in [Ids -> Session]
    BY <1>6, AtHand DEF Sent
  <2>2. PICK more \in BOOLEAN, s \in {dcc[cur].state, "CONNECTED"} :
          dcc' = [dcc EXCEPT ![cur] = [dcc[cur] EXCEPT !.out = more, !.state = s]]
    BY <1>6, <2>1 DEF Sent, State
  <2>. DEFINE d == [dcc[cur] EXCEPT !.out = more, !.state = s]
  <2>3. d \in Session /\ d.next = dcc[cur].next
    BY <2>1, <2>2 DEF Session, States
  <2>4. dcc' = [dcc EXCEPT ![cur] = d]
    BY <2>2
  <2>. HIDE DEF d
  <2>5. TableOK'
    BY <1>6, <2>1, <2>3, <2>4, BlockChanged DEF Sent
  <2>6. loop' \in LoopState
    BY <1>6, <2>1, NextSessionType DEF Sent
  <2>. QED  BY <1>6, <2>5, <2>6, RestKept DEF Sent, quiet
<1>7. CASE FileReceived
  <2>1. cur \in Ids /\ dcc[cur] \in Session /\ dcc \in [Ids -> Session]
    BY <1>7, AtHand DEF FileReceived, CanSend
  <2>2. dcc' = [dcc EXCEPT ![cur].out = FALSE]
    BY <1>7 DEF FileReceived
  <2>. DEFINE d == [dcc[cur] EXCEPT !.out = FALSE]
  <2>3. d \in Session /\ d.next = dcc[cur].next
    BY <2>1, <2>2 DEF Session, States
  <2>4. dcc' = [dcc EXCEPT ![cur] = d]
    BY <2>1, <2>2
  <2>. HIDE DEF d
  <2>5. TableOK'
    BY <1>7, <2>1, <2>3, <2>4, BlockChanged DEF FileReceived
  <2>6. Callback(TRUE, "finish", FALSE) /\ UNCHANGED rest /\ UNCHANGED knock
    BY <1>7 DEF FileReceived
  <2>. QED  BY <2>1, <2>5, <2>6, CallbackType, RestKept
<1>8. CASE Finishes
  <2>1. cur \in Ids
    BY <1>8, AtHand DEF Finishes
  <2>2. TableOK'
    BY <1>8, <2>1, DestroyNolockTable DEF Finishes
  <2>3. loop' \in LoopState
    BY <1>8, <2>1, NextSessionType DEF Finishes
  <2>. QED  BY <1>8, <2>2, <2>3, RestKept DEF Finishes, quiet
<1>. QED  BY <1>1, <1>2, <1>3, <1>4, <1>5, <1>6, <1>7, <1>8 DEF Writing

LEMMA TornTable == TableOK /\ Torn => TableOK'
<1>. SUFFICES ASSUME TableOK, Torn PROVE TableOK'
  OBVIOUS
<1>1. Nil < lastId
  BY DccAssumption DEF TableOK, Nil
<1>2. UNCHANGED <<dcc, lastId>> /\ live' = {} /\ head' = Nil
  BY DEF Torn
<1>3. NewestFirst'
  BY <1>1, <1>2 DEF TableOK, NewestFirst
<1>. QED  BY <1>2, <1>3 DEF TableOK, Given

LEMMA TurningInv ==
    ASSUME IInv, Turning
    PROVE  IInv'
<1>. USE DEF LoopPcs
<1>. TableOK /\ RestOK /\ LoopTypeOK
  BY DEF IInv, RestOK
<1>0. RestTypes
  BY RestTypesHold
<1>. USE <1>0 DEF RestTypes, Visits
<1>1. CASE CallbackReturns
  <2>1. TableOK'
    BY <1>1, TableKept DEF CallbackReturns
  <2>2. loop' \in LoopState
    BY <1>1, CurType, JumpType DEF CallbackReturns
  <2>. QED  BY <1>1, <2>1, <2>2, RestKept DEF CallbackReturns, Lock, rest
<1>2. CASE Requested
  <2>1. TableOK'
    BY <1>2, IncomingAssumption, NewTable DEF Requested, States
  <2>2. loop' \in LoopState
    BY <1>2 DEF Requested, LoopState
  <2>. QED  BY <1>2, <2>1, <2>2, RestKept DEF Requested, quiet
<1>3. CASE GoesRound
  <2>1. TableOK'
    BY <1>3, TableKept DEF GoesRound
  <2>. QED  BY <1>3, <2>1, JumpType, RestKept DEF GoesRound, quiet
<1>4. CASE Disconnected
  <2>1. TableOK'
    BY <1>4, TableKept DEF Disconnected
  <2>. QED  BY <1>4, <2>1, JumpType, RestKept DEF Disconnected, quiet
<1>5. CASE Torn
  <2>. QED  BY <1>5, TornTable, RestKept DEF Torn, quiet
<1>6. CASE TouchesFreed
  <2>1. TableOK'
    BY <1>6, TableKept DEF TouchesFreed
  <2>. QED  BY <1>6, <2>1, RestKept DEF TouchesFreed
<1>. QED  BY <1>1, <1>2, <1>3, <1>4, <1>5, <1>6 DEF Turning

LEMMA KnocksInv ==
    ASSUME IInv, NEW id \in Ids, Knocks(id)
    PROVE  IInv'
<1>1. RestTypes /\ TableOK
  BY RestTypesHold DEF IInv
<1>2. TableOK'
  BY <1>1, TableKept DEF Knocks
<1>. QED  BY <1>1, <1>2, RestKept DEF Knocks, RestTypes

-----------------------------------------------------------------------------
(* The specification.                                                      *)

LEMMA NextInv == IInv /\ [Next]_vars => IInv'
<1>. SUFFICES ASSUME IInv, [Next]_vars
              PROVE  IInv'
  OBVIOUS
<1>1. ASSUME NEW t \in Threads, Calling(t)
      PROVE  IInv'
  BY <1>1, BeginsInv, CallGoesOnInv DEF Calling
<1>2. ASSUME NEW id \in Ids, Knocks(id)
      PROVE  IInv'
  BY <1>2, KnocksInv
<1>3. CASE UNCHANGED vars
  <2>1. RestTypes /\ TableOK
    BY RestTypesHold DEF IInv
  <2>2. TableOK'
    BY <1>3, <2>1, TableKept DEF vars
  <2>. QED  BY <1>3, <2>1, <2>2, RestKept DEF vars, RestTypes
<1>. QED  BY <1>1, <1>2, <1>3, AddingInv, ServingInv, ReadingInv, WritingInv, TurningInv
          DEF Next

LEMMA IInvHolds == Spec => []IInv
<1>. QED  BY InitInv, NextInv, PTL DEF Spec

\* The state of the connections always is of its type: every session at hand
\* of a thread or of the loop has an id that was given, for any number of
\* threads and sessions.
THEOREM DccTypeCorrect == Spec => []TypeOK
<1>. QED  BY IInvHolds, IInvImplies, PTL

\* The list is ordered by age whatever callbacks and threads do, freed blocks
\* and double frees included: a walk along it (libirc_find_dcc_session, the two
\* passes of the loop) comes to an end.
THEOREM WalksEnd == Spec => []NewestFirst
<1>. QED  BY IInvHolds, IInvImplies, PTL

-----------------------------------------------------------------------------
(* The list.                                                               *)

\* What Nth gives at k when it is nth up to there.
Walked(nth, k) ==
    IF k = 0 THEN head ELSE IF nth[k - 1] = Nil THEN Nil ELSE dcc[nth[k - 1]].next

\* The walk along the list exists, however the blocks are linked.
LEMMA WalkExists ==
    ASSUME NEW n \in Nat
    PROVE  \E nth : nth = [k \in 0..n |-> Walked(nth, k)]
<1>. DEFINE Bad == {m \in Nat : ~\E nth : nth = [k \in 0..m |-> Walked(nth, k)]}
<1>1. SUFFICES ASSUME Bad # {} PROVE FALSE
  OBVIOUS
<1>2. PICK m \in Bad : \A j \in Bad : m <= j
  BY <1>1, Oldest
<1>3. CASE m = 0
  <2>. DEFINE nth == [k \in 0..0 |-> head]
  <2>1. nth = [k \in 0..0 |-> Walked(nth, k)]
    BY DEF Walked
  <2>. QED  BY <1>3, <1>2, <2>1
<1>4. CASE m # 0
  <2>1. m - 1 \in Nat /\ m - 1 \notin Bad
    BY <1>2, <1>4
  <2>2. PICK g : g = [k \in 0..m - 1 |-> Walked(g, k)]
    BY <2>1
  <2>. DEFINE nth == [k \in 0..m |-> IF k = m THEN Walked(g, m) ELSE g[k]]
  <2>3. \A k \in 0..m - 1 : nth[k] = g[k]
    BY <2>1
  <2>4. ASSUME NEW k \in 0..m
        PROVE  nth[k] = Walked(nth, k)
    <3>0. Walked(nth, k) = Walked(g, k)
      BY <2>1, <2>3 DEF Walked
    <3>1. CASE k = m
      BY <3>0, <3>1
    <3>2. CASE k # m
      <4>1. k \in 0..m - 1
        BY <3>2, <2>1
      <4>. QED  BY <2>2, <2>3, <3>0, <4>1
    <3>. QED  BY <3>1, <3>2
  <2>5. nth = [k \in 0..m |-> Walked(nth, k)]
    BY <2>4
  <2>. QED  BY <1>2, <2>5
<1>. QED  BY <1>3, <1>4

\* The walk, step by step.
LEMMA Walk == \A k \in 0..MaxId : Nth[k] = Walked(Nth, k)
<1>1. \E nth : nth = [k \in 0..MaxId |-> Walked(nth, k)]
  BY WalkExists, DccAssumption
<1>2. Nth = [k \in 0..MaxId |-> Walked(Nth, k)]
  BY <1>1 DEF Nth, Walked
<1>. QED  BY <1>2

\* n is the youngest of S, or there is none.
IsYoungest(n, S) == IF S = {} THEN n = Nil ELSE n \in S /\ \A j \in S : j <= n

\* The allocated sessions older than i.
Older(i) == {j \in live : j < i}

\* The list begins with the youngest session, and every session in it is
\* followed by the youngest of those that are older.
Chained ==
    /\ IsYoungest(head, live)
    /\ \A i \in live : IsYoungest(dcc[i].next, Older(i))

\* Where the walk comes to is allocated.
LEMMA WalkIsLive ==
    ASSUME TableOK, Chained
    PROVE  \A k \in 0..MaxId : Nth[k] \in live \cup {Nil}
<1>. DEFINE Bad == {k \in 0..MaxId : Nth[k] \notin live \cup {Nil}}
<1>1. SUFFICES ASSUME Bad # {} PROVE FALSE
  OBVIOUS
<1>2. PICK k \in Bad : \A j \in Bad : k <= j
  <2>1. Bad \in SUBSET Nat
    BY DccAssumption
  <2>. HIDE DEF Bad
  <2>. QED  BY <1>1, <2>1, Oldest
<1>3. CASE k = 0
  BY <1>2, <1>3, Walk DEF Walked, Chained, IsYoungest
<1>4. CASE k # 0
  <2>1. k - 1 \in 0..MaxId /\ ~(k <= k - 1)
    BY <1>2, <1>4, DccAssumption
  <2>2. Nth[k - 1] \in live \cup {Nil}
    BY <1>2, <2>1
  <2>3. \A i \in live : dcc[i].next \in live \cup {Nil}
    BY DEF Chained, IsYoungest, Older
  <2>4. Nth[k] \in live \cup {Nil}
    BY <1>2, <1>4, <2>2, <2>3, Walk DEF Walked
  <2>. QED  BY <1>2, <2>4
<1>. QED  BY <1>3, <1>4

\* Every step of the walk goes to an older session, and so the end is reached.
LEMMA WalkGoesDown ==
    ASSUME TableOK, Chained, NEW k \in 0..MaxId, Nth[k] # Nil
    PROVE  /\ Nth[k] + k <= MaxId
           /\ \A m \in 0..k - 1 : Nth[k] < Nth[m]
<1>. DEFINE Good(n) == Nth[n] + n <= MaxId /\ \A m \in 0..n - 1 : Nth[n] < Nth[m]
            Bad == {n \in 0..MaxId : Nth[n] # Nil /\ ~Good(n)}
<1>1. SUFFICES ASSUME Bad # {} PROVE FALSE
  OBVIOUS
<1>2. PICK n \in Bad : \A j \in Bad : n <= j
  <2>1. Bad \in SUBSET Nat
    BY DccAssumption
  <2>. HIDE DEF Bad
  <2>. QED  BY <1>1, <2>1, Oldest
<1>3. \A j \in 0..MaxId : Nth[j] \in Nat /\ Nth[j] <= MaxId /\ (Nth[j] # Nil => Nth[j] \in live)
  <2>1. live \subseteq 1..MaxId /\ \A i \in 1..MaxId : i \in Nat /\ i <= MaxId
    BY DccAssumption DEF TableOK, Ids
  <2>2. 0 \in Nat /\ 0 <= MaxId
    BY DccAssumption
  <2>. QED  BY <2>1, <2>2, WalkIsLive DEF Nil
<1>4. CASE n = 0
  <2>1. Good(0)
    BY <1>3, DccAssumption
  <2>. QED  BY <1>2, <1>4, <2>1
<1>5. CASE n # 0
  <2>1. n - 1 \in 0..MaxId /\ ~(n <= n - 1) /\ n \in Nat
    BY <1>2, <1>5, DccAssumption
  <2>2. Nth[n] # Nil /\ Nth[n] = Walked(Nth, n) /\ n \in 0..MaxId
    BY <1>2, Walk
  <2>3. Nth[n - 1] # Nil /\ Nth[n] = dcc[Nth[n - 1]].next
    BY <2>2, <1>5 DEF Walked
  <2>4. Good(n - 1)
    BY <1>2, <2>1, <2>3
  <2>5. Nth[n] < Nth[n - 1]
    <3>1. Nth[n - 1] \in Ids
      BY <1>3, <2>1, <2>3 DEF TableOK
    <3>. QED  BY <3>1, <2>3 DEF TableOK, NewestFirst
  <2>6. Nth[n] \in Nat /\ Nth[n - 1] \in Nat
    BY <1>3, <2>1, <2>2
  <2>7. Nth[n] + n <= MaxId
    BY <2>1, <2>4, <2>5, <2>6, DccAssumption
  <2>8. ASSUME NEW m \in 0..n - 1
        PROVE  Nth[n] < Nth[m]
    <3>1. CASE m = n - 1
      BY <2>5, <3>1
    <3>2. CASE m # n - 1
      <4>1. m \in 0..(n - 1) - 1 /\ m \in 0..MaxId
        <5>1. \A a, b, c \in Int : a \in 0..b - 1 /\ a # b - 1 /\ b - 1 \in 0..c
                => a \in 0..(b - 1) - 1 /\ a \in 0..c
          OBVIOUS
        <5>. QED  BY <2>1, <3>2, <5>1, DccAssumption
      <4>2. Nth[n - 1] < Nth[m] /\ Nth[m] \in Nat
        BY <2>4, <4>1, <1>3
      <4>. QED  BY <2>5, <2>6, <4>2
    <3>. QED  BY <3>1, <3>2
  <2>. QED  BY <1>2, <2>7, <2>8
<1>. QED  BY <1>4, <1>5

\* Every allocated session is come to.
LEMMA WalkComesTo ==
    ASSUME TableOK, Chained, NEW id \in live
    PROVE  \E k \in 0..MaxId : Nth[k] = id
<1>. DEFINE Missed == {i \in live : ~\E k \in 0..MaxId : Nth[k] = i}
<1>0. live \subseteq Ids /\ \A i \in live : i \in Nat
  BY DccAssumption DEF TableOK, Ids
<1>1. SUFFICES ASSUME Missed # {} PROVE FALSE
  OBVIOUS
<1>2. PICK i \in Missed : \A j \in Missed : j <= i
  <2>1. Missed \in SUBSET Ids
    BY <1>0
  <2>. HIDE DEF Missed
  <2>. QED  BY <1>1, <2>1, Youngest
<1>3. i \in live /\ i \in Nat
  BY <1>0, <1>2
<1>4. head \in live /\ i < head
  <2>1. head \in live /\ i <= head
    BY <1>3 DEF Chained, IsYoungest
  <2>2. 0 \in 0..MaxId /\ Nth[0] = head
    BY Walk, DccAssumption DEF Walked
  <2>3. head # i
    BY <1>2, <2>2
  <2>. QED  BY <1>0, <1>3, <2>1, <2>3
<1>. DEFINE Younger == {j \in live : i < j}
<1>5. PICK j \in Younger : \A l \in Younger : j <= l
  <2>1. Younger # {} /\ Younger \in SUBSET Nat
    BY <1>0, <1>4
  <2>. HIDE DEF Younger
  <2>. QED  BY <2>1, Oldest
<1>6. j \in live /\ j \in Nat /\ i < j
  BY <1>0, <1>5
<1>7. dcc[j].next = i
  <2>1. i \in Older(j)
    BY <1>3, <1>6 DEF Older
  <2>2. dcc[j].next \in Older(j) /\ i <= dcc[j].next
    BY <1>6, <2>1 DEF Chained, IsYoungest
  <2>3. dcc[j].next \in live /\ dcc[j].next < j /\ dcc[j].next \in Nat
    BY <1>0, <2>2 DEF Older
  <2>4. ~(i < dcc[j].next)
    BY <1>5, <1>6, <2>3
  <2>. QED  BY <1>3, <2>2, <2>3, <2>4
<1>8. PICK k \in 0..MaxId : Nth[k] = j
  <2>1. ~(j <= i)
    BY <1>3, <1>6
  <2>. QED  BY <1>2, <1>6, <2>1
<1>9. Nth[k] # Nil
  BY <1>0, <1>6, <1>8 DEF Ids, Nil
<1>10. j + k <= MaxId
  BY <1>8, <1>9, WalkGoesDown
<1>11. k + 1 \in 0..MaxId /\ k + 1 # 0 /\ (k + 1) - 1 = k
  BY <1>3, <1>6, <1>10, DccAssumption
<1>12. Nth[k + 1] = i
  BY <1>7, <1>8, <1>9, <1>11, Walk DEF Walked
<1>. QED  BY <1>2, <1>11, <1>12

\* Such a list holds what is allocated, and nothing twice.
LEMMA ChainedListOk == TableOK /\ Chained => ListOk
<1>. SUFFICES ASSUME TableOK, Chained PROVE ListOk
  OBVIOUS
<1>0. live \subseteq Ids /\ Nil \notin Ids
  BY DEF TableOK, Ids, Nil
<1>1. Listed \subseteq live
  BY <1>0, WalkIsLive DEF Listed
<1>2. live \subseteq Listed
  BY <1>0, WalkComesTo DEF Listed
<1>3. ASSUME NEW k \in 0..MaxId, NEW l \in 0..MaxId, Nth[k] = Nth[l], Nth[k] # Nil, k < l
      PROVE  FALSE
  <2>1. k \in 0..l - 1
    BY <1>3, DccAssumption
  <2>2. Nth[l] < Nth[k] /\ Nth[l] + l <= MaxId
    BY <1>3, <2>1, WalkGoesDown
  <2>3. Nth[l] \in Int
    <3>1. Nth[l] \in live
      BY <1>3, WalkIsLive
    <3>2. \A i \in Ids : i \in Int
      BY DccAssumption DEF Ids
    <3>. QED  BY <1>0, <3>1, <3>2
  <2>. QED  BY <1>3, <2>2, <2>3
<1>4. \A k, l \in 0..MaxId : Nth[k] = Nth[l] /\ Nth[k] # Nil => k = l
  <2>1. \A k, l \in 0..MaxId : k = l \/ k < l \/ l < k
    BY DccAssumption
  <2>. QED  BY <1>3, <2>1
<1>. QED  BY <1>1, <1>2, <1>4 DEF ListOk

\* A step that links no block to another one.
SameLinks ==
    /\ UNCHANGED <<live, head>>
    /\ \A id \in Ids : dcc'[id].next = dcc[id].next

\* A step that adds a session, removes one, or frees all.
Relinks ==
    \/ \E state \in States, mode \in Modes : New(state, mode)
    \/ \E id \in live : Remove(id)
    \/ Torn

\* A removal removes an allocated session, or is a second one.
LEMMA Removes ==
    ASSUME NEW id, Remove(id)
    PROVE  SameLinks \/ Relinks
BY DEF Remove, SameLinks, Relinks

LEMMA MarksLinks ==
    ASSUME TableOK, NEW id \in Ids, DestroyNolock(id), UNCHANGED <<live, head>>
    PROVE  SameLinks
BY DEF DestroyNolock, Destroyed, TableOK, Session, SameLinks

LEMMA SameTableLinks ==
    ASSUME UNCHANGED table
    PROVE  SameLinks
BY DEF table, SameLinks

LEMMA CallingLinks ==
    ASSUME IInv, NEW t \in Threads, Begins(t) \/ CallGoesOn(t)
    PROVE  SameLinks \/ Relinks
<1>. TableOK /\ dcc \in [Ids -> Session] /\ CallsTypeOK
  BY DEF IInv, TableOK, RestOK
<1>1. ASSUME NEW mode \in Offers, Offer(t, mode)
      PROVE  Relinks
  <2>1. "LISTENING" \in States /\ mode \in Modes
    BY OffersAssumption DEF States
  <2>. QED  BY <1>1, <2>1 DEF Offer, Relinks
<1>2. ASSUME NEW id \in Ids, Accept(t, id) \/ Msg(t, id) \/ DestroyCloses(t, id)
      PROVE  SameLinks
  <2>1. CASE Accept(t, id)
    <3>1. /\ UNCHANGED <<live, head>>
          /\ \/ dcc' = [dcc EXCEPT ![id].cb = TRUE, ![id].state = "CONNECTING"]
             \/ dcc' = [dcc EXCEPT ![id] = Destroyed([dcc[id] EXCEPT !.cb = TRUE])]
      BY <2>1 DEF Accept
    <3>2. Destroyed([dcc[id] EXCEPT !.cb = TRUE]).next = dcc[id].next
      BY DEF Destroyed, Session
    <3>. HIDE DEF Destroyed
    <3>3. CASE dcc' = [dcc EXCEPT ![id] = Destroyed([dcc[id] EXCEPT !.cb = TRUE])]
      BY <3>1, <3>2, <3>3 DEF SameLinks
    <3>4. CASE dcc' = [dcc EXCEPT ![id].cb = TRUE, ![id].state = "CONNECTING"]
      BY <3>1, <3>4 DEF Session, SameLinks
    <3>. QED  BY <3>1, <3>3, <3>4
  <2>2. CASE Msg(t, id)
    BY <2>2 DEF Msg, Session, SameLinks
  <2>3. CASE DestroyCloses(t, id)
    BY <2>3 DEF DestroyCloses, Session, SameLinks
  <2>. QED  BY <1>2, <2>1, <2>2, <2>3
<1>3. ASSUME NEW id \in Ids, Decline(t, id)
      PROVE  SameLinks
  BY <1>3, MarksLinks DEF Decline
<1>4. CASE Begins(t)
  BY <1>1, <1>2, <1>3, <1>4 DEF Begins
<1>5. CASE Announce(t) \/ SetCallback(t) \/ AnnounceFails(t) \/ DestroyMarks(t)
  <2>1. calls[t].id \in Ids
    <3>1. calls[t].pc \in CallPcs
      BY <1>5 DEF CallPcs, Announce, SetCallback, AnnounceFails, DestroyMarks
    <3>. QED  BY <3>1, InCall
  <2>2. CASE Announce(t)
    BY <2>1, <2>2 DEF Announce, Session, SameLinks
  <2>3. CASE SetCallback(t)
    BY <2>1, <2>3 DEF SetCallback, Session, SameLinks
  <2>4. CASE AnnounceFails(t)
    BY <2>1, <2>4 DEF AnnounceFails, Session, SameLinks
  <2>5. CASE DestroyMarks(t)
    BY <2>1, <2>5 DEF DestroyMarks, Session, SameLinks
  <2>. QED  BY <1>5, <2>2, <2>3, <2>4, <2>5
<1>6. CASE AnnounceUndone(t)
  BY <1>6, Removes DEF AnnounceUndone
<1>. QED  BY <1>4, <1>5, <1>6 DEF CallGoesOn

LEMMA AddingLinks ==
    ASSUME IInv, Adding
    PROVE  SameLinks \/ Relinks
<1>. TableOK /\ dcc \in [Ids -> Session]
  BY DEF IInv, TableOK
<1>1. CASE AddBegins \/ Expires \/ Stale \/ FileEnds \/ SetsMade \/ Selects \/ SelectFails
  BY <1>1, SameTableLinks DEF AddBegins, Expires, Stale, FileEnds, SetsMade, Selects, SelectFails
<1>2. CASE ExpiresUnseen \/ Expired \/ Fed
  BY <1>2, Removes DEF ExpiresUnseen, Expired, Fed
<1>3. CASE Feeds
  BY <1>3, AtHand DEF Feeds, Session, SameLinks
<1>4. CASE Sweeps
  BY <1>4, Removes DEF Sweeps, SameLinks
<1>. QED  BY <1>1, <1>2, <1>3, <1>4 DEF Adding

LEMMA ServingLinks ==
    ASSUME IInv, Serving
    PROVE  SameLinks
<1>. TableOK /\ dcc \in [Ids -> Session]
  BY DEF IInv, TableOK
<1>1. CASE ProcessBegins \/ BlocksInAccept \/ BadDescriptor \/ Passes \/ ProcessEnds
  BY <1>1, SameTableLinks DEF ProcessBegins, BlocksInAccept, BadDescriptor, Passes, ProcessEnds
<1>2. CASE TakesConnection \/ Connects
  <2>1. cur \in Ids /\ dcc[cur] \in Session
    BY <1>2, AtHand DEF Visits, CanSend, TakesConnection, Connects
  <2>2. CASE TakesConnection
    <3>1. /\ UNCHANGED <<live, head>>
          /\ \/ dcc' = [dcc EXCEPT ![cur].sock = FreeFd, ![cur].state = "CONNECTED"]
             \/ dcc' = dcc
      BY <2>2 DEF TakesConnection
    <3>. QED  BY <2>1, <3>1 DEF Session, SameLinks
  <2>3. CASE Connects
    <3>1. /\ UNCHANGED <<live, head>>
          /\ \/ dcc' = [dcc EXCEPT ![cur].state = "CONNECTED"]
             \/ dcc' = dcc
      BY <2>3 DEF Connects
    <3>. QED  BY <2>1, <3>1 DEF Session, SameLinks
  <2>. QED  BY <1>2, <2>2, <2>3
<1>3. CASE Connected
  BY <1>3, AtHand, MarksLinks DEF Connected, Visits, SameLinks
<1>. QED  BY <1>1, <1>2, <1>3 DEF Serving

LEMMA ReadingLinks ==
    ASSUME IInv, Reading
    PROVE  SameLinks
<1>. TableOK /\ dcc \in [Ids -> Session]
  BY DEF IInv, TableOK
<1>1. CASE NothingToRead \/ Aborts \/ ReadsChat \/ ReadsFile \/ Confirms \/ Relocks
  BY <1>1, SameTableLinks DEF NothingToRead, Aborts, ReadsChat, ReadsFile, Confirms, Relocks
<1>2. CASE ReadFails \/ ReadsConfirmation \/ Reopens
  <2>1. cur \in Ids /\ dcc[cur] \in Session
    BY <1>2, AtHand DEF Visits, CanSend, ReadFails, ReadsConfirmation, Reopens
  <2>2. CASE ReadFails
    BY <2>1, <2>2 DEF ReadFails, Session, SameLinks
  <2>3. CASE ReadsConfirmation
    BY <2>1, <2>3 DEF ReadsConfirmation, Session, SameLinks
  <2>4. CASE Reopens
    BY <2>1, <2>4 DEF Reopens, Session, SameLinks
  <2>. QED  BY <1>2, <2>2, <2>3, <2>4
<1>3. CASE Drops
  BY <1>3, AtHand, MarksLinks DEF Drops, Visits
<1>. QED  BY <1>1, <1>2, <1>3 DEF Reading

LEMMA WritingLinks ==
    ASSUME IInv, Writing
    PROVE  SameLinks
<1>. TableOK /\ dcc \in [Ids -> Session]
  BY DEF IInv, TableOK
<1>1. CASE NothingToSend \/ SendsNowhere \/ SendFails \/ Sends
  BY <1>1, SameTableLinks DEF NothingToSend, SendsNowhere, SendFails, Sends
<1>2. CASE SendsPacket \/ Sent \/ FileReceived
  <2>1. cur \in Ids /\ dcc[cur] \in Session
    BY <1>2, AtHand DEF Visits, CanSend, SendsPacket, Sent, FileReceived
  <2>2. CASE SendsPacket
    BY <2>1, <2>2 DEF SendsPacket, Session, SameLinks
  <2>3. CASE Sent
    BY <2>1, <2>3 DEF Sent, Session, SameLinks
  <2>4. CASE FileReceived
    BY <2>1, <2>4 DEF FileReceived, Session, SameLinks
  <2>. QED  BY <1>2, <2>2, <2>3, <2>4
<1>3. CASE Finishes
  BY <1>3, AtHand, MarksLinks DEF Finishes, Visits
<1>. QED  BY <1>1, <1>2, <1>3 DEF Writing

LEMMA TurningLinks ==
    ASSUME Turning
    PROVE  SameLinks \/ Relinks
<1>1. CASE CallbackReturns \/ GoesRound \/ Disconnected \/ TouchesFreed
  BY <1>1, SameTableLinks DEF CallbackReturns, GoesRound, Disconnected, TouchesFreed
<1>2. CASE Requested
  BY <1>2, IncomingAssumption DEF Requested, Relinks, States
<1>3. CASE Torn
  BY <1>3 DEF Relinks
<1>. QED  BY <1>1, <1>2, <1>3 DEF Turning

LEMMA NextLinks == IInv /\ [Next]_vars => SameLinks \/ Relinks
<1>. SUFFICES ASSUME IInv, [Next]_vars
              PROVE  SameLinks \/ Relinks
  OBVIOUS
<1>1. ASSUME NEW t \in Threads, Calling(t)
      PROVE  SameLinks \/ Relinks
  BY <1>1, CallingLinks DEF Calling
<1>2. ASSUME NEW id \in Ids, Knocks(id)
      PROVE  SameLinks
  BY <1>2, SameTableLinks DEF Knocks
<1>3. CASE UNCHANGED vars
  BY <1>3, SameTableLinks DEF vars
<1>. QED  BY <1>1, <1>2, <1>3, AddingLinks, ServingLinks, ReadingLinks, WritingLinks,
             TurningLinks DEF Next

-----------------------------------------------------------------------------
(* The chain is kept.                                                      *)

LEMMA SameChained ==
    ASSUME TableOK, Chained, SameLinks
    PROVE  Chained'
<1>1. \A i : Older(i)' = Older(i)
  BY DEF Older, SameLinks
<1>2. \A i \in live : dcc'[i].next = dcc[i].next
  BY DEF TableOK, SameLinks
<1>. QED  BY <1>1, <1>2 DEF Chained, IsYoungest, SameLinks

LEMMA NewChained ==
    ASSUME TableOK, Chained, NEW state \in States, NEW mode \in Modes, New(state, mode)
    PROVE  Chained'
<1>1. lastId \in Ids /\ lastId \in Int /\ lastId \notin live
  BY DccAssumption DEF New, TableOK, Given, Ids
<1>2. /\ live' = live \cup {lastId} /\ head' = lastId
      /\ dcc'[lastId].next = head
      /\ \A i \in live : dcc'[i].next = dcc[i].next
  BY <1>1 DEF New, TableOK
<1>3. \A i \in live : i \in Int /\ i < lastId /\ ~(lastId < i)
  <2>1. \A i \in live : i \in Int /\ i < lastId
    BY DccAssumption DEF TableOK, Given, Ids
  <2>. QED  BY <1>1, <2>1
<1>4. IsYoungest(head', live')
  BY <1>1, <1>2, <1>3 DEF IsYoungest
<1>5. {j \in live' : j < lastId} = live
  BY <1>1, <1>2, <1>3
<1>6. ASSUME NEW i \in live
      PROVE  {j \in live' : j < i} = Older(i)
  BY <1>1, <1>2, <1>3 DEF Older
<1>7. IsYoungest(head, live) /\ \A i \in live : IsYoungest(dcc[i].next, Older(i))
  BY DEF Chained
<1>8. ASSUME NEW i \in live'
      PROVE  IsYoungest(dcc'[i].next, {j \in live' : j < i})
  <2>1. CASE i = lastId
    BY <1>2, <1>5, <1>7, <2>1
  <2>2. CASE i # lastId
    BY <1>2, <1>6, <1>7, <2>2
  <2>. QED  BY <2>1, <2>2
<1>. QED  BY <1>4, <1>8 DEF Chained, Older, IsYoungest

LEMMA RemoveChained ==
    ASSUME TableOK, Chained, NEW id \in live, Remove(id)
    PROVE  Chained'
<1>1. live \subseteq Ids /\ live \subseteq Int
  BY DccAssumption DEF TableOK, Ids
<1>2. Listed = live
  BY ChainedListOk DEF ListOk
<1>3. /\ live' = live \ {id}
      /\ head' = IF head = id THEN dcc[id].next ELSE head
      /\ dcc' = Unlinked(id)
  BY DEF Remove
<1>4. IsYoungest(head', live')
  <2>1. head \in live /\ \A j \in live : j <= head
    BY DEF Chained, IsYoungest
  <2>2. CASE head # id
    BY <1>3, <2>1, <2>2 DEF IsYoungest
  <2>3. CASE head = id
    <3>1. Older(id) = live'
      <4>1. \A j \in live : j # id => j < id
        BY <1>1, <2>1, <2>3
      <4>2. ~(id < id)
        BY <1>1
      <4>. QED  BY <1>3, <4>1, <4>2 DEF Older
    <3>. QED  BY <1>3, <2>3, <3>1 DEF Chained, IsYoungest
  <2>. QED  BY <2>2, <2>3
<1>5. ASSUME NEW i \in live'
      PROVE  IsYoungest(dcc'[i].next, Older(i)')
  <2>1. i \in live /\ i \in Ids /\ i # id /\ i \in Int /\ id \in Int /\ id # Nil
    BY <1>1, <1>3 DEF Ids, Nil
  <2>2. Older(i)' = Older(i) \ {id}
    BY <1>3 DEF Older
  <2>3. IsYoungest(dcc[i].next, Older(i))
    BY <2>1 DEF Chained
  <2>4. CASE dcc[i].next = id
    <3>1. id \in Older(i) /\ \A j \in Older(i) : j <= id
      BY <2>1, <2>3, <2>4 DEF IsYoungest
    <3>2. Older(i) \ {id} = Older(id)
      <4>1. id < i /\ ~(id < id)
        BY <1>1, <2>1, <3>1 DEF Older
      <4>2. \A j \in live : j < i /\ j # id => j < id
        BY <1>1, <3>1 DEF Older
      <4>3. \A j \in live : j < id => j < i
        BY <1>1, <2>1, <4>1
      <4>. QED  BY <4>1, <4>2, <4>3 DEF Older
    <3>3. head # id
      BY <1>1, <2>1, <3>1 DEF Chained, IsYoungest, Older
    <3>4. dcc'[i].next = dcc[id].next
      BY <1>2, <1>3, <2>1, <2>4, <3>3 DEF Unlinked, TableOK, Session
    <3>. QED  BY <2>2, <3>2, <3>4 DEF Chained
  <2>5. CASE dcc[i].next # id
    <3>1. dcc'[i].next = dcc[i].next
      BY <1>3, <2>1, <2>5 DEF Unlinked
    <3>. QED  BY <2>2, <2>3, <2>5, <3>1 DEF IsYoungest
  <2>. QED  BY <2>4, <2>5
<1>. QED  BY <1>4, <1>5 DEF Chained

LEMMA ChainedStep == IInv /\ Chained /\ [Next]_vars => Chained'
<1>. SUFFICES ASSUME IInv, Chained, [Next]_vars
              PROVE  Chained'
  OBVIOUS
<1>1. TableOK /\ (SameLinks \/ Relinks)
  BY NextLinks DEF IInv
<1>2. ASSUME Torn PROVE Chained'
  BY <1>2 DEF Torn, Chained, IsYoungest
<1>. QED  BY <1>1, <1>2, SameChained, NewChained, RemoveChained DEF Relinks

\* The list holds every allocated session once and nothing else, and ends,
\* whatever callbacks and threads call and the loop removes, for any number of
\* threads and sessions: no removal loses another session, and none that was
\* freed stays in it (libirc_remove_dcc_session, libirc_new_dcc_session).
THEOREM ListHolds == Spec => []ListOk
<1>1. Init => Chained
  BY DEF Init, SessionsInit, Chained, IsYoungest
<1>2. IInv /\ Chained => ListOk
  BY ChainedListOk DEF IInv
<1>. QED  BY <1>1, <1>2, IInvHolds, ChainedStep, PTL DEF Spec
=============================================================================
