--------------------------- MODULE EquWholeProofs ---------------------------
(***************************************************************************)
(* Plain use of a daemon that stays implements EquRpc: every step of a     *)
(* client, of the daemon and of their streams is a step of the abstract    *)
(* call or changes nothing of it.  A step of EquIpc is looked at in the    *)
(* phases of EquRpcProofs.  Any use at all serves a request at most once:  *)
(* a request is followed through the streams and buffers it passes.  And   *)
(* the daemon keeps its place in the stream of a client that is alone.     *)
(***************************************************************************)
EXTENDS EquRpcProofs, FiniteSetTheorems

-----------------------------------------------------------------------------
(* What a process shows of itself.                                         *)

\* p shows the same call, answer and result after a step.
Same(p) ==
    /\ AbsCall'[p] = AbsCall[p]
    /\ AbsAnswer'[p] = AbsAnswer[p]
    /\ AbsResult'[p] = AbsResult[p]

LEMMA Idle ==
    ASSUME NEW p \in Procs, frames[p] = << >> \/ p \in gone
    PROVE  AbsCall[p] = None /\ AbsAnswer[p] = None
BY DEF AbsCall, AbsAnswer, Waiting, Running

LEMMA IdleAfter ==
    ASSUME NEW p \in Procs, frames'[p] = << >> \/ p \in gone'
    PROVE  AbsCall'[p] = None /\ AbsAnswer'[p] = None
BY DEF AbsCall, AbsAnswer, Waiting, Running

\* The answer a waiting call has, wherever it is.
LEMMA Busy ==
    ASSUME NEW p \in Procs, NEW m \in Message,
           p \notin gone, fault = {}, frames[p] = <<m>>, buffer[m.src] = << >>
    PROVE  /\ AbsCall[p] = m
           /\ AbsAnswer[p] = IF reply[m.src] # None THEN AnswerFrom(reply[m.src].hdr)
                             ELSE IF s2c[m.src] # << >> THEN AnswerFrom(s2c[m.src][1].m)
                             ELSE None
<1>1. Waiting(p)
  BY DEF Waiting, Running
<1>2. Innermost(p) = m
  BY DEF Innermost
<1>. QED  BY <1>1, <1>2 DEF AbsCall, AbsAnswer

LEMMA BusyAfter ==
    ASSUME NEW p \in Procs, NEW m \in Message,
           p \notin gone', fault' = {}, frames'[p] = <<m>>, buffer'[m.src] = << >>
    PROVE  /\ AbsCall'[p] = m
           /\ AbsAnswer'[p] = IF reply'[m.src] # None THEN AnswerFrom(reply'[m.src].hdr)
                              ELSE IF s2c'[m.src] # << >> THEN AnswerFrom(s2c'[m.src][1].m)
                              ELSE None
<1>1. Waiting(p)'
  BY DEF Waiting, Running
<1>2. Innermost(p)' = m
  BY DEF Innermost
<1>. QED  BY <1>1, <1>2 DEF AbsCall, AbsAnswer

\* A step that leaves a process and its connection alone.
LEMMA Untouched ==
    ASSUME PlainUse, IInv, IInv', NEW p \in Procs,
           frames'[p] = frames[p], result'[p] = result[p], p \in gone' <=> p \in gone,
           reply'[FirstOf[p]] = reply[FirstOf[p]], s2c'[FirstOf[p]] = s2c[FirstOf[p]]
    PROVE  Same(p)
<1>1. AbsResult'[p] = AbsResult[p]
  BY DEF AbsResult
<1>2. CASE frames[p] = << >> \/ p \in gone
  BY <1>1, <1>2, Idle, IdleAfter DEF Same
<1>3. CASE frames[p] # << >> /\ p \notin gone
  <2>1. Phase(p) /\ TypeOK /\ fault = {} /\ fault' = {} /\ p \notin gone'
    BY <1>3 DEF IInv, PhaseInv
  <2>2. PICK m \in Message : frames[p] = <<m>> /\ Asking(FirstOf[p], m)
    BY <1>3, <2>1, WaitingPhase
  <2>3. Phase(p)'
    BY <2>1 DEF IInv, PhaseInv
  <2>4. m.src = FirstOf[p] /\ buffer[FirstOf[p]] = << >> /\ buffer'[FirstOf[p]] = << >>
    BY <2>1, <2>2, <2>3 DEF Asking, Phase
  <2>. QED  BY <1>1, <1>3, <2>1, <2>2, <2>4, Busy, BusyAfter DEF Same
<1>. QED  BY <1>2, <1>3

\* One process changes what it shows.
LEMMA OneChange ==
    ASSUME NEW p \in Procs, \A q \in Procs \ {p} : Same(q)
    PROVE  /\ AbsCall' = [AbsCall EXCEPT ![p] = AbsCall'[p]]
           /\ AbsAnswer' = [AbsAnswer EXCEPT ![p] = AbsAnswer'[p]]
           /\ AbsResult' = [AbsResult EXCEPT ![p] = AbsResult'[p]]
           /\ AbsCall'[p] = AbsCall[p] => AbsCall' = AbsCall
           /\ AbsAnswer'[p] = AbsAnswer[p] => AbsAnswer' = AbsAnswer
           /\ AbsResult'[p] = AbsResult[p] => AbsResult' = AbsResult
<1>1. /\ AbsCall = [q \in Procs |-> AbsCall[q]] /\ AbsCall' = [q \in Procs |-> AbsCall'[q]]
      /\ AbsAnswer = [q \in Procs |-> AbsAnswer[q]]
      /\ AbsAnswer' = [q \in Procs |-> AbsAnswer'[q]]
      /\ AbsResult = [q \in Procs |-> AbsResult[q]]
      /\ AbsResult' = [q \in Procs |-> AbsResult'[q]]
  BY DEF AbsCall, AbsAnswer, AbsResult
<1>. QED  BY <1>1 DEF Same

LEMMA NoChange ==
    ASSUME \A q \in Procs : Same(q)
    PROVE  UNCHANGED Rpc!vars
<1>1. /\ AbsCall = [q \in Procs |-> AbsCall[q]] /\ AbsCall' = [q \in Procs |-> AbsCall'[q]]
      /\ AbsAnswer = [q \in Procs |-> AbsAnswer[q]]
      /\ AbsAnswer' = [q \in Procs |-> AbsAnswer'[q]]
      /\ AbsResult = [q \in Procs |-> AbsResult[q]]
      /\ AbsResult' = [q \in Procs |-> AbsResult'[q]]
  BY DEF AbsCall, AbsAnswer, AbsResult
<1>2. AbsCall' = AbsCall /\ AbsAnswer' = AbsAnswer /\ AbsResult' = AbsResult
  BY <1>1 DEF Same
<1>. QED  BY <1>2 DEF Rpc!vars

-----------------------------------------------------------------------------

\* The answers a call may get, of the types they have, are not None.
LEMMA AnswerIsOne ==
    ASSUME NEW m \in Message, NEW r \in Reply, r.req = m
    PROVE  AnswerFrom(r) # None
<1>1. AnswerFrom(r) \in [req : Message \cup {None}, error : Errors, body : Message \cup {None}]
  BY DEF AnswerFrom, Reply
<1>. QED  BY <1>1, AnswerAssumption

\* A request that is written is a call that is made.
LEMMA AskStep ==
    ASSUME PlainUse, IInv, IInv', NEW p \in Procs, Ask(p)
    PROVE  Rpc!Next
<1>1. PICK c \in Conns, name \in Requests : Call(p, c, name)
  BY DEF Ask
<1>2. c = FirstOf[p] /\ name \in RequestNames /\ p \notin gone
  BY <1>1, OneConnection, HandledRequests DEF Call, Running
<1>3. /\ frames \in [Procs -> Seq(Message)] /\ ids \in [Procs -> Nat]
      /\ gone \in SUBSET Procs
      /\ MaxCalls \in Nat
  BY ProcAssumption DEF IInv, TypeOK, ClientTypeOK
<1>4. PICK m : m = [src |-> c, id |-> ids[p], type |-> TypeOf(name)]
  OBVIOUS
<1>5. m \in Message /\ m \in [src : Conns, id : 0..MaxCalls, type : RequestTypes]
  BY <1>1, <1>2, <1>3, <1>4 DEF Call, Message, RequestTypes
<1>6. /\ Len(frames[p]) < 1
      /\ frames' = [frames EXCEPT ![p] = Append(@, m)]
      /\ UNCHANGED <<reply, buffer, result, gone, fault, s2c>>
  BY <1>1, <1>4 DEF Call, PlainUse
<1>7. frames[p] = << >>
  BY <1>3, <1>6, EmptySeq, LenProperties
<1>8. frames'[p] = <<m>>
  BY <1>3, <1>6, <1>7
<1>9. PhaseInv /\ Phase(p) /\ frames[p] # <<frames[p][1]>>
  BY <1>2, <1>7 DEF IInv, PhaseInv
<1>10. buffer[c] = << >> /\ s2c[c] = << >> /\ reply[c] = None /\ fault = {}
  BY <1>2, <1>9 DEF Phase, Quiet, PhaseInv
<1>11. AbsCall[p] = None /\ AbsAnswer[p] = None
  BY <1>7, Idle
<1>12. AbsCall'[p] = m /\ AbsAnswer'[p] = None
  BY <1>2, <1>4, <1>5, <1>6, <1>8, <1>10, BusyAfter
<1>13. AbsResult'[p] = AbsResult[p]
  BY <1>6 DEF AbsResult
<1>14. ASSUME NEW q \in Procs \ {p} PROVE Same(q)
  BY <1>3, <1>6, <1>14, Untouched
<1>15. Rpc!Ask(p, m)
  BY <1>11, <1>12, <1>13, <1>14, OneChange DEF Rpc!Ask
<1>. QED  BY <1>5, <1>15 DEF Rpc!Next

\* A message that is served is a call that is answered, unless its caller left.
LEMMA ServeStepRpc ==
    ASSUME PlainUse, IInv, IInv', NEW c \in Conns, Serve(c)
    PROVE  Rpc!Next \/ UNCHANGED Rpc!vars
<1>. DEFINE p == ProcOf[c]
<1>1. p \in Procs /\ FirstOf[p] = c
  BY ProcAssumption DEF PlainUse
<1>2. PICK m \in Message, r \in Reply :
         /\ Asking(c, m) /\ AnswerTo(m, r) /\ AnswerFrom(r) \in AbsAnswers(m)
         /\ s2c' = [s2c EXCEPT ![c] = @ \o ReplyCells(r)]
         /\ UNCHANGED client
         /\ p \notin gone =>
               frames[p] = <<m>> /\ Sent(c, m) /\ buffer[c] = << >>
  BY ServeStep
<1>3. s2c \in [Conns -> Seq(ReplyCell)]
  BY DEF IInv, TypeOK, TransportTypeOK
<1>4. UNCHANGED <<frames, reply, buffer, result, gone, fault>>
  BY <1>2 DEF client, equStruct
<1>5. ASSUME NEW q \in Procs \ {p} PROVE Same(q)
  <2>1. FirstOf[q] \in Conns /\ FirstOf[q] # c
    BY <1>5, ProcAssumption
  <2>2. s2c'[FirstOf[q]] = s2c[FirstOf[q]]
    BY <1>2, <1>3, <2>1
  <2>. QED  BY <1>4, <2>2, Untouched
<1>6. AbsResult'[p] = AbsResult[p]
  BY <1>1, <1>4 DEF AbsResult
<1>7. CASE p \in gone
  <2>1. Same(p)
    BY <1>1, <1>4, <1>6, <1>7, Idle, IdleAfter DEF Same
  <2>. QED  BY <1>5, <2>1, NoChange
<1>8. CASE p \notin gone
  <2>1. /\ frames[p] = <<m>> /\ m.src = c /\ fault = {}
        /\ s2c[c] = << >> /\ reply[c] = None /\ buffer[c] = << >>
    BY <1>2, <1>8 DEF Sent, Asking, IInv, PhaseInv
  <2>2. AbsCall[p] = m /\ AbsAnswer[p] = None
    BY <1>1, <1>8, <2>1, Busy
  <2>3. s2c'[c] = ReplyCells(r) /\ ReplyCells(r) # << >> /\ ReplyCells(r)[1].m = r
    <3>1. /\ ReplyCells(r) \in Seq(ReplyCell) /\ Len(ReplyCells(r)) = ReplyLen(r)
          /\ ReplyCells(r)[1].m = r
      BY ReplyCellsType, FirstCell
    <3>2. ReplyLen(r) \in Nat /\ ReplyLen(r) >= 1
      BY LenAssumption DEF ReplyLen
    <3>3. ReplyCells(r) # << >>
      BY <3>1, <3>2, EmptySeq
    <3>. QED  BY <1>2, <1>3, <2>1, <3>1, <3>3, ConcatEmpty
  <2>4. AbsCall'[p] = m /\ AbsAnswer'[p] = AnswerFrom(r)
    BY <1>1, <1>4, <1>8, <2>1, <2>3, BusyAfter
  <2>5. m # None
    BY ProcAssumption
  <2>6. Rpc!Reply(p)
    BY <1>1, <1>2, <1>5, <1>6, <2>2, <2>4, <2>5, OneChange DEF Rpc!Reply
  <2>. QED  BY <1>1, <2>6 DEF Rpc!Next
<1>. QED  BY <1>7, <1>8

\* A reply that is received is the answer the call already had.
LEMMA ReceiveStepRpc ==
    ASSUME PlainUse, IInv, IInv', NEW p \in Procs, Receive(p)
    PROVE  UNCHANGED Rpc!vars
<1>1. PICK c \in Conns, m \in Message, r \in Reply :
         /\ c = FirstOf[p]
         /\ p \notin gone /\ frames[p] = <<m>> /\ Asking(c, m)
         /\ Told(c, m) /\ r = s2c[c][1].m
         /\ s2c' = [s2c EXCEPT ![c] = << >>]
         /\ reply' = [reply EXCEPT ![c] = Copied(r)]
         /\ buffer' = [buffer EXCEPT ![c] = << >>]
         /\ UNCHANGED <<frames, result, gone, fault>>
  BY ReceiveStep
<1>2. /\ s2c \in [Conns -> Seq(ReplyCell)]
      /\ buffer \in [Conns -> Seq(ReplyCell)]
      /\ reply \in [Conns -> Header \cup {None}]
  BY DEF IInv, TypeOK, TransportTypeOK, ClientTypeOK
<1>3. m.src = c /\ fault = {} /\ buffer[c] = << >>
  BY <1>1 DEF Asking, IInv, PhaseInv, Phase
<1>4. AbsCall[p] = m /\ AbsAnswer[p] = AnswerFrom(r)
  BY <1>1, <1>3, Busy DEF Told
<1>5. reply'[c] = Copied(r) /\ Copied(r) # None /\ Copied(r).hdr = r
  <2>1. Copied(r) \in Header /\ Copied(r).hdr = r
    BY DEF Copied, Header
  <2>. QED  BY <1>1, <1>2, <2>1, ProcAssumption
<1>6. AbsCall'[p] = m /\ AbsAnswer'[p] = AnswerFrom(r)
  <2>1. buffer'[c] = << >>
    BY <1>1, <1>2
  <2>. QED  BY <1>1, <1>3, <1>5, <2>1, BusyAfter
<1>7. Same(p)
  BY <1>1, <1>4, <1>6 DEF Same, AbsResult
<1>8. ASSUME NEW q \in Procs \ {p} PROVE Same(q)
  <2>1. FirstOf[q] \in Conns /\ FirstOf[q] # c
    BY <1>1, <1>8, ProcAssumption
  <2>2. s2c'[FirstOf[q]] = s2c[FirstOf[q]] /\ reply'[FirstOf[q]] = reply[FirstOf[q]]
    BY <1>1, <1>2, <2>1
  <2>. QED  BY <1>1, <2>2, Untouched
<1>. QED  BY <1>7, <1>8, NoChange

\* A call that returns does so with the answer it had.
LEMMA ReturnStepRpc ==
    ASSUME PlainUse, IInv, IInv', NEW p \in Procs, Answered(p)
    PROVE  Rpc!Next
<1>. DEFINE c == FirstOf[p]
<1>1. PICK m \in Message : \E h :
         /\ p \notin gone /\ frames[p] = <<m>>
         /\ Got(c, m) /\ h = reply[c].hdr /\ AnswerTo(m, h)
         /\ reply' = [reply EXCEPT ![c] = None]
         /\ result' = [result EXCEPT ![p] =
              [call |-> m, answers |-> m, id |-> m.id, error |-> h.error,
               body |-> IF h.error = NONE THEN m ELSE None]]
         /\ frames' = [frames EXCEPT ![p] = << >>]
         /\ UNCHANGED <<gone, s2c>>
  BY ReturnStep
<1>2. PICK h : h = reply[c].hdr
  OBVIOUS
<1>3. PICK res : res = [call |-> m, answers |-> m, id |-> m.id, error |-> h.error,
                        body |-> IF h.error = NONE THEN m ELSE None]
  OBVIOUS
<1>4. result' = [result EXCEPT ![p] = res] /\ AnswerTo(m, h) /\ reply[c] # None
  BY <1>1, <1>2, <1>3 DEF Got
<1>5. /\ reply \in [Conns -> Header \cup {None}]
      /\ result \in [Procs -> Result \cup {None}]
      /\ frames \in [Procs -> Seq(Message)]
      /\ c \in Conns /\ gone \in SUBSET Procs
  BY ProcAssumption DEF IInv, TypeOK, ClientTypeOK
<1>6. h \in Reply
  BY <1>2, <1>4, <1>5 DEF Header
<1>7. m.src = c /\ buffer[c] = << >> /\ fault = {}
  <2>1. Phase(p) /\ TypeOK /\ fault = {}
    BY <1>1 DEF IInv, PhaseInv
  <2>2. frames[p] # << >> /\ \A k : frames[p] = <<k>> => k = m
    BY <1>1
  <2>3. Asking(c, m)
    BY <2>1, <2>2, WaitingPhase
  <2>. QED  BY <2>1, <2>3 DEF Asking, Phase
<1>8. AbsCall[p] = m /\ AbsAnswer[p] = AnswerFrom(h)
  BY <1>1, <1>2, <1>4, <1>7, Busy
<1>9. AbsCall'[p] = None /\ AbsAnswer'[p] = None
  BY <1>1, <1>5, IdleAfter
<1>10. AbsResult'[p] = [call |-> m, answer |-> AnswerFrom(h)]
  <2>1. res \in Result /\ res # None
    <3>1. res \in Result
      BY <1>3, <1>6 DEF Result, Reply, Message
    <3>. QED  BY <3>1, ProcAssumption
  <2>2. result'[p] = res
    BY <1>4, <1>5
  <2>3. AnswerFrom(h) = [req |-> m, error |-> h.error,
                         body |-> IF h.error = NONE THEN m ELSE None]
    BY <1>4, <1>6 DEF AnswerFrom, AnswerTo, Reply
  <2>4. AbsResult'[p] = [call |-> res.call,
                         answer |-> [req |-> res.answers, error |-> res.error,
                                     body |-> res.body]]
    BY <2>1, <2>2 DEF AbsResult
  <2>. QED  BY <1>3, <2>3, <2>4
<1>11. ASSUME NEW q \in Procs \ {p} PROVE Same(q)
  <2>1. FirstOf[q] \in Conns /\ FirstOf[q] # c
    BY <1>11, ProcAssumption
  <2>2. /\ reply'[FirstOf[q]] = reply[FirstOf[q]] /\ frames'[q] = frames[q]
        /\ result'[q] = result[q]
    BY <1>1, <1>4, <1>5, <1>11, <2>1
  <2>. QED  BY <1>1, <2>2, Untouched
<1>12. AnswerFrom(h) # None /\ m # None
  BY <1>4, <1>6, AnswerIsOne, ProcAssumption DEF AnswerTo
<1>13. Rpc!Return(p)
  BY <1>8, <1>9, <1>10, <1>11, <1>12, OneChange DEF Rpc!Return
<1>. QED  BY <1>13 DEF Rpc!Next

\* A process that leaves gives up its call, if it waits in one.
LEMMA LeaveStepRpc ==
    ASSUME PlainUse, IInv, IInv', NEW p \in Procs, Leave(p)
    PROVE  Rpc!Next \/ UNCHANGED Rpc!vars
<1>1. /\ p \notin gone /\ gone' = gone \cup {p}
      /\ s2c' = [x \in Conns |-> IF x \in ConnsOf(p) THEN << >> ELSE s2c[x]]
      /\ UNCHANGED <<frames, reply, buffer, result, fault>>
  BY DEF Leave, Exit, equStruct
<1>2. /\ s2c \in [Conns -> Seq(ReplyCell)] /\ gone \in SUBSET Procs
      /\ PhaseInv /\ TypeOK /\ Phase(p)
  BY <1>1 DEF IInv, PhaseInv, TypeOK, TransportTypeOK, ClientTypeOK
<1>3. ASSUME NEW q \in Procs \ {p} PROVE Same(q)
  <2>1. FirstOf[q] \in Conns /\ FirstOf[q] \notin ConnsOf(p)
    BY <1>3, ProcAssumption DEF ConnsOf
  <2>2. s2c'[FirstOf[q]] = s2c[FirstOf[q]] /\ (q \in gone' <=> q \in gone)
    BY <1>1, <1>3, <2>1
  <2>. QED  BY <1>1, <2>2, Untouched
<1>4. AbsCall'[p] = None /\ AbsAnswer'[p] = None /\ AbsResult'[p] = AbsResult[p]
  BY <1>1, IdleAfter DEF AbsResult
<1>5. CASE frames[p] = << >>
  <2>1. Same(p)
    BY <1>4, <1>5, Idle DEF Same
  <2>. QED  BY <1>3, <2>1, NoChange
<1>6. CASE frames[p] # << >>
  <2>1. PICK m \in Message : frames[p] = <<m>> /\ Asking(FirstOf[p], m)
    BY <1>2, <1>6, WaitingPhase
  <2>2. AbsCall[p] = m
    BY <1>1, <1>2, <2>1, Busy DEF Phase, PhaseInv, Asking
  <2>3. m # None
    BY ProcAssumption
  <2>4. Rpc!Abandon(p)
    BY <1>3, <1>4, <2>2, <2>3, OneChange DEF Rpc!Abandon
  <2>. QED  BY <2>4 DEF Rpc!Next
<1>. QED  BY <1>5, <1>6

\* Connections that come and go, and stuttering.
LEMMA OtherStepRpc ==
    ASSUME PlainUse, IInv, IInv',
           \/ \E c \in Conns : Connected(c) \/ Disconnected(c)
           \/ UNCHANGED vars
    PROVE  UNCHANGED Rpc!vars
<1>1. UNCHANGED <<frames, reply, buffer, result, gone, fault, s2c>>
  BY DEF Connected, Disconnected, ClientAdd, ClientDel, vars, server, transport, client,
         equStruct
<1>2. ASSUME NEW q \in Procs PROVE Same(q)
  BY <1>1, Untouched
<1>. QED  BY <1>2, NoChange

-----------------------------------------------------------------------------

LEMMA InitRpc == Init => Rpc!Init
<1>. SUFFICES ASSUME Init PROVE Rpc!Init
  OBVIOUS
<1>1. ASSUME NEW p \in Procs
      PROVE  AbsCall[p] = None /\ AbsAnswer[p] = None /\ AbsResult[p] = None
  BY Idle DEF Init, ClientInit, AbsResult
<1>2. /\ AbsCall = [q \in Procs |-> AbsCall[q]]
      /\ AbsAnswer = [q \in Procs |-> AbsAnswer[q]]
      /\ AbsResult = [q \in Procs |-> AbsResult[q]]
  BY DEF AbsCall, AbsAnswer, AbsResult
<1>. QED  BY <1>1, <1>2 DEF Rpc!Init

\* Under plain use of a daemon that stays, the library keeps the promise of
\* EquRpc, for any number of processes and calls and whoever leaves: a call is
\* answered once, by the daemon's answer to it, and returns with that answer.
THEOREM CallsRefine ==
    ASSUME PlainUse, ~ServerMayExit
    PROVE  Spec => Rpc!Init /\ [][Rpc!Next]_(Rpc!vars)
<1>1. Init => Rpc!Init
  BY InitRpc
<1>2. IInv /\ IInv' /\ [Next]_vars => [Rpc!Next]_(Rpc!vars)
  <2>. SUFFICES ASSUME IInv, IInv', [Next]_vars PROVE [Rpc!Next]_(Rpc!vars)
    OBVIOUS
  <2>1. ~Stop
    BY DEF Stop, ServerExit
  <2>. QED
    BY <2>1, ServeStepRpc, AskStep, ReceiveStepRpc, ReturnStepRpc, LeaveStepRpc,
       OtherStepRpc DEF Next
<1>. QED  BY <1>1, <1>2, InductiveInv, PTL DEF Spec

-----------------------------------------------------------------------------
(* A call and the one thing it owns.                                       *)

LEMMA HeadsOf ==
    /\ Heads(<< >>) = {}
    /\ \A m \in Message : Heads(MessageCells(m)) = {1}
    /\ \A r \in Reply : Heads(ReplyCells(r)) = {1}
<1>1. DOMAIN << >> = {}
  OBVIOUS
<1>2. ASSUME NEW m \in Message PROVE Heads(MessageCells(m)) = {1}
  <2>1. 1 \in 1..MessageLen
    BY LenAssumption DEF MessageLen
  <2>2. \A i \in 1..MessageLen : MessageCells(m)[i].at = i
    BY DEF MessageCells
  <2>3. DOMAIN MessageCells(m) = 1..MessageLen
    BY MessageCellsType
  <2>. QED  BY <2>1, <2>2, <2>3 DEF Heads
<1>3. ASSUME NEW r \in Reply PROVE Heads(ReplyCells(r)) = {1}
  <2>1. 1 \in 1..ReplyLen(r)
    BY LenAssumption DEF ReplyLen
  <2>2. \A i \in 1..ReplyLen(r) : ReplyCells(r)[i].at = i
    BY DEF ReplyCells
  <2>3. DOMAIN ReplyCells(r) = 1..ReplyLen(r)
    BY ReplyCellsType
  <2>. QED  BY <2>1, <2>2, <2>3 DEF Heads
<1>. QED  BY <1>1, <1>2, <1>3 DEF Heads

LEMMA CountOne == Cardinality({}) = 0 /\ \A x : Cardinality({x}) = 1
BY FS_EmptySet, FS_Singleton

\* The phases count to one while the daemon runs.
LEMMA PhaseCounts ==
    ASSUME PlainUse, IInv, up, NEW p \in Running, NEW c \in ConnsOf(p)
    PROVE  Cardinality(Heads(c2s[c])) + Cardinality(Requested(equd, c))
             + Cardinality(Heads(s2c[c])) + Cardinality(Heads(buffer[c]))
             + Cardinality({r \in {reply[c]} : r # None})
           = IF Waiting(p) /\ Innermost(p).src = c THEN 1 ELSE 0
<1>1. /\ p \in Procs /\ p \notin gone /\ c \in Conns /\ c = FirstOf[p]
      /\ PhaseInv /\ TypeOK /\ Phase(p)
  BY OneConnection DEF Running, ConnsOf, IInv, PhaseInv
<1>2. Requested(equd, c) = {} /\ Heads(buffer[c]) = {}
  <2>1. equd = << >> /\ buffer[c] = << >> /\ DOMAIN << >> = {}
    BY <1>1 DEF PhaseInv, Phase
  <2>. QED  BY <2>1, HeadsOf DEF Requested
<1>. DEFINE R == {r \in {reply[c]} : r # None}
<1>3. /\ reply[c] = None => R = {}
      /\ reply[c] # None => R = {reply[c]}
  OBVIOUS
<1>. HIDE DEF R
<1>4. CASE frames[p] = << >>
  <2>1. frames[p] # <<frames[p][1]>>
    BY <1>4
  <2>2. Heads(c2s[c]) = {} /\ Heads(s2c[c]) = {} /\ R = {}
    BY <1>1, <1>3, <2>1, HeadsOf DEF Phase, Quiet
  <2>3. ~Waiting(p)
    BY <1>4 DEF Waiting
  <2>. QED  BY <1>2, <2>2, <2>3, CountOne DEF R
<1>5. CASE frames[p] # << >>
  <2>1. PICK m \in Message :
           /\ frames[p] = <<m>> /\ Asking(c, m)
           /\ Sent(c, m) \/ Told(c, m) \/ Got(c, m) \/ (Quiet(c) /\ ~up)
    BY <1>1, <1>5, WaitingPhase
  <2>2. Waiting(p) /\ Innermost(p).src = c
    BY <1>5, <2>1 DEF Waiting, Innermost, Asking
  <2>3. CASE Sent(c, m)
    <3>1. Heads(c2s[c]) = {1} /\ Heads(s2c[c]) = {} /\ R = {}
      BY <1>3, <2>3, HeadsOf DEF Sent
    <3>2. /\ Cardinality(Heads(c2s[c])) = 1 /\ Cardinality(Heads(s2c[c])) = 0
          /\ Cardinality(R) = 0
      BY <3>1, CountOne
    <3>3. Cardinality(Requested(equd, c)) = 0 /\ Cardinality(Heads(buffer[c])) = 0
      BY <1>2, CountOne
    <3>. QED  BY <2>2, <3>2, <3>3 DEF R
  <2>4. CASE Told(c, m)
    <3>1. PICK r : r = s2c[c][1].m
      OBVIOUS
    <3>2. r \in Reply
      <4>1. s2c[c] \in Seq(ReplyCell) /\ 1 \in 1..Len(s2c[c])
        BY <1>1, <2>4, EmptySeq, LenProperties DEF Told, TypeOK, TransportTypeOK
      <4>2. s2c[c][1] \in ReplyCell
        BY <4>1, ElementOfSeq
      <4>3. s2c[c][1].at = 1
        BY <2>4, FirstCell DEF Told
      <4>. QED  BY <3>1, <4>2, <4>3, CellType
    <3>3. Heads(c2s[c]) = {} /\ Heads(s2c[c]) = {1} /\ R = {}
      BY <1>3, <2>4, <3>1, <3>2, HeadsOf DEF Told
    <3>. QED  BY <1>2, <2>2, <3>3, CountOne DEF R
  <2>5. CASE Got(c, m)
    <3>1. Heads(c2s[c]) = {} /\ Heads(s2c[c]) = {} /\ R = {reply[c]}
      BY <1>3, <2>5, HeadsOf DEF Got
    <3>2. /\ Cardinality(Heads(c2s[c])) = 0 /\ Cardinality(Heads(s2c[c])) = 0
          /\ Cardinality(R) = 1
      BY <3>1, CountOne
    <3>3. Cardinality(Requested(equd, c)) = 0 /\ Cardinality(Heads(buffer[c])) = 0
      BY <1>2, CountOne
    <3>. QED  BY <2>2, <3>2, <3>3 DEF R
  <2>. QED  BY <2>1, <2>3, <2>4, <2>5
<1>. QED  BY <1>4, <1>5

\* Under plain use of a daemon that stays, a waiting call owns exactly one
\* thing, its request, its reply on the way or its reply received, and a
\* process that does not wait owns none: nothing is lost or answered twice.
THEOREM OneThingEach ==
    ASSUME PlainUse, ~ServerMayExit PROVE Spec => []OneThingInFlight
<1>1. Init => up
  BY DEF Init, ServerInit
<1>2. up /\ [Next]_vars => up'
  <2>. SUFFICES ASSUME up, [Next]_vars PROVE up'
    OBVIOUS
  <2>1. ASSUME NEW c \in Conns, Serve(c) PROVE up'
    BY <2>1 DEF Serve, ClientData, DataPartial, DataMessage, DataGarbage, Arrives
  <2>2. ASSUME NEW c \in Conns, Connected(c) \/ Disconnected(c) PROVE up'
    BY <2>2 DEF Connected, Disconnected, ClientAdd, ClientDel
  <2>3. ASSUME NEW p \in Procs, Ask(p) \/ Receive(p) \/ Answered(p) \/ Leave(p) PROVE up'
    BY <2>3 DEF Ask, Receive, Answered, Leave, server
  <2>4. ~Stop
    BY DEF Stop, ServerExit
  <2>. QED  BY <2>1, <2>2, <2>3, <2>4 DEF Next, vars, server
<1>3. IInv /\ up => OneThingInFlight
  BY PhaseCounts DEF OneThingInFlight
<1>. QED  BY <1>1, <1>2, <1>3, InductiveInv, PTL DEF Spec

-----------------------------------------------------------------------------
(* One request, wherever it is.  Nothing is assumed of how the library is  *)
(* used, of the streams or of who leaves.                                  *)

\* The cells of a stream that belong to K: how many, and whether any.
Has(s, K)  == \E k \in DOMAIN s : s[k] \in K
Once(s, K) == \A k, l \in DOMAIN s : s[k] \in K /\ s[l] \in K => k = l

LEMMA JoinHas ==
    ASSUME NEW S, NEW s \in Seq(S), NEW t \in Seq(S), NEW K
    PROVE  /\ Has(s \o t, K) <=> Has(s, K) \/ Has(t, K)
           /\ Once(s \o t, K) <=> Once(s, K) /\ Once(t, K) /\ ~(Has(s, K) /\ Has(t, K))
<1>1. /\ DOMAIN s = 1..Len(s) /\ DOMAIN t = 1..Len(t) /\ Len(s) \in Nat /\ Len(t) \in Nat
      /\ DOMAIN (s \o t) = 1..Len(s) + Len(t)
      /\ \A i \in 1..Len(s) + Len(t) :
            (s \o t)[i] = IF i <= Len(s) THEN s[i] ELSE t[i - Len(s)]
  BY LenProperties, ConcatProperties
<1>. DEFINE u == s \o t
<1>. HIDE DEF u
<1>2. \A i \in DOMAIN s : i \in DOMAIN u /\ u[i] = s[i]
  BY <1>1 DEF u
<1>3. \A i \in DOMAIN t : Len(s) + i \in DOMAIN u /\ u[Len(s) + i] = t[i]
  BY <1>1 DEF u
<1>4. \A i \in DOMAIN u : \/ i \in DOMAIN s
                          \/ i - Len(s) \in DOMAIN t /\ i = Len(s) + (i - Len(s))
  BY <1>1 DEF u
<1>5. \A i \in DOMAIN s, j \in DOMAIN t : i # Len(s) + j
  BY <1>1
<1>6. \A i, j \in DOMAIN t : Len(s) + i = Len(s) + j => i = j
  BY <1>1
<1>7. Has(u, K) <=> Has(s, K) \/ Has(t, K)
  <2>1. Has(s, K) => Has(u, K)
    BY <1>2 DEF Has
  <2>2. Has(t, K) => Has(u, K)
    BY <1>3 DEF Has
  <2>3. Has(u, K) => Has(s, K) \/ Has(t, K)
    <3>. SUFFICES ASSUME NEW i \in DOMAIN u, u[i] \in K PROVE Has(s, K) \/ Has(t, K)
      BY DEF Has
    <3>1. CASE i \in DOMAIN s
      BY <3>1, <1>2 DEF Has
    <3>2. CASE i - Len(s) \in DOMAIN t /\ i = Len(s) + (i - Len(s))
      BY <3>2, <1>3 DEF Has
    <3>. QED  BY <3>1, <3>2, <1>4
  <2>. QED  BY <2>1, <2>2, <2>3
<1>8. Once(u, K) => Once(s, K) /\ Once(t, K) /\ ~(Has(s, K) /\ Has(t, K))
  <2>. SUFFICES ASSUME Once(u, K)
                PROVE  Once(s, K) /\ Once(t, K) /\ ~(Has(s, K) /\ Has(t, K))
    OBVIOUS
  <2>1. Once(s, K)
    BY <1>2 DEF Once
  <2>2. Once(t, K)
    BY <1>3, <1>6 DEF Once
  <2>3. ASSUME NEW i \in DOMAIN s, s[i] \in K, NEW j \in DOMAIN t, t[j] \in K
        PROVE  FALSE
    BY <2>3, <1>2, <1>3, <1>5 DEF Once
  <2>. QED  BY <2>1, <2>2, <2>3 DEF Has
<1>9. Once(s, K) /\ Once(t, K) /\ ~(Has(s, K) /\ Has(t, K)) => Once(u, K)
  <2>. SUFFICES ASSUME Once(s, K), Once(t, K), ~(Has(s, K) /\ Has(t, K)),
                       NEW i \in DOMAIN u, NEW j \in DOMAIN u, u[i] \in K, u[j] \in K
                PROVE  i = j
    BY DEF Once
  <2>1. CASE i \in DOMAIN s /\ j \in DOMAIN s
    BY <2>1, <1>2 DEF Once
  <2>2. CASE i \notin DOMAIN s /\ j \notin DOMAIN s
    <3>1. i - Len(s) \in DOMAIN t /\ j - Len(s) \in DOMAIN t
      BY <2>2, <1>4
    <3>2. t[i - Len(s)] \in K /\ t[j - Len(s)] \in K
      BY <3>1, <2>2, <1>3, <1>4
    <3>3. i - Len(s) = j - Len(s)
      BY <3>1, <3>2 DEF Once
    <3>. QED  BY <2>2, <3>3, <1>4
  <2>3. CASE i \in DOMAIN s /\ j \notin DOMAIN s
    <3>1. Has(s, K)
      BY <2>3, <1>2 DEF Has
    <3>2. j - Len(s) \in DOMAIN t /\ t[j - Len(s)] \in K
      BY <2>3, <1>3, <1>4
    <3>. QED  BY <3>1, <3>2 DEF Has
  <2>4. CASE i \notin DOMAIN s /\ j \in DOMAIN s
    <3>1. Has(s, K)
      BY <2>4, <1>2 DEF Has
    <3>2. i - Len(s) \in DOMAIN t /\ t[i - Len(s)] \in K
      BY <2>4, <1>3, <1>4
    <3>. QED  BY <3>1, <3>2 DEF Has
  <2>. QED  BY <2>1, <2>2, <2>3, <2>4
<1>. QED  BY <1>7, <1>8, <1>9 DEF u

\* A stream is what is taken of it and what is left.
LEMMA SplitHas ==
    ASSUME NEW S, NEW s \in Seq(S), NEW n \in 0..Len(s), NEW K
    PROVE  /\ Has(s, K) <=> Has(Take(s, n), K) \/ Has(Drop(s, n), K)
           /\ Once(s, K) <=> /\ Once(Take(s, n), K) /\ Once(Drop(s, n), K)
                             /\ ~(Has(Take(s, n), K) /\ Has(Drop(s, n), K))
<1>1. Take(s, n) \in Seq(S) /\ Drop(s, n) \in Seq(S)
  BY TakeType, DropType
<1>2. Take(s, n) \o Drop(s, n) = s
  <2>1. Len(s) \in Nat /\ 1 \in 1..Len(s) + 1 /\ n \in 1 - 1..Len(s) /\ Len(s) \in n..Len(s)
    BY LenProperties
  <2>2. SubSeq(s, 1, n) \o SubSeq(s, n + 1, Len(s)) = SubSeq(s, 1, Len(s))
    BY <2>1, ConcatAdjacentSubSeq
  <2>3. SubSeq(s, 1, Len(s)) = s
    BY SubSeqFull
  <2>. QED  BY <2>2, <2>3 DEF Take, Drop
<1>. DEFINE t == Take(s, n)
            d == Drop(s, n)
<1>. HIDE DEF t, d
<1>3. /\ Has(t \o d, K) <=> Has(t, K) \/ Has(d, K)
      /\ Once(t \o d, K) <=> Once(t, K) /\ Once(d, K) /\ ~(Has(t, K) /\ Has(d, K))
  BY <1>1, JoinHas DEF t, d
<1>4. t \o d = s
  BY <1>2 DEF t, d
<1>. QED  BY <1>3, <1>4 DEF t, d

LEMMA NoneHas ==
    ASSUME NEW K PROVE ~Has(<< >>, K) /\ Once(<< >>, K)
<1>1. DOMAIN << >> = {}
  OBVIOUS
<1>. QED  BY <1>1 DEF Has, Once

\* What stays when k cells were served is among the cells after them.
LEMMA ShiftHas ==
    ASSUME NEW S, Junk \in S, NEW s \in Seq(S), NEW k \in Nat, NEW K, Junk \notin K, Once(s, K)
    PROVE  /\ Once(Shift(s, k), K)
           /\ Has(Shift(s, k), K) => Has(s, K)
           /\ k > 0 /\ s # << >> /\ s[1] \in K => ~Has(Shift(s, k), K)
<1>1. CASE Len(s) > k
  <2>. DEFINE j == [i \in 1..k |-> Junk]
  <2>1. k \in 0..Len(s)
    BY <1>1, LenProperties
  <2>2. Drop(s, k) \in Seq(S) /\ j \in Seq(S)
    BY <2>1, DropType, SeqDef
  <2>3. ~Has(j, K) /\ Once(j, K)
    BY DEF Has, Once
  <2>4. Shift(s, k) = Drop(s, k) \o j
    BY <1>1 DEF Shift
  <2>. HIDE DEF j
  <2>5. /\ Has(Shift(s, k), K) <=> Has(Drop(s, k), K)
        /\ Once(Shift(s, k), K) <=> Once(Drop(s, k), K)
    BY <2>2, <2>3, <2>4, JoinHas
  <2>6. k > 0 /\ s # << >> /\ s[1] \in K => Has(Take(s, k), K)
    <3>. SUFFICES ASSUME k > 0, s[1] \in K PROVE Has(Take(s, k), K)
      OBVIOUS
    <3>1. /\ 1 \in 1..k
          /\ Take(s, k) \in Seq(S) /\ Len(Take(s, k)) = k /\ Take(s, k)[1] = s[1]
      BY <2>1, TakeType
    <3>2. DOMAIN Take(s, k) = 1..k
      BY <3>1, LenProperties
    <3>. QED  BY <3>1, <3>2 DEF Has
  <2>7. /\ Has(s, K) <=> Has(Take(s, k), K) \/ Has(Drop(s, k), K)
        /\ Once(s, K) <=> /\ Once(Take(s, k), K) /\ Once(Drop(s, k), K)
                          /\ ~(Has(Take(s, k), K) /\ Has(Drop(s, k), K))
    BY <2>1, SplitHas
  <2>. QED  BY <2>5, <2>6, <2>7
<1>2. CASE ~(Len(s) > k)
  BY <1>2, NoneHas DEF Shift
<1>. QED  BY <1>1, <1>2

\* Asked by p under the id i.
IsOf(m, p, i) == m # None /\ ProcOf[m.src] = p /\ m.id = i

\* The first cells of that request, and of the reply to it.
AskOf(p, i)  == {x \in MessageCell : x.at = 1 /\ IsOf(x.m, p, i)}
TellOf(p, i) == {x \in ReplyCell : x.at = 1 /\ IsOf(x.m.req, p, i)}

LEMMA CellsHave ==
    ASSUME NEW p, NEW i
    PROVE  /\ \A m \in Message : /\ Has(MessageCells(m), AskOf(p, i)) <=> IsOf(m, p, i)
                                 /\ Once(MessageCells(m), AskOf(p, i))
           /\ \A r \in Reply : /\ Has(ReplyCells(r), TellOf(p, i)) <=> IsOf(r.req, p, i)
                               /\ Once(ReplyCells(r), TellOf(p, i))
<1>1. ASSUME NEW m \in Message
      PROVE  /\ Has(MessageCells(m), AskOf(p, i)) <=> IsOf(m, p, i)
             /\ Once(MessageCells(m), AskOf(p, i))
  <2>. DEFINE s == MessageCells(m)
  <2>1. MessageLen \in Nat /\ 1 \in 1..MessageLen
    BY LenAssumption DEF MessageLen
  <2>2. s \in Seq(MessageCell) /\ DOMAIN s = 1..MessageLen /\ Len(s) = MessageLen
    BY MessageCellsType
  <2>3. \A k \in 1..MessageLen : s[k].m = m /\ s[k].at = k
    BY DEF MessageCells
  <2>. HIDE DEF s
  <2>4. \A k \in 1..MessageLen : s[k] \in MessageCell
    BY <2>2, ElementOfSeq
  <2>5. \A k \in DOMAIN s : s[k] \in AskOf(p, i) <=> k = 1 /\ IsOf(m, p, i)
    BY <2>2, <2>3, <2>4 DEF AskOf
  <2>6. Has(s, AskOf(p, i)) <=> IsOf(m, p, i)
    BY <2>1, <2>2, <2>5 DEF Has
  <2>7. Once(s, AskOf(p, i))
    BY <2>5 DEF Once
  <2>. QED  BY <2>6, <2>7 DEF s
<1>2. ASSUME NEW r \in Reply
      PROVE  /\ Has(ReplyCells(r), TellOf(p, i)) <=> IsOf(r.req, p, i)
             /\ Once(ReplyCells(r), TellOf(p, i))
  <2>. DEFINE s == ReplyCells(r)
  <2>1. ReplyLen(r) \in Nat /\ 1 \in 1..ReplyLen(r)
    BY LenAssumption DEF ReplyLen
  <2>2. s \in Seq(ReplyCell) /\ DOMAIN s = 1..ReplyLen(r) /\ Len(s) = ReplyLen(r)
    BY ReplyCellsType
  <2>3. \A k \in 1..ReplyLen(r) : s[k].m = r /\ s[k].at = k
    BY DEF ReplyCells
  <2>. HIDE DEF s
  <2>4. \A k \in 1..ReplyLen(r) : s[k] \in ReplyCell
    BY <2>2, ElementOfSeq
  <2>5. \A k \in DOMAIN s : s[k] \in TellOf(p, i) <=> k = 1 /\ IsOf(r.req, p, i)
    BY <2>2, <2>3, <2>4 DEF TellOf
  <2>6. Has(s, TellOf(p, i)) <=> IsOf(r.req, p, i)
    BY <2>1, <2>2, <2>5 DEF Has
  <2>7. Once(s, TellOf(p, i))
    BY <2>5 DEF Once
  <2>. QED  BY <2>6, <2>7 DEF s
<1>. QED  BY <1>1, <1>2

LEMMA JunkHasNone ==
    ASSUME NEW p, NEW i PROVE Junk \notin AskOf(p, i) /\ Junk \notin TellOf(p, i)
BY DEF Junk, AskOf, TellOf

\* Where a request can be: its header in the daemon's buffer or on its way to
\* it, the header of its reply on its way, in a buffer that is not freed or
\* received, or the result that carries the reply.
InEqud(p, i) == Has(equd, AskOf(p, i))
Asks(p, i)   == {c \in Conns : Has(c2s[c], AskOf(p, i))}
Tells(p, i)  == {c \in Conns : Has(s2c[c], TellOf(p, i))}
Kept(p, i)   == {c \in Conns \ dangling : Has(buffer[c], TellOf(p, i))}
Taken(p, i)  == {c \in Conns : reply[c] # None /\ ~reply[c].inBuffer
                               /\ IsOf(reply[c].hdr.req, p, i)}
Results(p, i) == {q \in Procs : result[q] # None /\ IsOf(result[q].answers, p, i)}

\* At most one of them, and none.
Lone(e, A, T, B, R, Q) ==
    /\ \A x, y \in A : x = y
    /\ \A x, y \in T : x = y
    /\ \A x, y \in B : x = y
    /\ \A x, y \in R : x = y
    /\ \A x, y \in Q : x = y
    /\ e => A = {} /\ T = {} /\ B = {} /\ R = {} /\ Q = {}
    /\ A # {} => T = {} /\ B = {} /\ R = {} /\ Q = {}
    /\ T # {} => B = {} /\ R = {} /\ Q = {}
    /\ B # {} => R = {} /\ Q = {}
    /\ R # {} => Q = {}

Nowhere(e, A, T, B, R, Q) == ~e /\ A = {} /\ T = {} /\ B = {} /\ R = {} /\ Q = {}

OnceInStreams(p, i) ==
    /\ Once(equd, AskOf(p, i))
    /\ \A c \in Conns : /\ Once(c2s[c], AskOf(p, i))
                        /\ Once(s2c[c], TellOf(p, i))
                        /\ Once(buffer[c], TellOf(p, i))

Alone(p, i) ==
    /\ Lone(InEqud(p, i), Asks(p, i), Tells(p, i), Kept(p, i), Taken(p, i), Results(p, i))
    /\ OnceInStreams(p, i)

Unasked(p, i) ==
    Nowhere(InEqud(p, i), Asks(p, i), Tells(p, i), Kept(p, i), Taken(p, i), Results(p, i))

\* What a step may do with a request that was asked, or was not.
StaysAlone(p, i) == Alone(p, i)' /\ (Unasked(p, i) => Unasked(p, i)')

\* A reply that points into a buffer heads that buffer.
HeaderInBuffer ==
    \A c \in Conns : reply[c] # None =>
        /\ c \notin dangling
        /\ reply[c].inBuffer /\ reply[c].hdr.req # None =>
              buffer[c] # << >> /\ buffer[c][1] = [m |-> reply[c].hdr, at |-> 1]

OnceInv ==
    /\ TypeOK
    /\ HeaderInBuffer
    /\ \A p \in Procs, i \in Nat : Alone(p, i) /\ (i >= ids[p] => Unasked(p, i))

-----------------------------------------------------------------------------

\* What the daemon does with what arrives: it keeps the bytes, or drops the
\* first k of them, and then may answer the request they began with.
LEMMA ServeForm ==
    ASSUME TypeOK, NEW c \in Conns, Serve(c)
    PROVE  \E n \in Reads(c2s[c], SplitRequests) :
             /\ c2s' = [c2s EXCEPT ![c] = Drop(@, n)]
             /\ UNCHANGED client
             /\ \/ equd' = Received(c, n) /\ UNCHANGED s2c
                \/ \E k \in Nat \ {0} :
                      /\ equd' = Shift(Received(c, n), k)
                      /\ \/ UNCHANGED s2c
                         \/ \E r \in Reply :
                               /\ s2c' = [s2c EXCEPT ![c] = @ \o ReplyCells(r)]
                               /\ \/ r.req = None
                                  \/ Received(c, n)[1] = [m |-> r.req, at |-> 1]
<1>1. PICK n \in 1..Len(c2s[c]) :
         DataPartial(c, n) \/ DataMessage(c, n) \/ DataGarbage(c, n)
  BY DEF Serve, ClientData
<1>2. Arrives(c, n) /\ n \in Reads(c2s[c], SplitRequests)
  BY <1>1 DEF DataPartial, DataMessage, DataGarbage, Arrives
<1>3. c2s' = [c2s EXCEPT ![c] = Drop(@, n)] /\ UNCHANGED client
  BY <1>2 DEF Arrives, Serve
<1>. DEFINE rec == Received(c, n)
<1>. HIDE DEF rec
<1>4. rec \in Seq(MessageCell) /\ Len(rec) \in Nat
  BY <1>2, ReceivedType, LenProperties DEF rec
<1>. SUFFICES
        \/ equd' = rec /\ UNCHANGED s2c
        \/ \E k \in Nat \ {0} :
              /\ equd' = Shift(rec, k)
              /\ \/ UNCHANGED s2c
                 \/ \E r \in Reply :
                       /\ s2c' = [s2c EXCEPT ![c] = @ \o ReplyCells(r)]
                       /\ \/ r.req = None
                          \/ rec[1] = [m |-> r.req, at |-> 1]
  BY <1>2, <1>3 DEF rec
<1>5. CASE DataPartial(c, n)
  BY <1>5 DEF DataPartial, rec
<1>6. CASE DataMessage(c, n)
  <2>. DEFINE m == rec[1].m
  <2>1. /\ Len(rec) >= HdrLen /\ StartsWithHeader(rec) /\ equd' = Shift(rec, MessageLen)
        /\ \E a \in Answers(rec) :
              s2c' = IF ReplyHas(m.type)
                     THEN [s2c EXCEPT ![c] = @ \o ReplyCells(ReplyTo(m, a))]
                     ELSE s2c
    BY <1>6 DEF DataMessage, rec
  <2>2. MessageLen \in Nat \ {0}
    BY LenAssumption DEF MessageLen
  <2>3. PICK a \in Answers(rec) :
              s2c' = IF ReplyHas(m.type)
                     THEN [s2c EXCEPT ![c] = @ \o ReplyCells(ReplyTo(m, a))]
                     ELSE s2c
    BY <2>1
  <2>4. m \in Message
    BY <2>1, <1>4, HeadType
  <2>5. ReplyTo(m, a) \in Reply /\ ReplyTo(m, a).req = m
    BY <2>4, AnswersType DEF Reply, Message, ReplyTo
  <2>6. rec[1] = [m |-> m, at |-> 1]
    BY <2>1, LenAssumption DEF StartsWithHeader
  <2>. HIDE DEF m
  <2>. QED  BY <2>1, <2>2, <2>3, <2>5, <2>6
<1>7. CASE DataGarbage(c, n)
  <2>1. \/ equd' = rec /\ UNCHANGED s2c
        \/ \E k \in HdrLen..Len(rec) :
             /\ equd' = Shift(rec, k)
             /\ \/ UNCHANGED s2c
                \/ \E e \in Unset :
                      s2c' = [s2c EXCEPT ![c] = @ \o
                                ReplyCells([req |-> None, id |-> 0,
                                            error |-> e, size |-> FALSE])]
    BY <1>7 DEF DataGarbage, rec
  <2>2. \A k \in HdrLen..Len(rec) : k \in Nat \ {0}
    BY <1>4, LenAssumption
  <2>3. \A e \in Unset :
           /\ [req |-> None, id |-> 0, error |-> e, size |-> FALSE] \in Reply
           /\ [req |-> None, id |-> 0, error |-> e, size |-> FALSE].req = None
    BY DEF Reply, Errors
  <2>. QED  BY <2>1, <2>2, <2>3
<1>. QED  BY <1>1, <1>5, <1>6, <1>7

LEMMA ServeOnce ==
    ASSUME OnceInv, NEW c \in Conns, Serve(c), NEW p \in Procs, NEW i \in Nat
    PROVE  StaysAlone(p, i)
<1>. DEFINE K == AskOf(p, i)
            L == TellOf(p, i)
<1>1. /\ TypeOK /\ Alone(p, i)
      /\ Junk \notin K /\ Junk \notin L /\ Junk \in MessageCell
      /\ c2s \in [Conns -> Seq(MessageCell)] /\ s2c \in [Conns -> Seq(ReplyCell)]
      /\ equd \in Seq(MessageCell)
  BY JunkHasNone, JunkType DEF OnceInv, TypeOK, TransportTypeOK, ServerTypeOK
<1>. HIDE DEF K, L
<1>2. PICK n \in Reads(c2s[c], SplitRequests) :
             /\ c2s' = [c2s EXCEPT ![c] = Drop(@, n)]
             /\ UNCHANGED client
             /\ \/ equd' = Received(c, n) /\ UNCHANGED s2c
                \/ \E k \in Nat \ {0} :
                      /\ equd' = Shift(Received(c, n), k)
                      /\ \/ UNCHANGED s2c
                         \/ \E r \in Reply :
                               /\ s2c' = [s2c EXCEPT ![c] = @ \o ReplyCells(r)]
                               /\ \/ r.req = None
                                  \/ Received(c, n)[1] = [m |-> r.req, at |-> 1]
  BY <1>1, ServeForm
<1>. DEFINE rec == Received(c, n)
            take == Take(c2s[c], n)
            rest == Drop(c2s[c], n)
<1>3. /\ n \in 0..Len(c2s[c]) /\ n > 0
      /\ rec \in Seq(MessageCell) /\ take \in Seq(MessageCell) /\ rest \in Seq(MessageCell)
      /\ rec = equd \o take /\ Len(rec) > 0
  <2>1. /\ n \in 1..Len(c2s[c]) /\ rec \in Seq(MessageCell) /\ rest \in Seq(MessageCell)
        /\ Len(rec) = Len(equd) + n
    BY <1>1, ReceivedType
  <2>2. Len(equd) \in Nat /\ Len(c2s[c]) \in Nat
    BY <1>1, LenProperties
  <2>3. n \in 0..Len(c2s[c]) /\ n > 0
    BY <2>1, <2>2
  <2>4. take \in Seq(MessageCell)
    BY <1>1, <2>3, TakeType
  <2>. QED  BY <2>1, <2>2, <2>3, <2>4 DEF Received
<1>4. /\ Has(c2s[c], K) <=> Has(take, K) \/ Has(rest, K)
      /\ Once(c2s[c], K) <=> Once(take, K) /\ Once(rest, K) /\ ~(Has(take, K) /\ Has(rest, K))
  BY <1>1, <1>3, SplitHas
<1>. HIDE DEF rec, take, rest
<1>5. /\ Has(rec, K) <=> Has(equd, K) \/ Has(take, K)
      /\ Once(rec, K) <=> Once(equd, K) /\ Once(take, K) /\ ~(Has(equd, K) /\ Has(take, K))
  BY <1>1, <1>3, JoinHas
<1>6. /\ \A x, y \in Asks(p, i) : x = y
      /\ InEqud(p, i) => Asks(p, i) = {}
      /\ Once(equd, K) /\ Once(c2s[c], K)
      /\ c \in Asks(p, i) <=> Has(c2s[c], K)
      /\ InEqud(p, i) <=> Has(equd, K)
  BY <1>1 DEF Alone, Lone, OnceInStreams, Asks, InEqud, K
<1>7. /\ Once(rec, K) /\ Once(rest, K)
      /\ ~(Has(rec, K) /\ Has(rest, K))
      /\ Has(rec, K) => InEqud(p, i) \/ c \in Asks(p, i)
  BY <1>4, <1>5, <1>6
<1>8. /\ c2s'[c] = rest
      /\ \A d \in Conns \ {c} : c2s'[d] = c2s[d]
  BY <1>1, <1>2 DEF rest
<1>9. /\ Asks(p, i)' \subseteq Asks(p, i)
      /\ c \in Asks(p, i)' => Has(rest, K)
      /\ \A d \in Conns : Once(c2s'[d], K)
  <2>1. Has(rest, K) => Has(c2s[c], K)
    BY <1>4
  <2>2. \A d \in Conns : d \in Asks(p, i)' <=> Has(c2s'[d], K)
    BY DEF Asks, K
  <2>3. \A d \in Conns : d \in Asks(p, i) <=> Has(c2s[d], K)
    BY DEF Asks, K
  <2>4. \A d \in Conns : Once(c2s[d], K)
    BY <1>1 DEF Alone, OnceInStreams, K
  <2>5. Asks(p, i)' \subseteq Conns
    BY DEF Asks
  <2>. QED  BY <1>7, <1>8, <2>1, <2>2, <2>3, <2>4, <2>5
<1>10. /\ Kept(p, i)' = Kept(p, i) /\ Taken(p, i)' = Taken(p, i) /\ Results(p, i)' = Results(p, i)
       /\ buffer' = buffer
  BY <1>2 DEF Kept, Taken, Results, client, equStruct
<1>11. CASE UNCHANGED s2c
  <2>1. Once(equd', K) /\ (Has(equd', K) => Has(rec, K))
    <3>1. CASE equd' = rec
      BY <3>1, <1>7
    <3>2. CASE \E k \in Nat \ {0} : equd' = Shift(rec, k)
      <4>1. PICK k \in Nat \ {0} : equd' = Shift(rec, k)
        BY <3>2
      <4>2. k \in Nat
        OBVIOUS
      <4>3. Once(Shift(rec, k), K) /\ (Has(Shift(rec, k), K) => Has(rec, K))
        BY <1>1, <1>3, <1>7, <4>2, ShiftHas
      <4>. QED  BY <4>1, <4>3
    <3>. QED  BY <1>2, <3>1, <3>2 DEF rec
  <2>2. Tells(p, i)' = Tells(p, i)
    BY <1>11 DEF Tells
  <2>3. InEqud(p, i)' => Has(rec, K)
    BY <2>1 DEF InEqud, K
  <2>4. OnceInStreams(p, i)'
    BY <1>1, <1>9, <1>10, <1>11, <2>1 DEF OnceInStreams, K, Alone
  <2>. QED
    BY <1>1, <1>6, <1>7, <1>9, <1>10, <2>2, <2>3, <2>4
       DEF StaysAlone, Alone, Unasked, Lone, Nowhere
<1>12. CASE ~UNCHANGED s2c
  <2>1. PICK k \in Nat \ {0} :
          /\ equd' = Shift(rec, k)
          /\ \E r \in Reply :
               /\ s2c' = [s2c EXCEPT ![c] = @ \o ReplyCells(r)]
               /\ \/ r.req = None
                  \/ rec[1] = [m |-> r.req, at |-> 1]
    BY <1>2, <1>12 DEF rec
  <2>2. PICK r \in Reply :
               /\ s2c' = [s2c EXCEPT ![c] = @ \o ReplyCells(r)]
               /\ \/ r.req = None
                  \/ rec[1] = [m |-> r.req, at |-> 1]
    BY <2>1
  <2>3. IsOf(r.req, p, i) => rec # << >> /\ rec[1] \in K
    <3>1. rec # << >> /\ rec[1] \in MessageCell
      BY <1>3, ElementOfSeq, EmptySeq, LenProperties
    <3>2. IsOf(r.req, p, i) => rec[1].at = 1 /\ IsOf(rec[1].m, p, i)
      BY <2>2 DEF IsOf
    <3>. QED  BY <3>1, <3>2 DEF K, AskOf
  <2>4. IsOf(r.req, p, i) => Has(rec, K)
    <3>1. 1 \in DOMAIN rec
      BY <1>3, LenProperties
    <3>. QED  BY <2>3, <3>1 DEF Has
  <2>5. /\ Once(equd', K) /\ (Has(equd', K) => Has(rec, K))
        /\ IsOf(r.req, p, i) => ~Has(equd', K)
    <3>1. k \in Nat /\ k > 0
      OBVIOUS
    <3>2. /\ Once(Shift(rec, k), K) /\ (Has(Shift(rec, k), K) => Has(rec, K))
          /\ rec # << >> /\ rec[1] \in K => ~Has(Shift(rec, k), K)
      BY <1>1, <1>3, <1>7, <3>1, ShiftHas
    <3>. QED  BY <2>1, <2>3, <3>2
  <2>6. /\ Has(s2c[c] \o ReplyCells(r), L) <=> Has(s2c[c], L) \/ IsOf(r.req, p, i)
        /\ Once(s2c[c] \o ReplyCells(r), L) <=>
              Once(s2c[c], L) /\ ~(Has(s2c[c], L) /\ IsOf(r.req, p, i))
    <3>1. ReplyCells(r) \in Seq(ReplyCell) /\ s2c[c] \in Seq(ReplyCell)
      BY <1>1, ReplyCellsType
    <3>2. /\ Has(ReplyCells(r), L) <=> IsOf(r.req, p, i)
          /\ Once(ReplyCells(r), L)
      BY CellsHave DEF L
    <3>3. /\ Has(s2c[c] \o ReplyCells(r), L) <=> Has(s2c[c], L) \/ Has(ReplyCells(r), L)
          /\ Once(s2c[c] \o ReplyCells(r), L) <=>
                /\ Once(s2c[c], L) /\ Once(ReplyCells(r), L)
                /\ ~(Has(s2c[c], L) /\ Has(ReplyCells(r), L))
      BY <3>1, JoinHas
    <3>. QED  BY <3>2, <3>3
  <2>7. /\ s2c'[c] = s2c[c] \o ReplyCells(r)
        /\ \A d \in Conns \ {c} : s2c'[d] = s2c[d]
    BY <1>1, <2>2
  <2>8. /\ \A d \in Conns : d \in Tells(p, i)' <=> Has(s2c'[d], L)
        /\ \A d \in Conns : d \in Tells(p, i) <=> Has(s2c[d], L)
        /\ Tells(p, i)' \subseteq Conns
    BY DEF Tells, L
  <2>9. /\ Tells(p, i)' \subseteq Tells(p, i) \cup {c}
        /\ c \in Tells(p, i)' => c \in Tells(p, i) \/ IsOf(r.req, p, i)
    BY <2>6, <2>7, <2>8
  <2>10. IsOf(r.req, p, i) => Tells(p, i) = {}
    BY <1>1, <1>7, <2>4 DEF Alone, Lone
  <2>11. \A d \in Conns : Once(s2c'[d], L)
    <3>1. \A d \in Conns : Once(s2c[d], L)
      BY <1>1 DEF Alone, OnceInStreams, L
    <3>. QED  BY <2>6, <2>7, <2>8, <2>10, <3>1
  <2>12. OnceInStreams(p, i)'
    BY <1>1, <1>9, <1>10, <2>5, <2>11 DEF OnceInStreams, K, L, Alone
  <2>13. InEqud(p, i)' => Has(rec, K) /\ ~IsOf(r.req, p, i)
    BY <2>5 DEF InEqud, K
  <2>14. Lone(InEqud(p, i), Asks(p, i), Tells(p, i), Kept(p, i), Taken(p, i), Results(p, i))
    BY <1>1 DEF Alone
  <2>. QED
    BY <1>6, <1>7, <1>9, <1>10, <2>4, <2>9, <2>10, <2>12, <2>13, <2>14
       DEF StaysAlone, Alone, Unasked, Lone, Nowhere
<1>. QED  BY <1>11, <1>12

LEMMA AskOnce ==
    ASSUME OnceInv, NEW q \in Procs, Ask(q), NEW p \in Procs, NEW i \in Nat
    PROVE  Alone(p, i)' /\ (i >= ids'[p] => Unasked(p, i)')
<1>. DEFINE K == AskOf(p, i)
            L == TellOf(p, i)
<1>1. PICK c \in Conns, name \in Requests : Call(q, c, name)
  BY DEF Ask
<1>. DEFINE m == [src |-> c, id |-> ids[q], type |-> TypeOf(name)]
<1>2. /\ TypeOK /\ Alone(p, i) /\ (i >= ids[p] => Unasked(p, i))
      /\ c2s \in [Conns -> Seq(MessageCell)] /\ ids \in [Procs -> Nat]
  BY DEF OnceInv, TypeOK, TransportTypeOK, ClientTypeOK
<1>3. m \in Message /\ MessageCells(m) \in Seq(MessageCell) /\ c2s[c] \in Seq(MessageCell)
  <2>1. m \in Message
    BY <1>2, ProcAssumption DEF Message, RequestTypes
  <2>. QED  BY <1>2, <2>1, MessageCellsType
<1>4. IsOf(m, p, i) <=> p = q /\ i = ids[p]
  <2>1. m.src = c /\ m.id = ids[q]
    OBVIOUS
  <2>2. m # None /\ ProcOf[c] = q
    BY <1>1, <1>3, ProcAssumption DEF Call
  <2>. QED  BY <2>1, <2>2 DEF IsOf
<1>5. /\ c2s' = [c2s EXCEPT ![c] = @ \o MessageCells(m)]
      /\ ids' = [ids EXCEPT ![q] = @ + 1]
      /\ UNCHANGED <<reply, buffer, dangling, result, s2c, equd>>
  BY <1>1 DEF Call, Ask, server
<1>. HIDE DEF m
<1>6. /\ Has(c2s[c] \o MessageCells(m), K) <=> Has(c2s[c], K) \/ IsOf(m, p, i)
      /\ Once(c2s[c] \o MessageCells(m), K) <=>
            Once(c2s[c], K) /\ ~(Has(c2s[c], K) /\ IsOf(m, p, i))
  <2>1. Has(MessageCells(m), K) <=> IsOf(m, p, i)
    BY <1>3, CellsHave
  <2>2. Once(MessageCells(m), K)
    BY <1>3, CellsHave
  <2>. HIDE DEF K
  <2>3. /\ Has(c2s[c] \o MessageCells(m), K) <=> Has(c2s[c], K) \/ Has(MessageCells(m), K)
        /\ Once(c2s[c] \o MessageCells(m), K) <=>
              /\ Once(c2s[c], K) /\ Once(MessageCells(m), K)
              /\ ~(Has(c2s[c], K) /\ Has(MessageCells(m), K))
    BY <1>3, JoinHas
  <2>. QED  BY <2>1, <2>2, <2>3
<1>. HIDE DEF K, L
<1>7. /\ c2s'[c] = c2s[c] \o MessageCells(m)
      /\ \A d \in Conns \ {c} : c2s'[d] = c2s[d]
      /\ ids'[p] = IF p = q THEN ids[p] + 1 ELSE ids[p]
      /\ ids[p] \in Nat
  BY <1>2, <1>5
<1>8. /\ \A d \in Conns : d \in Asks(p, i)' <=> Has(c2s'[d], K)
      /\ \A d \in Conns : d \in Asks(p, i) <=> Has(c2s[d], K)
      /\ Asks(p, i)' \subseteq Conns
  BY DEF Asks, K
<1>9. /\ IsOf(m, p, i) => Unasked(p, i)
      /\ ~IsOf(m, p, i) => Asks(p, i)' \subseteq Asks(p, i)
      /\ Asks(p, i)' \subseteq Asks(p, i) \cup {c}
  <2>1. IsOf(m, p, i) => i >= ids[p]
    BY <1>4, <1>7
  <2>2. IsOf(m, p, i) => Unasked(p, i)
    BY <1>2, <2>1
  <2>3. \A d \in Conns \ {c} : d \in Asks(p, i)' => d \in Asks(p, i)
    BY <1>7, <1>8
  <2>4. ~IsOf(m, p, i) /\ c \in Asks(p, i)' => c \in Asks(p, i)
    BY <1>6, <1>7, <1>8
  <2>. QED  BY <1>8, <2>2, <2>3, <2>4
<1>10. \A d \in Conns : Once(c2s'[d], K)
  <2>1. \A d \in Conns : Once(c2s[d], K)
    BY <1>2 DEF Alone, OnceInStreams, K
  <2>2. IsOf(m, p, i) => ~Has(c2s[c], K)
    BY <1>8, <1>9 DEF Unasked, Nowhere
  <2>. QED  BY <1>6, <1>7, <2>1, <2>2
<1>11. /\ Tells(p, i)' = Tells(p, i) /\ Kept(p, i)' = Kept(p, i)
       /\ Taken(p, i)' = Taken(p, i) /\ Results(p, i)' = Results(p, i)
       /\ InEqud(p, i)' <=> InEqud(p, i)
  BY <1>5 DEF Tells, Kept, Taken, Results, InEqud
<1>12. OnceInStreams(p, i)'
  BY <1>2, <1>5, <1>10 DEF OnceInStreams, K, Alone
<1>13. Lone(InEqud(p, i), Asks(p, i), Tells(p, i), Kept(p, i), Taken(p, i), Results(p, i))
  BY <1>2 DEF Alone
<1>14. i >= ids'[p] => i >= ids[p] /\ ~IsOf(m, p, i)
  BY <1>4, <1>7
<1>15. Alone(p, i)'
  BY <1>9, <1>11, <1>12, <1>13 DEF Alone, Unasked, Lone, Nowhere
<1>. QED
  BY <1>2, <1>9, <1>11, <1>14, <1>15 DEF Unasked, Nowhere

-----------------------------------------------------------------------------

\* What a client does with what arrives: it drops it, keeps it, or takes a
\* reply of it; the header it stores is the one the buffer begins with.
Heading(h, buf) == h.req = None \/ buf[1] = [m |-> h, at |-> 1]

KeepsAll(e, buf) ==
    /\ e \notin dangling
    /\ buffer' = [buffer EXCEPT ![e] = buf]
    /\ \/ UNCHANGED reply
       \/ \E h \in Reply : Heading(h, buf) /\ reply' = [reply EXCEPT ![e] = InBuffer(h)]

TakesOne(e, buf) ==
    /\ e \notin dangling
    /\ \E h \in Reply, k \in Nat \ {0} :
          /\ Heading(h, buf)
          /\ buffer' = [buffer EXCEPT ![e] = Shift(buf, k)]
          /\ reply' = [reply EXCEPT ![e] = Copied(h)]

Gets(q, c, n) ==
    /\ s2c' = [s2c EXCEPT ![c] = Drop(@, n)]
    /\ UNCHANGED <<ids, result, c2s, equd, dangling>>
    /\ \/ UNCHANGED <<buffer, reply>>
       \/ KeepsAll(FirstOf[q], Joined(q, c, n))
       \/ TakesOne(FirstOf[q], Joined(q, c, n))

LEMMA ReceiveForm ==
    ASSUME TypeOK, NEW q \in Procs, Receive(q)
    PROVE  \E c \in Conns : \E n \in Reads(s2c[c], SplitReplies) : Gets(q, c, n)
<1>0. PICK c \in Conns : \E n \in 1..Len(s2c[c]) :
         \/ ReplyDropped(q, c, n)
         \/ ReplyIntoFreed(q, c, n)
         \/ ReplyPartial(q, c, n)
         \/ ReplyFull(q, c, n)
         \/ ReplyGarbage(q, c, n)
  BY DEF Receive, ServerData
<1>1. PICK n \in 1..Len(s2c[c]) :
         \/ ReplyDropped(q, c, n)
         \/ ReplyIntoFreed(q, c, n)
         \/ ReplyPartial(q, c, n)
         \/ ReplyFull(q, c, n)
         \/ ReplyGarbage(q, c, n)
  BY <1>0
<1>2. Arrived(q, c, n)
  BY <1>1 DEF ReplyDropped, ReplyIntoFreed, ReplyPartial, ReplyFull, ReplyGarbage
<1>. DEFINE e == FirstOf[q]
            buf == Joined(q, c, n)
<1>3. /\ n \in Reads(s2c[c], SplitReplies)
      /\ s2c' = [s2c EXCEPT ![c] = Drop(@, n)]
      /\ UNCHANGED <<ids, result, c2s, equd>>
  BY <1>2 DEF Arrived, Receive, server
<1>4. buf \in Seq(ReplyCell) /\ Len(buf) \in Nat
  BY <1>3, JoinedType, LenProperties
<1>5. Len(buf) >= HdrLen /\ StartsWithHeader(buf) =>
         buf[1].m \in Reply /\ buf[1] = [m |-> buf[1].m, at |-> 1]
  BY <1>4, HeadType, LenAssumption DEF StartsWithHeader
<1>6. /\ UNCHANGED dangling
      /\ UNCHANGED <<buffer, reply>> \/ KeepsAll(e, buf) \/ TakesOne(e, buf)
  <2>. HIDE DEF buf, e
  <2>1. CASE ReplyDropped(q, c, n) \/ ReplyIntoFreed(q, c, n)
    BY <2>1 DEF ReplyDropped, ReplyIntoFreed, equStruct
  <2>2. CASE ReplyPartial(q, c, n)
    <3>1. /\ e \notin dangling /\ UNCHANGED dangling
          /\ buffer' = [buffer EXCEPT ![e] = buf]
          /\ \/ UNCHANGED reply
             \/ /\ Len(buf) >= HdrLen
                /\ StartsWithHeader(buf)
                /\ reply' = [reply EXCEPT ![e] = InBuffer(buf[1].m)]
             \/ \E r \in GarbageReplies : reply' = [reply EXCEPT ![e] = InBuffer(r)]
      BY <2>2 DEF ReplyPartial, buf, e
    <3>2. \A r \in GarbageReplies : r \in Reply /\ r.req = None
      BY GarbageType DEF GarbageReplies
    <3>3. KeepsAll(e, buf)
      BY <3>1, <3>2, <1>5 DEF KeepsAll, Heading
    <3>. QED  BY <3>1, <3>3
  <2>3. CASE ReplyFull(q, c, n)
    <3>1. /\ e \notin dangling /\ UNCHANGED dangling
          /\ Len(buf) >= HdrLen
          /\ StartsWithHeader(buf)
          /\ buffer' = [buffer EXCEPT ![e] = Shift(buf, ReplyLen(buf[1].m))]
          /\ reply' = [reply EXCEPT ![e] = Copied(buf[1].m)]
      BY <2>3 DEF ReplyFull, buf, e
    <3>2. ReplyLen(buf[1].m) \in Nat \ {0}
      BY LenAssumption DEF ReplyLen
    <3>3. TakesOne(e, buf)
      BY <3>1, <3>2, <1>5 DEF TakesOne, Heading
    <3>. QED  BY <3>1, <3>3
  <2>4. CASE ReplyGarbage(q, c, n)
    <3>1. /\ e \notin dangling /\ UNCHANGED dangling
          /\ \E r \in GarbageReplies :
               \E k \in IF r.size THEN HdrLen + 1..Len(buf) ELSE {HdrLen} :
                 /\ buffer' = [buffer EXCEPT ![e] = Shift(buf, k)]
                 /\ reply' = [reply EXCEPT ![e] = Copied(r)]
      BY <2>4 DEF ReplyGarbage, buf, e
    <3>2. \A r \in GarbageReplies : r \in Reply /\ r.req = None
      BY GarbageType DEF GarbageReplies
    <3>3. \A r \in GarbageReplies :
            \A k \in IF r.size THEN HdrLen + 1..Len(buf) ELSE {HdrLen} : k \in Nat \ {0}
      BY <1>4, LenAssumption DEF buf
    <3>4. TakesOne(e, buf)
      BY <3>1, <3>2, <3>3 DEF TakesOne, Heading
    <3>. QED  BY <3>1, <3>4
  <2>. QED  BY <1>1, <2>1, <2>2, <2>3, <2>4
<1>7. Gets(q, c, n)
  BY <1>3, <1>6 DEF Gets
<1>. QED  BY <1>3, <1>7

LEMMA ReceiveOnce ==
    ASSUME OnceInv, NEW q \in Procs, Receive(q), NEW p \in Procs, NEW i \in Nat
    PROVE  StaysAlone(p, i)
<1>. DEFINE K == AskOf(p, i)
            L == TellOf(p, i)
            e == FirstOf[q]
<1>1. PICK c \in Conns : \E n \in Reads(s2c[c], SplitReplies) : Gets(q, c, n)
  BY ReceiveForm DEF OnceInv
<1>2. PICK n \in Reads(s2c[c], SplitReplies) : Gets(q, c, n)
  BY <1>1
<1>. DEFINE buf == Joined(q, c, n)
            take == Take(s2c[c], n)
            rest == Drop(s2c[c], n)
<1>3. /\ TypeOK /\ Alone(p, i) /\ e \in Conns
      /\ Junk \notin L /\ Junk \in ReplyCell
      /\ s2c \in [Conns -> Seq(ReplyCell)] /\ buffer \in [Conns -> Seq(ReplyCell)]
      /\ reply \in [Conns -> Header \cup {None}]
  BY JunkHasNone, JunkType, ProcAssumption
     DEF OnceInv, TypeOK, TransportTypeOK, ClientTypeOK
<1>4. /\ n \in 0..Len(s2c[c])
      /\ buf \in Seq(ReplyCell) /\ take \in Seq(ReplyCell) /\ rest \in Seq(ReplyCell)
      /\ buf = buffer[e] \o take /\ Len(buf) > 0
  <2>1. /\ n \in 1..Len(s2c[c]) /\ buf \in Seq(ReplyCell) /\ rest \in Seq(ReplyCell)
        /\ Len(buf) = Len(buffer[e]) + n
    BY <1>3, JoinedType
  <2>2. Len(buffer[e]) \in Nat /\ Len(s2c[c]) \in Nat
    BY <1>3, LenProperties
  <2>3. n \in 0..Len(s2c[c]) /\ n > 0
    BY <2>1, <2>2
  <2>4. take \in Seq(ReplyCell)
    BY <1>3, <2>3, TakeType
  <2>. QED  BY <2>1, <2>2, <2>3, <2>4 DEF Joined
<1>5. /\ s2c' = [s2c EXCEPT ![c] = rest]
      /\ UNCHANGED <<ids, result, c2s, equd, dangling>>
      /\ \/ UNCHANGED <<buffer, reply>>
         \/ KeepsAll(e, buf)
         \/ TakesOne(e, buf)
  BY <1>2 DEF Gets
<1>. HIDE DEF K, L, e
<1>6. /\ Has(s2c[c], L) <=> Has(take, L) \/ Has(rest, L)
      /\ Once(s2c[c], L) <=> Once(take, L) /\ Once(rest, L) /\ ~(Has(take, L) /\ Has(rest, L))
  BY <1>3, <1>4, SplitHas
<1>. HIDE DEF buf, take, rest
<1>7. /\ Has(buf, L) <=> Has(buffer[e], L) \/ Has(take, L)
      /\ Once(buf, L) <=> Once(buffer[e], L) /\ Once(take, L)
                          /\ ~(Has(buffer[e], L) /\ Has(take, L))
  BY <1>3, <1>4, JoinHas
<1>8. /\ Once(equd, K)
      /\ \A d \in Conns : Once(c2s[d], K) /\ Once(s2c[d], L) /\ Once(buffer[d], L)
      /\ Lone(InEqud(p, i), Asks(p, i), Tells(p, i), Kept(p, i), Taken(p, i), Results(p, i))
      /\ OnceInStreams(p, i)' <=>
            /\ Once(equd', K)
            /\ \A d \in Conns : Once(c2s'[d], K) /\ Once(s2c'[d], L) /\ Once(buffer'[d], L)
  BY <1>3 DEF Alone, OnceInStreams, K, L
<1>9. /\ s2c'[c] = rest
      /\ \A d \in Conns \ {c} : s2c'[d] = s2c[d]
  BY <1>3, <1>5
<1>10. /\ \A d \in Conns : /\ d \in Tells(p, i)' <=> Has(s2c'[d], L)
                           /\ d \in Tells(p, i) <=> Has(s2c[d], L)
                           /\ d \in Kept(p, i)' <=> d \notin dangling /\ Has(buffer'[d], L)
                           /\ d \in Kept(p, i) <=> d \notin dangling /\ Has(buffer[d], L)
       /\ Tells(p, i)' \subseteq Conns /\ Kept(p, i)' \subseteq Conns
       /\ Taken(p, i)' \subseteq Conns
  BY <1>5 DEF Tells, Kept, Taken, L
<1>11. /\ Tells(p, i)' \subseteq Tells(p, i)
       /\ c \in Tells(p, i)' => Has(rest, L)
       /\ c \in Tells(p, i) <=> Has(take, L) \/ Has(rest, L)
       /\ \A d \in Conns : Once(s2c'[d], L)
  BY <1>6, <1>8, <1>9, <1>10
<1>12. /\ Asks(p, i)' = Asks(p, i) /\ Results(p, i)' = Results(p, i)
       /\ InEqud(p, i)' <=> InEqud(p, i)
       /\ \A d \in Conns : Once(c2s'[d], K)
       /\ Once(equd', K)
  BY <1>5, <1>8 DEF Asks, Results, InEqud
<1>13. CASE UNCHANGED <<buffer, reply>>
  <2>1. Kept(p, i)' = Kept(p, i) /\ Taken(p, i)' = Taken(p, i)
    BY <1>5, <1>13 DEF Kept, Taken
  <2>2. OnceInStreams(p, i)'
    BY <1>8, <1>11, <1>12, <1>13
  <2>. QED
    BY <1>8, <1>11, <1>12, <2>1, <2>2 DEF StaysAlone, Alone, Unasked, Lone, Nowhere
<1>14. CASE e \notin dangling
  <2>1. e \in Kept(p, i) <=> Has(buffer[e], L)
    BY <1>3, <1>10, <1>14
  <2>2. Tells(p, i) # {} => Kept(p, i) = {}
    BY <1>8 DEF Lone
  <2>3. ~(Has(buffer[e], L) /\ Has(take, L))
    BY <1>11, <2>1, <2>2
  <2>4. Once(take, L)
    BY <1>3, <1>6, <1>8
  <2>5. Once(buf, L)
    BY <1>3, <1>7, <1>8, <2>3, <2>4
  <2>6. Has(buf, L) => e \in Kept(p, i) \/ c \in Tells(p, i)
    BY <1>7, <1>11, <2>1
  <2>7. Has(buf, L) => Tells(p, i)' = {}
    <3>1. Has(take, L) => ~Has(rest, L)
      BY <1>6, <1>8
    <3>2. \A x, y \in Tells(p, i) : x = y
      BY <1>8 DEF Lone
    <3>. QED  BY <1>7, <1>11, <2>1, <2>2, <3>1, <3>2
  <2>8. CASE KeepsAll(e, buf)
    <3>1. /\ buffer'[e] = buf /\ \A d \in Conns \ {e} : buffer'[d] = buffer[d]
      BY <1>3, <2>8 DEF KeepsAll
    <3>2. /\ Kept(p, i)' \subseteq Kept(p, i) \cup {e}
          /\ e \in Kept(p, i)' => Has(buf, L)
      BY <1>10, <3>1
    <3>3. \A d \in Conns : Once(buffer'[d], L)
      BY <1>8, <2>5, <3>1
    <3>4. Taken(p, i)' \subseteq Taken(p, i)
      <4>1. CASE UNCHANGED reply
        BY <4>1 DEF Taken
      <4>2. CASE \E h \in Reply : reply' = [reply EXCEPT ![e] = InBuffer(h)]
        BY <1>3, <4>2 DEF Taken, InBuffer
      <4>. QED  BY <2>8, <4>1, <4>2 DEF KeepsAll
    <3>5. OnceInStreams(p, i)'
      BY <1>8, <1>11, <1>12, <3>3
    <3>. QED
      BY <1>8, <1>11, <1>12, <2>6, <2>7, <3>2, <3>4, <3>5
         DEF StaysAlone, Alone, Unasked, Lone, Nowhere
  <2>9. CASE TakesOne(e, buf)
    <3>1. PICK h \in Reply, k \in Nat \ {0} :
             /\ Heading(h, buf)
             /\ buffer' = [buffer EXCEPT ![e] = Shift(buf, k)]
             /\ reply' = [reply EXCEPT ![e] = Copied(h)]
      BY <2>9 DEF TakesOne
    <3>2. IsOf(h.req, p, i) => Has(buf, L) /\ ~Has(Shift(buf, k), L)
      <4>1. buf # << >> /\ buf[1] \in ReplyCell /\ 1 \in DOMAIN buf
        BY <1>4, ElementOfSeq, EmptySeq, LenProperties
      <4>2. IsOf(h.req, p, i) => buf[1].at = 1 /\ IsOf(buf[1].m.req, p, i)
        BY <3>1 DEF Heading, IsOf
      <4>3. IsOf(h.req, p, i) => buf[1] \in L
        BY <4>1, <4>2 DEF L, TellOf
      <4>4. k \in Nat /\ k > 0
        OBVIOUS
      <4>5. k > 0 /\ buf # << >> /\ buf[1] \in L => ~Has(Shift(buf, k), L)
        BY <1>3, <1>4, <2>5, <4>4, ShiftHas
      <4>6. buf[1] \in L => Has(buf, L)
        BY <4>1 DEF Has
      <4>. QED  BY <4>1, <4>3, <4>4, <4>5, <4>6
    <3>3. Once(Shift(buf, k), L) /\ (Has(Shift(buf, k), L) => Has(buf, L))
      <4>1. k \in Nat
        OBVIOUS
      <4>. QED  BY <1>3, <1>4, <2>5, <4>1, ShiftHas
    <3>4. /\ buffer'[e] = Shift(buf, k) /\ \A d \in Conns \ {e} : buffer'[d] = buffer[d]
      BY <1>3, <3>1
    <3>5. /\ Kept(p, i)' \subseteq Kept(p, i) \cup {e}
          /\ e \in Kept(p, i)' => Has(Shift(buf, k), L)
      BY <1>10, <3>4
    <3>6. \A d \in Conns : Once(buffer'[d], L)
      BY <1>8, <3>3, <3>4
    <3>7. /\ Taken(p, i)' \subseteq Taken(p, i) \cup {e}
          /\ e \in Taken(p, i)' => IsOf(h.req, p, i)
      BY <1>3, <3>1 DEF Taken, Copied
    <3>8. OnceInStreams(p, i)'
      BY <1>8, <1>11, <1>12, <3>6
    <3>9. Kept(p, i)' \subseteq Kept(p, i) \cup {e} /\ (e \in Kept(p, i)' => Has(buf, L))
      BY <3>3, <3>5
    <3>10. /\ e \in Kept(p, i)' => e \notin Taken(p, i)'
      BY <3>2, <3>5, <3>7
    <3>11. e \in Taken(p, i)' => Has(buf, L)
      BY <3>2, <3>7
    <3>12. e \in Taken(p, i)' => Kept(p, i)' = {}
      <4>1. \A x, y \in Kept(p, i) : x = y
        BY <1>8 DEF Lone
      <4>. QED  BY <2>2, <2>6, <3>9, <3>10, <3>11, <4>1
    <3>13. e \in Kept(p, i)' \cup Taken(p, i)' =>
              /\ Tells(p, i)' = {}
              /\ e \in Kept(p, i) \/ c \in Tells(p, i)
      BY <2>6, <2>7, <3>9, <3>11
    <3>. QED
      BY <1>8, <1>11, <1>12, <3>7, <3>8, <3>9, <3>12, <3>13
         DEF StaysAlone, Alone, Unasked, Lone, Nowhere
  <2>. QED  BY <1>5, <1>13, <2>8, <2>9
<1>. QED  BY <1>5, <1>13, <1>14 DEF KeepsAll, TakesOne

LEMMA ReceiveHeader ==
    ASSUME OnceInv, NEW q \in Procs, Receive(q)
    PROVE  HeaderInBuffer'
<1>1. PICK c \in Conns : \E n \in Reads(s2c[c], SplitReplies) : Gets(q, c, n)
  BY ReceiveForm DEF OnceInv
<1>2. PICK n \in Reads(s2c[c], SplitReplies) : Gets(q, c, n)
  BY <1>1
<1>. DEFINE e == FirstOf[q]
            buf == Joined(q, c, n)
            take == Take(s2c[c], n)
<1>3. /\ TypeOK /\ HeaderInBuffer /\ e \in Conns
      /\ s2c \in [Conns -> Seq(ReplyCell)] /\ buffer \in [Conns -> Seq(ReplyCell)]
      /\ reply \in [Conns -> Header \cup {None}]
  BY ProcAssumption DEF OnceInv, TypeOK, TransportTypeOK, ClientTypeOK
<1>4. buf # << >> /\ (buffer[e] # << >> => buf[1] = buffer[e][1])
  <2>1. /\ n \in 1..Len(s2c[c]) /\ buf \in Seq(ReplyCell)
        /\ Len(buf) = Len(buffer[e]) + n
    BY <1>3, JoinedType
  <2>2. Len(buffer[e]) \in Nat /\ Len(s2c[c]) \in Nat
    BY <1>3, LenProperties
  <2>3. take \in Seq(ReplyCell) /\ buf = buffer[e] \o take
    BY <1>3, <2>1, <2>2, TakeType DEF Joined
  <2>4. buffer[e] # << >> => 1 \in 1..Len(buffer[e])
    BY <1>3, <2>2, EmptySeq
  <2>5. buffer[e] # << >> => buf[1] = buffer[e][1]
    BY <1>3, <2>3, <2>4, ConcatProperties, LenProperties
  <2>6. Len(buf) > 0
    BY <2>1, <2>2
  <2>. QED  BY <2>1, <2>5, <2>6, EmptySeq
<1>5. /\ UNCHANGED dangling
      /\ \/ UNCHANGED <<buffer, reply>>
         \/ KeepsAll(e, buf)
         \/ TakesOne(e, buf)
  BY <1>2 DEF Gets
<1>. HIDE DEF e, buf
<1>. SUFFICES ASSUME NEW d \in Conns, reply'[d] # None
              PROVE  /\ d \notin dangling
                     /\ reply'[d].inBuffer /\ reply'[d].hdr.req # None =>
                           /\ buffer'[d] # << >>
                           /\ buffer'[d][1] = [m |-> reply'[d].hdr, at |-> 1]
  BY <1>5 DEF HeaderInBuffer
<1>6. CASE UNCHANGED <<buffer, reply>>
  BY <1>3, <1>6 DEF HeaderInBuffer
<1>7. CASE KeepsAll(e, buf)
  <2>1. /\ e \notin dangling /\ buffer'[e] = buf
        /\ \A x \in Conns \ {e} : buffer'[x] = buffer[x]
        /\ \/ UNCHANGED reply
           \/ \E h \in Reply : Heading(h, buf) /\ reply' = [reply EXCEPT ![e] = InBuffer(h)]
    BY <1>3, <1>7 DEF KeepsAll
  <2>2. CASE UNCHANGED reply
    BY <1>3, <1>4, <2>1, <2>2 DEF HeaderInBuffer
  <2>3. CASE \E h \in Reply : Heading(h, buf) /\ reply' = [reply EXCEPT ![e] = InBuffer(h)]
    <3>1. PICK h \in Reply : Heading(h, buf) /\ reply' = [reply EXCEPT ![e] = InBuffer(h)]
      BY <2>3
    <3>2. CASE d = e
      BY <1>3, <1>4, <2>1, <3>1, <3>2 DEF Heading, InBuffer
    <3>3. CASE d # e
      BY <1>3, <2>1, <3>1, <3>3 DEF HeaderInBuffer
    <3>. QED  BY <3>2, <3>3
  <2>. QED  BY <2>1, <2>2, <2>3
<1>8. CASE TakesOne(e, buf)
  <2>1. PICK h \in Reply, k \in Nat \ {0} :
           /\ Heading(h, buf)
           /\ buffer' = [buffer EXCEPT ![e] = Shift(buf, k)]
           /\ reply' = [reply EXCEPT ![e] = Copied(h)]
    BY <1>8 DEF TakesOne
  <2>2. e \notin dangling
    BY <1>8 DEF TakesOne
  <2>3. CASE d = e
    BY <1>3, <2>1, <2>2, <2>3 DEF Copied
  <2>4. CASE d # e
    BY <1>3, <2>1, <2>4 DEF HeaderInBuffer
  <2>. QED  BY <2>3, <2>4
<1>. QED  BY <1>5, <1>6, <1>7, <1>8

\* A call returns with the reply its connection stores: what the reply was
\* found in, the struct or the buffer it heads, is given up.
LEMMA ReturnOnce ==
    ASSUME OnceInv, NEW q \in Procs, Answered(q), NEW p \in Procs, NEW i \in Nat
    PROVE  StaysAlone(p, i)
<1>. DEFINE L == TellOf(p, i)
            k == Len(frames[q])
            m == frames[q][k]
            e == m.src
            hdr == reply[e].hdr
            new == [call |-> m, answers |-> hdr.req, id |-> hdr.id, error |-> hdr.error,
                    body |-> IF hdr.error = NONE THEN rbody[e] ELSE None]
<1>1. /\ TypeOK /\ HeaderInBuffer /\ Alone(p, i)
      /\ frames \in [Procs -> Seq(Message)] /\ result \in [Procs -> Result \cup {None}]
      /\ reply \in [Conns -> Header \cup {None}] /\ buffer \in [Conns -> Seq(ReplyCell)]
  BY DEF OnceInv, TypeOK, ClientTypeOK
<1>2. e \in Conns
  <2>1. frames[q] \in Seq(Message) /\ frames[q] # << >>
    BY <1>1 DEF Answered, Return
  <2>2. k \in 1..k
    BY <2>1, EmptySeq
  <2>3. m \in Message
    BY <2>1, <2>2, ElementOfSeq
  <2>. QED  BY <2>3 DEF Message
<1>3. /\ reply[e] # None
      /\ dangling' = IF reply[e].inBuffer THEN dangling \cup {e} ELSE dangling
      /\ reply' = [reply EXCEPT ![e] = None]
      /\ result' = [result EXCEPT ![q] = new]
      /\ UNCHANGED <<ids, buffer, c2s, s2c, equd>>
  BY DEF Answered, Return, transport, server
<1>4. new.answers = hdr.req
  OBVIOUS
<1>. HIDE DEF e, new, m, k
<1>5. /\ result'[q] = new /\ \A r \in Procs \ {q} : result'[r] = result[r]
      /\ reply'[e] = None /\ \A d \in Conns \ {e} : reply'[d] = reply[d]
  BY <1>1, <1>2, <1>3
<1>6. /\ Results(p, i)' \subseteq Results(p, i) \cup {q}
      /\ q \in Results(p, i)' => IsOf(reply[e].hdr.req, p, i)
  BY <1>4, <1>5 DEF Results
<1>7. Taken(p, i)' = Taken(p, i) \ {e}
  BY <1>2, <1>5 DEF Taken
<1>8. /\ reply[e].inBuffer /\ IsOf(reply[e].hdr.req, p, i) => e \in Kept(p, i)
      /\ ~reply[e].inBuffer /\ IsOf(reply[e].hdr.req, p, i) => e \in Taken(p, i)
  <2>1. CASE reply[e].inBuffer /\ IsOf(reply[e].hdr.req, p, i)
    <3>1. /\ e \notin dangling /\ buffer[e] # << >>
          /\ buffer[e][1] = [m |-> reply[e].hdr, at |-> 1]
      BY <1>1, <1>2, <1>3, <2>1 DEF HeaderInBuffer, IsOf
    <3>2. buffer[e] \in Seq(ReplyCell)
      BY <1>1, <1>2
    <3>3. Len(buffer[e]) \in Nat \ {0} /\ DOMAIN buffer[e] = 1..Len(buffer[e])
      BY <3>1, <3>2, EmptySeq, LenProperties
    <3>4. 1 \in 1..Len(buffer[e]) /\ 1 \in DOMAIN buffer[e]
      BY <3>3
    <3>5. buffer[e][1] \in ReplyCell
      BY <3>2, <3>4, ElementOfSeq
    <3>6. buffer[e][1].at = 1 /\ IsOf(buffer[e][1].m.req, p, i)
      BY <2>1, <3>1
    <3>7. Has(buffer[e], L)
      BY <3>4, <3>5, <3>6 DEF Has, TellOf
    <3>. QED  BY <1>2, <2>1, <3>1, <3>7 DEF Kept
  <2>2. CASE ~reply[e].inBuffer /\ IsOf(reply[e].hdr.req, p, i)
    BY <1>2, <1>3, <2>2 DEF Taken
  <2>. QED  BY <2>1, <2>2
<1>9. Kept(p, i)' = IF reply[e].inBuffer THEN Kept(p, i) \ {e} ELSE Kept(p, i)
  BY <1>3 DEF Kept
<1>10. /\ Asks(p, i)' = Asks(p, i) /\ Tells(p, i)' = Tells(p, i)
       /\ InEqud(p, i)' <=> InEqud(p, i)
       /\ OnceInStreams(p, i)' <=> OnceInStreams(p, i)
  BY <1>3 DEF Asks, Tells, InEqud, OnceInStreams
<1>11. /\ Lone(InEqud(p, i), Asks(p, i), Tells(p, i), Kept(p, i), Taken(p, i), Results(p, i))
       /\ OnceInStreams(p, i)
  BY <1>1 DEF Alone
<1>12. CASE IsOf(reply[e].hdr.req, p, i)
  BY <1>6, <1>7, <1>8, <1>9, <1>10, <1>11, <1>12
     DEF StaysAlone, Alone, Unasked, Lone, Nowhere
<1>13. CASE ~IsOf(reply[e].hdr.req, p, i)
  <2>1. Results(p, i)' \subseteq Results(p, i)
    BY <1>6, <1>13
  <2>. QED
    BY <1>7, <1>9, <1>10, <1>11, <2>1 DEF StaysAlone, Alone, Unasked, Lone, Nowhere
<1>. QED  BY <1>12, <1>13

LEMMA ReturnHeader ==
    ASSUME OnceInv, NEW q \in Procs, Answered(q)
    PROVE  HeaderInBuffer'
<1>. DEFINE e == frames[q][Len(frames[q])].src
<1>1. reply \in [Conns -> Header \cup {None}] /\ HeaderInBuffer
  BY DEF OnceInv, TypeOK, ClientTypeOK
<1>2. /\ dangling' \subseteq dangling \cup {e}
      /\ reply' = [reply EXCEPT ![e] = None]
      /\ UNCHANGED buffer
  BY DEF Answered, Return
<1>. HIDE DEF e
<1>3. ASSUME NEW d \in Conns, reply'[d] # None
      PROVE  d # e /\ reply'[d] = reply[d]
  BY <1>1, <1>2, <1>3
<1>. QED  BY <1>1, <1>2, <1>3 DEF HeaderInBuffer

\* What a cut leaves of a stream it held.
LEMMA CutHas ==
    ASSUME NEW T, NEW st \in [Conns -> Seq(T)], NEW S \in SUBSET Conns, NEW f, NEW l,
           NEW st2 \in Cut(st, S, f, l), NEW K, \A c \in Conns : Once(st[c], K)
    PROVE  \A c \in Conns : Once(st2[c], K) /\ (Has(st2[c], K) => Has(st[c], K))
<1>. SUFFICES ASSUME NEW c \in Conns
              PROVE  Once(st2[c], K) /\ (Has(st2[c], K) => Has(st[c], K))
  OBVIOUS
<1>1. PICK k \in {g \in [S -> 0..l] : \A d \in S : g[d] \in {0} \cup Reads(st[d], f)} :
         st2 = [d \in Conns |-> IF d \in S THEN Take(st[d], k[d]) ELSE st[d]]
  BY DEF Cut
<1>2. CASE c \in S
  <2>1. k[c] \in {0} \cup Reads(st[c], f) /\ st[c] \in Seq(T) /\ st2[c] = Take(st[c], k[c])
    BY <1>1, <1>2
  <2>2. k[c] \in 0..Len(st[c])
    BY <2>1, ReadsRange, LenProperties
  <2>3. /\ Has(st[c], K) <=> Has(Take(st[c], k[c]), K) \/ Has(Drop(st[c], k[c]), K)
        /\ Once(st[c], K) <=> /\ Once(Take(st[c], k[c]), K) /\ Once(Drop(st[c], k[c]), K)
                              /\ ~(Has(Take(st[c], k[c]), K) /\ Has(Drop(st[c], k[c]), K))
    BY <2>1, <2>2, SplitHas
  <2>. QED  BY <2>1, <2>3
<1>3. CASE c \notin S
  BY <1>1, <1>3
<1>. QED  BY <1>2, <1>3

LEMMA LeaveOnce ==
    ASSUME OnceInv, (\E q \in Procs : Leave(q)) \/ Stop
    PROVE  /\ HeaderInBuffer'
           /\ \A p \in Procs, i \in Nat : StaysAlone(p, i)
<1>1. /\ UNCHANGED <<reply, buffer, dangling, result>>
      /\ equd' = equd \/ equd' = << >>
      /\ TypeOK
  BY DEF Leave, Exit, Stop, ServerExit, client, equStruct, server, OnceInv
<1>2. HeaderInBuffer'
  BY <1>1 DEF OnceInv, HeaderInBuffer
<1>. SUFFICES ASSUME NEW p \in Procs, NEW i \in Nat PROVE StaysAlone(p, i)
  BY <1>2
<1>. DEFINE K == AskOf(p, i)
            L == TellOf(p, i)
<1>. HIDE DEF K, L
<1>3. /\ Once(equd, K)
      /\ \A d \in Conns : Once(c2s[d], K) /\ Once(s2c[d], L) /\ Once(buffer[d], L)
      /\ Lone(InEqud(p, i), Asks(p, i), Tells(p, i), Kept(p, i), Taken(p, i), Results(p, i))
      /\ OnceInStreams(p, i)' <=>
            /\ Once(equd', K)
            /\ \A d \in Conns : Once(c2s'[d], K) /\ Once(s2c'[d], L) /\ Once(buffer'[d], L)
  BY DEF OnceInv, Alone, OnceInStreams, K, L
<1>4. /\ c2s \in [Conns -> Seq(MessageCell)] /\ s2c \in [Conns -> Seq(ReplyCell)]
      /\ Conns \in SUBSET Conns
  BY <1>1 DEF TypeOK, TransportTypeOK
<1>5. \A d \in Conns : Once(c2s'[d], K) /\ (Has(c2s'[d], K) => Has(c2s[d], K))
  <2>1. ASSUME NEW q \in Procs, Leave(q)
        PROVE  \A d \in Conns : Once(c2s'[d], K) /\ (Has(c2s'[d], K) => Has(c2s[d], K))
    <3>1. c2s' \in Cut(c2s, ConnsOf(q), SplitRequests, Longest) /\ ConnsOf(q) \in SUBSET Conns
      BY <2>1 DEF Leave, Exit, ConnsOf
    <3>. QED  BY <1>3, <1>4, <3>1, CutHas
  <2>2. CASE Stop
    BY <2>2, NoneHas DEF Stop, ServerExit
  <2>. QED  BY <2>1, <2>2
<1>6. \A d \in Conns : Once(s2c'[d], L) /\ (Has(s2c'[d], L) => Has(s2c[d], L))
  <2>1. ASSUME NEW q \in Procs, Leave(q)
        PROVE  \A d \in Conns : Once(s2c'[d], L) /\ (Has(s2c'[d], L) => Has(s2c[d], L))
    <3>1. s2c' = [c \in Conns |-> IF c \in ConnsOf(q) THEN << >> ELSE s2c[c]]
      BY <2>1 DEF Leave, Exit
    <3>. QED  BY <1>3, <3>1, NoneHas
  <2>2. CASE Stop
    <3>1. s2c' \in Cut(s2c, Conns, SplitReplies, Longest)
      BY <2>2 DEF Stop, ServerExit
    <3>. QED  BY <1>3, <1>4, <3>1, CutHas
  <2>. QED  BY <2>1, <2>2
<1>7. Once(equd', K) /\ (Has(equd', K) => Has(equd, K))
  BY <1>1, <1>3, NoneHas
<1>8. OnceInStreams(p, i)'
  BY <1>1, <1>3, <1>5, <1>6, <1>7
<1>9. /\ Asks(p, i)' \subseteq Asks(p, i) /\ Tells(p, i)' \subseteq Tells(p, i)
      /\ InEqud(p, i)' => InEqud(p, i)
  BY <1>5, <1>6, <1>7 DEF Asks, Tells, InEqud, K, L
<1>10. /\ Kept(p, i)' = Kept(p, i) /\ Taken(p, i)' = Taken(p, i)
       /\ Results(p, i)' = Results(p, i)
  BY <1>1 DEF Kept, Taken, Results
<1>. QED
  BY <1>3, <1>8, <1>9, <1>10 DEF StaysAlone, Alone, Unasked, Lone, Nowhere

LEMMA OtherOnce ==
    ASSUME OnceInv,
           \/ \E c \in Conns : Connected(c) \/ Disconnected(c)
           \/ UNCHANGED vars
    PROVE  /\ HeaderInBuffer' /\ ids' = ids
           /\ \A p \in Procs, i \in Nat : StaysAlone(p, i)
<1>1. UNCHANGED <<equd, c2s, s2c, reply, buffer, dangling, result, ids>>
  BY DEF Connected, Disconnected, ClientAdd, ClientDel, vars, server, client, equStruct,
         transport
<1>2. HeaderInBuffer'
  BY <1>1 DEF OnceInv, HeaderInBuffer
<1>3. ASSUME NEW p \in Procs, NEW i \in Nat
      PROVE  (Alone(p, i)' <=> Alone(p, i)) /\ (Unasked(p, i)' <=> Unasked(p, i))
  <2>1. /\ Asks(p, i)' = Asks(p, i) /\ Tells(p, i)' = Tells(p, i)
        /\ Kept(p, i)' = Kept(p, i) /\ Taken(p, i)' = Taken(p, i)
        /\ Results(p, i)' = Results(p, i)
        /\ InEqud(p, i)' <=> InEqud(p, i)
        /\ OnceInStreams(p, i)' <=> OnceInStreams(p, i)
    BY <1>1 DEF Asks, Tells, Kept, Taken, Results, InEqud, OnceInStreams
  <2>. QED  BY <2>1 DEF Alone, Unasked, Lone, Nowhere
<1>. QED  BY <1>1, <1>2, <1>3 DEF OnceInv, StaysAlone

LEMMA InitOnce == Init => OnceInv
<1>. SUFFICES ASSUME Init PROVE OnceInv
  OBVIOUS
<1>1. /\ TypeOK
      /\ equd = << >> /\ \A c \in Conns : c2s[c] = << >> /\ s2c[c] = << >>
      /\ \A c \in Conns : buffer[c] = << >> /\ reply[c] = None
      /\ \A q \in Procs : result[q] = None
  BY InitType DEF Init, TransportInit, ServerInit, ClientInit
<1>2. HeaderInBuffer
  BY <1>1 DEF HeaderInBuffer
<1>3. ASSUME NEW p \in Procs, NEW i \in Nat
      PROVE  Alone(p, i) /\ Unasked(p, i)
  <2>1. /\ ~InEqud(p, i) /\ Asks(p, i) = {} /\ Tells(p, i) = {} /\ Kept(p, i) = {}
        /\ Taken(p, i) = {} /\ Results(p, i) = {}
    BY <1>1, NoneHas DEF InEqud, Asks, Tells, Kept, Taken, Results
  <2>2. OnceInStreams(p, i)
    BY <1>1, NoneHas DEF OnceInStreams
  <2>. QED  BY <2>1, <2>2 DEF Alone, Unasked, Lone, Nowhere
<1>. QED  BY <1>1, <1>2, <1>3 DEF OnceInv

LEMMA OnceInvHolds == Spec => []OnceInv
<1>1. Init => OnceInv
  BY InitOnce
<1>2. OnceInv /\ [Next]_vars /\ TypeOK' => OnceInv'
  <2>. SUFFICES ASSUME OnceInv, [Next]_vars, TypeOK'
                PROVE  OnceInv'
    OBVIOUS
  <2>1. ASSUME ids' = ids, HeaderInBuffer', \A p \in Procs, i \in Nat : StaysAlone(p, i)
        PROVE  OnceInv'
    BY <2>1 DEF OnceInv, StaysAlone
  <2>2. ASSUME NEW c \in Conns, Serve(c) PROVE OnceInv'
    <3>1. UNCHANGED <<ids, reply, buffer, dangling>>
      BY <2>2 DEF Serve, client, equStruct
    <3>2. HeaderInBuffer'
      BY <3>1 DEF OnceInv, HeaderInBuffer
    <3>. QED  BY <2>1, <2>2, <3>1, <3>2, ServeOnce
  <2>3. ASSUME NEW q \in Procs, Ask(q) PROVE OnceInv'
    <3>1. UNCHANGED <<reply, buffer, dangling>>
      BY <2>3 DEF Ask, Call
    <3>2. HeaderInBuffer'
      BY <3>1 DEF OnceInv, HeaderInBuffer
    <3>. QED  BY <2>3, <3>2, AskOnce DEF OnceInv
  <2>4. ASSUME NEW q \in Procs, Receive(q) PROVE OnceInv'
    <3>1. ids' = ids
      BY <2>4, ReceiveForm DEF OnceInv, Gets
    <3>. QED  BY <2>1, <2>4, <3>1, ReceiveOnce, ReceiveHeader
  <2>5. ASSUME NEW q \in Procs, Answered(q) PROVE OnceInv'
    <3>1. ids' = ids
      BY <2>5 DEF Answered, Return
    <3>. QED  BY <2>1, <2>5, <3>1, ReturnOnce, ReturnHeader
  <2>6. ASSUME (\E q \in Procs : Leave(q)) \/ Stop PROVE OnceInv'
    <3>1. ids' = ids
      BY <2>6 DEF Leave, Exit, Stop, client
    <3>. QED  BY <2>1, <2>6, <3>1, LeaveOnce
  <2>7. ASSUME \/ \E c \in Conns : Connected(c) \/ Disconnected(c)
               \/ UNCHANGED vars
        PROVE  OnceInv'
    BY <2>1, <2>7, OtherOnce
  <2>. QED  BY <2>2, <2>3, <2>4, <2>5, <2>6, <2>7 DEF Next
<1>3. Spec => []TypeOK
  BY TypeCorrect
<1>. QED  BY <1>1, <1>2, <1>3, PTL DEF Spec

LEMMA AtMostOne ==
    ASSUME NEW S, \A x, y \in S : x = y
    PROVE  Cardinality(S) = IF S = {} THEN 0 ELSE 1
<1>1. S = {} \/ \E x \in S : S = {x}
  OBVIOUS
<1>2. CASE S = {}
  BY <1>2, CountOne
<1>3. CASE \E x \in S : S = {x}
  <2>1. PICK x \in S : S = {x}
    BY <1>3
  <2>. QED  BY <2>1, CountOne
<1>. QED  BY <1>1, <1>2, <1>3

\* The places of K in a stream, and in the streams of C.
In(s, K) == {k \in DOMAIN s : s[k] \in K}
InAny(st, C, K) == UNION {{c} \X In(st[c], K) : c \in C}

LEMMA InOne ==
    ASSUME NEW s, NEW K, Once(s, K)
    PROVE  (\A x, y \in In(s, K) : x = y) /\ (In(s, K) # {} => Has(s, K))
BY DEF In, Once, Has

LEMMA InAnyOne ==
    ASSUME NEW st, NEW C, NEW K, \A c \in C : Once(st[c], K),
           NEW H, \A c \in C : Has(st[c], K) => c \in H, \A c, d \in H : c = d
    PROVE  (\A x, y \in InAny(st, C, K) : x = y) /\ (InAny(st, C, K) # {} => H # {})
<1>1. ASSUME NEW x \in InAny(st, C, K)
      PROVE  \E c \in C : \E k \in In(st[c], K) : c \in H /\ x = <<c, k>>
  <2>1. PICK c \in C : x \in {c} \X In(st[c], K)
    BY DEF InAny
  <2>2. PICK k \in In(st[c], K) : x = <<c, k>>
    BY <2>1
  <2>3. c \in H
    BY <2>2, InOne
  <2>. QED  BY <2>2, <2>3
<1>2. ASSUME NEW x \in InAny(st, C, K), NEW y \in InAny(st, C, K)
      PROVE  x = y
  <2>1. PICK c \in C : \E k \in In(st[c], K) : c \in H /\ x = <<c, k>>
    BY <1>1
  <2>2. PICK d \in C : \E k \in In(st[d], K) : d \in H /\ y = <<d, k>>
    BY <1>1
  <2>3. PICK k \in In(st[c], K) : x = <<c, k>>
    BY <2>1
  <2>4. PICK l \in In(st[d], K) : y = <<d, l>>
    BY <2>2
  <2>5. c = d
    BY <2>1, <2>2
  <2>6. k = l
    BY <2>3, <2>4, <2>5, InOne
  <2>. QED  BY <2>3, <2>4, <2>5, <2>6
<1>. QED  BY <1>1, <1>2

\* However the streams are cut, however calls nest, however many connections a
\* process has and whoever leaves or stops, a request is served at most once and
\* its reply is consumed at most once.
THEOREM ServedOnce == Spec => []ServedAtMostOnce
<1>1. OnceInv => ServedAtMostOnce
  <2>. SUFFICES ASSUME OnceInv, NEW p \in Procs, NEW i \in 0..ids[p] - 1
                PROVE
        LET IsReq(m) == m # None /\ ProcOf[m.src] = p /\ m.id = i
            Asked(stream) == {k \in DOMAIN stream : stream[k].at = 1 /\ IsReq(stream[k].m)}
            ToldIn(stream) == {k \in DOMAIN stream : stream[k].at = 1 /\ IsReq(stream[k].m.req)}
        IN
        Cardinality(Asked(equd))
          + Cardinality(UNION {{c} \X Asked(c2s[c]) : c \in Conns})
          + Cardinality(UNION {{c} \X ToldIn(s2c[c]) : c \in Conns})
          + Cardinality(UNION {{c} \X ToldIn(buffer[c]) : c \in Conns \ dangling})
          + Cardinality({c \in Conns : reply[c] # None /\ ~reply[c].inBuffer
                                       /\ IsReq(reply[c].hdr.req)})
          + Cardinality({q \in Procs : result[q] # None /\ IsReq(result[q].answers)})
        <= 1
    BY DEF ServedAtMostOnce
  <2>. DEFINE K == AskOf(p, i)
              L == TellOf(p, i)
              asked(s) == {k \in DOMAIN s : s[k].at = 1 /\ IsOf(s[k].m, p, i)}
              told(s)  == {k \in DOMAIN s : s[k].at = 1 /\ IsOf(s[k].m.req, p, i)}
              M1 == In(equd, K)
              M2 == InAny(c2s, Conns, K)
              M3 == InAny(s2c, Conns, L)
              M4 == InAny(buffer, Conns \ dangling, L)
              M5 == Taken(p, i)
              M6 == Results(p, i)
  <2>1. /\ i \in Nat /\ equd \in Seq(MessageCell)
        /\ c2s \in [Conns -> Seq(MessageCell)] /\ s2c \in [Conns -> Seq(ReplyCell)]
        /\ buffer \in [Conns -> Seq(ReplyCell)]
    BY DEF OnceInv, TypeOK, TransportTypeOK, ServerTypeOK, ClientTypeOK
  <2>2. Alone(p, i)
    BY <2>1 DEF OnceInv
  <2>3. \A s \in Seq(MessageCell) : asked(s) = In(s, K)
    <3>1. \A s \in Seq(MessageCell) : \A k \in DOMAIN s : s[k] \in MessageCell
      BY ElementOfSeq, LenProperties
    <3>. QED  BY <3>1 DEF In, AskOf
  <2>4. \A s \in Seq(ReplyCell) : told(s) = In(s, L)
    <3>1. \A s \in Seq(ReplyCell) : \A k \in DOMAIN s : s[k] \in ReplyCell
      BY ElementOfSeq, LenProperties
    <3>. QED  BY <3>1 DEF In, TellOf
  <2>5. /\ asked(equd) = M1
        /\ UNION {{c} \X asked(c2s[c]) : c \in Conns} = M2
        /\ UNION {{c} \X told(s2c[c]) : c \in Conns} = M3
        /\ UNION {{c} \X told(buffer[c]) : c \in Conns \ dangling} = M4
    <3>. HIDE DEF asked, told, K, L
    <3>1. /\ \A c \in Conns : asked(c2s[c]) = In(c2s[c], K)
          /\ \A c \in Conns : told(s2c[c]) = In(s2c[c], L)
          /\ \A c \in Conns \ dangling : told(buffer[c]) = In(buffer[c], L)
      BY <2>1, <2>3, <2>4
    <3>2. {{c} \X asked(c2s[c]) : c \in Conns} = {{c} \X In(c2s[c], K) : c \in Conns}
      BY <3>1
    <3>3. {{c} \X told(s2c[c]) : c \in Conns} = {{c} \X In(s2c[c], L) : c \in Conns}
      BY <3>1
    <3>4. {{c} \X told(buffer[c]) : c \in Conns \ dangling}
             = {{c} \X In(buffer[c], L) : c \in Conns \ dangling}
      BY <3>1
    <3>. QED  BY <2>1, <2>3, <3>2, <3>3, <3>4 DEF InAny
  <2>6. /\ {c \in Conns : reply[c] # None /\ ~reply[c].inBuffer
                          /\ IsOf(reply[c].hdr.req, p, i)} = M5
        /\ {q \in Procs : result[q] # None /\ IsOf(result[q].answers, p, i)} = M6
    BY DEF Taken, Results
  <2>7. /\ Once(equd, K)
        /\ \A c \in Conns : Once(c2s[c], K) /\ Once(s2c[c], L) /\ Once(buffer[c], L)
        /\ Lone(InEqud(p, i), Asks(p, i), Tells(p, i), Kept(p, i), M5, M6)
        /\ InEqud(p, i) <=> Has(equd, K)
        /\ \A c \in Conns : Has(c2s[c], K) => c \in Asks(p, i)
        /\ \A c \in Conns : Has(s2c[c], L) => c \in Tells(p, i)
        /\ \A c \in Conns \ dangling : Has(buffer[c], L) => c \in Kept(p, i)
    BY <2>2 DEF Alone, OnceInStreams, InEqud, Asks, Tells, Kept
  <2>. HIDE DEF K, L, M5, M6
  <2>8. (\A x, y \in M1 : x = y) /\ (M1 # {} => InEqud(p, i))
    BY <2>7, InOne
  <2>9. (\A x, y \in M2 : x = y) /\ (M2 # {} => Asks(p, i) # {})
    BY <2>7, InAnyOne DEF Lone
  <2>10. (\A x, y \in M3 : x = y) /\ (M3 # {} => Tells(p, i) # {})
    BY <2>7, InAnyOne DEF Lone
  <2>11. (\A x, y \in M4 : x = y) /\ (M4 # {} => Kept(p, i) # {})
    <3>. DEFINE C == Conns \ dangling
    <3>1. /\ \A c \in C : Once(buffer[c], L)
          /\ \A c \in C : Has(buffer[c], L) => c \in Kept(p, i)
          /\ \A c, d \in Kept(p, i) : c = d
      BY <2>7 DEF Lone
    <3>. HIDE DEF C
    <3>2. /\ \A x, y \in InAny(buffer, C, L) : x = y
          /\ InAny(buffer, C, L) # {} => Kept(p, i) # {}
      BY <3>1, InAnyOne
    <3>. QED  BY <3>2 DEF C
  <2>12. (\A x, y \in M5 : x = y) /\ (\A x, y \in M6 : x = y)
    BY <2>7 DEF Lone
  <2>. HIDE DEF M1, M2, M3, M4
  <2>13. /\ Cardinality(M1) = IF M1 = {} THEN 0 ELSE 1
         /\ Cardinality(M2) = IF M2 = {} THEN 0 ELSE 1
         /\ Cardinality(M3) = IF M3 = {} THEN 0 ELSE 1
         /\ Cardinality(M4) = IF M4 = {} THEN 0 ELSE 1
         /\ Cardinality(M5) = IF M5 = {} THEN 0 ELSE 1
         /\ Cardinality(M6) = IF M6 = {} THEN 0 ELSE 1
    BY <2>8, <2>9, <2>10, <2>11, <2>12, AtMostOne
  <2>14. Cardinality(M1) + Cardinality(M2) + Cardinality(M3) + Cardinality(M4)
            + Cardinality(M5) + Cardinality(M6) <= 1
    BY <2>7, <2>8, <2>9, <2>10, <2>11, <2>13 DEF Lone
  <2>. QED  BY <2>5, <2>6, <2>14 DEF IsOf
<1>. QED  BY <1>1, OnceInvHolds, PTL

-----------------------------------------------------------------------------
(* A client alone with the daemon: however the streams are cut, at most    *)
(* one request is outstanding, and the daemon never loses its place.       *)

\* One connection in the system, and calls that do not nest.
LoneClient == MaxDepth = 1 /\ \E c : Conns = {c}

\* A run of the cells of m after the first o.
Stretch(s, m, o) == \A i \in DOMAIN s : s[i] = [m |-> m, at |-> o + i]

LEMMA StretchCut ==
    ASSUME NEW S, NEW s \in Seq(S), NEW n \in 0..Len(s), NEW m, NEW o \in Nat, Stretch(s, m, o)
    PROVE  Stretch(Take(s, n), m, o) /\ Stretch(Drop(s, n), m, o + n)
<1>1. Len(s) \in Nat /\ DOMAIN s = 1..Len(s) /\ n \in Nat /\ n <= Len(s)
  BY LenProperties
<1>2. /\ Take(s, n) \in Seq(S) /\ Len(Take(s, n)) = n
      /\ \A i \in 1..n : Take(s, n)[i] = s[i]
  BY TakeType
<1>3. /\ Drop(s, n) \in Seq(S) /\ Len(Drop(s, n)) = Len(s) - n
      /\ \A i \in 1..Len(s) - n : Drop(s, n)[i] = s[n + i]
  <2>1. Drop(s, n) \in Seq(S) /\ Len(Drop(s, n)) = Len(s) - n
    BY DropType
  <2>2. \A i \in n + 1..Len(s) : s[i] \in S
    BY ElementOfSeq, <1>1
  <2>3. n + 1 \in Int /\ Len(s) \in Int
    BY <1>1
  <2>4. \A i \in 1..Len(SubSeq(s, n + 1, Len(s))) : SubSeq(s, n + 1, Len(s))[i] = s[n + 1 + i - 1]
    BY <2>2, <2>3, SubSeqProperties
  <2>5. \A i \in 1..Len(s) - n : Drop(s, n)[i] = s[n + 1 + i - 1]
    BY <2>1, <2>4 DEF Drop
  <2>. QED  BY <1>1, <2>1, <2>5
<1>4. DOMAIN Take(s, n) = 1..n /\ DOMAIN Drop(s, n) = 1..Len(s) - n
  BY <1>2, <1>3, LenProperties
<1>5. Stretch(Take(s, n), m, o)
  BY <1>1, <1>2, <1>4 DEF Stretch
<1>6. Stretch(Drop(s, n), m, o + n)
  <2>. SUFFICES ASSUME NEW i \in 1..Len(s) - n
                PROVE  Drop(s, n)[i] = [m |-> m, at |-> (o + n) + i]
    BY <1>4 DEF Stretch
  <2>1. n + i \in DOMAIN s /\ o + (n + i) = (o + n) + i
    BY <1>1
  <2>2. s[n + i] = [m |-> m, at |-> o + (n + i)]
    BY <2>1 DEF Stretch
  <2>. QED  BY <1>3, <2>1, <2>2
<1>. QED  BY <1>5, <1>6

LEMMA StretchJoin ==
    ASSUME NEW S, NEW s \in Seq(S), NEW t \in Seq(S), NEW m,
           Stretch(s, m, 0), Stretch(t, m, Len(s))
    PROVE  Stretch(s \o t, m, 0)
<1>1. /\ DOMAIN s = 1..Len(s) /\ DOMAIN t = 1..Len(t) /\ Len(s) \in Nat /\ Len(t) \in Nat
      /\ DOMAIN (s \o t) = 1..Len(s) + Len(t)
      /\ \A i \in 1..Len(s) + Len(t) :
            (s \o t)[i] = IF i <= Len(s) THEN s[i] ELSE t[i - Len(s)]
  BY LenProperties, ConcatProperties
<1>2. ASSUME NEW i \in 1..Len(s) + Len(t)
      PROVE  (s \o t)[i] = [m |-> m, at |-> i]
  <2>1. CASE i <= Len(s)
    BY <1>1, <2>1 DEF Stretch
  <2>2. CASE ~(i <= Len(s))
    <3>1. i - Len(s) \in DOMAIN t /\ Len(s) + (i - Len(s)) = i
      BY <1>1, <2>2
    <3>2. t[i - Len(s)] = [m |-> m, at |-> Len(s) + (i - Len(s))]
      BY <3>1 DEF Stretch
    <3>. QED  BY <1>1, <2>2, <3>1, <3>2
  <2>. QED  BY <2>1, <2>2
<1>3. \A i \in 1..Len(s) + Len(t) : 0 + i = i
  BY <1>1
<1>. QED  BY <1>1, <1>2, <1>3 DEF Stretch

LEMMA StretchHeads ==
    ASSUME NEW S, NEW s \in Seq(S), NEW m, Stretch(s, m, 0), s # << >>
    PROVE  /\ s[1].m = m
           /\ \A i \in DOMAIN s : s[i] = [m |-> s[1].m, at |-> i]
           /\ Len(s) >= HdrLen => StartsWithHeader(s)
<1>1. Len(s) \in Nat /\ DOMAIN s = 1..Len(s) /\ 1 \in DOMAIN s
  BY EmptySeq, LenProperties
<1>2. \A i \in DOMAIN s : s[i] = [m |-> m, at |-> i]
  BY <1>1 DEF Stretch
<1>3. s[1].m = m
  BY <1>1, <1>2
<1>4. Len(s) >= HdrLen => \A i \in 1..HdrLen : i \in DOMAIN s
  BY <1>1, LenAssumption
<1>. QED  BY <1>2, <1>3, <1>4 DEF StartsWithHeader

LEMMA CellsStretch ==
    /\ \A m \in Message : Stretch(MessageCells(m), m, 0)
    /\ \A r \in Reply : Stretch(ReplyCells(r), r, 0)
<1>1. MessageLen \in Nat /\ \A r \in Reply : ReplyLen(r) \in Nat
  BY LenAssumption DEF MessageLen, ReplyLen
<1>2. ASSUME NEW m \in Message PROVE Stretch(MessageCells(m), m, 0)
  BY <1>1 DEF Stretch, MessageCells
<1>3. ASSUME NEW r \in Reply PROVE Stretch(ReplyCells(r), r, 0)
  BY <1>1 DEF Stretch, ReplyCells
<1>. QED  BY <1>2, <1>3

\* A stretch that is all there is moves out of a buffer and leaves nothing.
LEMMA ShiftAll ==
    ASSUME NEW S, NEW s \in Seq(S) PROVE Shift(s, Len(s)) = << >>
<1>1. Len(s) \in Nat
  BY LenProperties
<1>. QED  BY <1>1 DEF Shift

-----------------------------------------------------------------------------
(* The invariant.                                                          *)

\* Nothing of a request is left, or all that is left is one run of one request.
Nothing(c) == equd = << >> /\ c2s[c] = << >>

OneRequest(c) ==
    \E m \in Message :
        /\ Stretch(equd, m, 0)
        /\ Stretch(c2s[c], m, Len(equd))
        /\ Len(equd) < MessageLen
        /\ Len(equd) + Len(c2s[c]) <= MessageLen

\* The caller has freed every body it was given.
BodyFreed(c) == rbody[c] = None \/ c \in freed

\* What is buffered and on the way is one reply; while a part of it is taken
\* for the reply, that reply has a body.
OneReply(c) ==
    \E r \in Reply :
        /\ r.size => r.error = NONE
        /\ Stretch(buffer[c], r, 0)
        /\ Stretch(s2c[c], r, Len(buffer[c]))
        /\ Len(buffer[c]) < ReplyLen(r)
        /\ Len(buffer[c]) + Len(s2c[c]) = ReplyLen(r)
        /\ reply[c] # None => r.size /\ reply[c] = InBuffer(r)

NoReply(c) == s2c[c] = << >> /\ buffer[c] = << >>

LonePhase(c) ==
    /\ c \notin dangling
    /\ \/ /\ frames[ProcOf[c]] = << >>
          /\ Nothing(c) /\ NoReply(c) /\ reply[c] = None /\ BodyFreed(c)
       \/ /\ Len(frames[ProcOf[c]]) = 1
          /\ msg[c] # None
          /\ \/ /\ Len(equd) + Len(c2s[c]) = MessageLen
                /\ NoReply(c) /\ reply[c] = None /\ BodyFreed(c)
             \/ Nothing(c) /\ OneReply(c) /\ BodyFreed(c)
             \/ /\ Nothing(c) /\ NoReply(c) /\ reply[c] # None
                /\ ~reply[c].inBuffer
                /\ IF reply[c].hdr.size THEN reply[c].hdr.error = NONE ELSE BodyFreed(c)

FrameInv ==
    /\ TypeOK
    /\ ~up => equd = << >>
    /\ up => \A c \in Conns : /\ OneRequest(c)
                              /\ ProcOf[c] \in Running => LonePhase(c)

LEMMA NothingIsOne ==
    ASSUME NEW c \in Conns, Nothing(c) PROVE OneRequest(c)
<1>. DEFINE m == [src |-> c, id |-> 0, type |-> TypeOf(HOSTS_GET)]
<1>1. m \in Message
  BY DEF Message, RequestTypes, RequestNames
<1>2. DOMAIN << >> = {} /\ Len(<< >>) = 0 /\ MessageLen \in Nat \ {0}
  BY LenAssumption DEF MessageLen
<1>. HIDE DEF m
<1>. QED  BY <1>1, <1>2 DEF Nothing, OneRequest, Stretch

LEMMA LoneTypes ==
    ASSUME FrameInv, NEW c, Conns = {c}, NEW q \in Procs
    PROVE  /\ TypeOK /\ c \in Conns /\ ProcOf[c] = q /\ FirstOf[q] = c
           /\ equd \in Seq(MessageCell) /\ c2s[c] \in Seq(MessageCell)
           /\ s2c[c] \in Seq(ReplyCell) /\ buffer[c] \in Seq(ReplyCell)
           /\ frames[q] \in Seq(Message) /\ reply[c] \in Header \cup {None}
           /\ frames \in [Procs -> Seq(Message)] /\ reply \in [Conns -> Header \cup {None}]
           /\ c2s \in [Conns -> Seq(MessageCell)] /\ s2c \in [Conns -> Seq(ReplyCell)]
           /\ buffer \in [Conns -> Seq(ReplyCell)] /\ msg \in [Conns -> Message \cup {None}]
           /\ rbody \in [Conns -> Message \cup {None}]
BY ProcAssumption DEF FrameInv, TypeOK, TransportTypeOK, ServerTypeOK, ClientTypeOK

LEMMA ServeFrame ==
    ASSUME FrameInv, TypeOK', NEW c, Conns = {c}, Serve(c)
    PROVE  FrameInv'
<1>. DEFINE q == ProcOf[c]
<1>1. q \in Procs /\ c \in Conns
  BY ProcAssumption
<1>2. PICK n \in 1..Len(c2s[c]) :
         DataPartial(c, n) \/ DataMessage(c, n) \/ DataGarbage(c, n)
  BY DEF Serve, ClientData
<1>3. Arrives(c, n) /\ up /\ up'
  <2>1. Arrives(c, n)
    BY <1>2, Zenon DEF DataPartial, DataMessage, DataGarbage
  <2>2. up /\ up' = up
    BY <2>1, Zenon DEF Arrives
  <2>. QED  BY <2>1, <2>2
<1>. DEFINE rec == Received(c, n)
            take == Take(c2s[c], n)
            rest == Drop(c2s[c], n)
<1>4. /\ n \in 0..Len(c2s[c]) /\ n > 0
      /\ rec \in Seq(MessageCell) /\ take \in Seq(MessageCell) /\ rest \in Seq(MessageCell)
      /\ rec = equd \o take /\ Len(rec) = Len(equd) + n /\ Len(rest) = Len(c2s[c]) - n
      /\ Len(equd) \in Nat /\ Len(c2s[c]) \in Nat
      /\ equd \in Seq(MessageCell) /\ c2s[c] \in Seq(MessageCell)
      /\ s2c \in [Conns -> Seq(ReplyCell)]
  <2>1. /\ TypeOK /\ equd \in Seq(MessageCell) /\ c2s[c] \in Seq(MessageCell)
        /\ s2c \in [Conns -> Seq(ReplyCell)]
    BY <1>1, LoneTypes
  <2>2. /\ n \in Reads(c2s[c], SplitRequests)
    BY <1>3 DEF Arrives
  <2>3. /\ n \in 1..Len(c2s[c]) /\ rec \in Seq(MessageCell) /\ rest \in Seq(MessageCell)
        /\ Len(rec) = Len(equd) + n
    BY <1>1, <2>1, <2>2, ReceivedType
  <2>4. Len(equd) \in Nat /\ Len(c2s[c]) \in Nat /\ n \in 0..Len(c2s[c])
    BY <2>1, <2>3, LenProperties
  <2>5. take \in Seq(MessageCell) /\ Len(rest) = Len(c2s[c]) - n
    BY <2>1, <2>4, TakeType, DropType
  <2>. QED  BY <2>1, <2>3, <2>4, <2>5 DEF Received
<1>5. PICK m \in Message :
        /\ Stretch(equd, m, 0)
        /\ Stretch(c2s[c], m, Len(equd))
        /\ Len(equd) < MessageLen
        /\ Len(equd) + Len(c2s[c]) <= MessageLen
  BY <1>1, <1>3 DEF FrameInv, OneRequest
<1>6. Stretch(take, m, Len(equd)) /\ Stretch(rest, m, Len(equd) + n)
  BY <1>4, <1>5, StretchCut
<1>. HIDE DEF take, rest
<1>7. Stretch(rec, m, 0)
  BY <1>4, <1>5, <1>6, StretchJoin
<1>8. /\ c2s'[c] = rest
      /\ UNCHANGED <<frames, ids, msg, reply, rbody, freed, buffer, dangling, fault, gone>>
  BY <1>1, <1>3, LoneTypes DEF Arrives, Serve, client, equStruct, rest
<1>. HIDE DEF rec
<1>9. MessageLen \in Nat /\ HdrLen \in Nat \ {0} /\ HdrLen <= MessageLen
  BY LenAssumption DEF MessageLen
<1>10. rec # << >> /\ rec[1].m = m /\ (Len(rec) >= HdrLen => StartsWithHeader(rec))
  <2>1. Len(rec) > 0 /\ Len(<< >>) = 0
    BY <1>4
  <2>2. rec # << >>
    BY <2>1
  <2>. QED  BY <1>4, <1>7, <2>2, StretchHeads
<1>11. CASE DataPartial(c, n)
  <2>1. equd' = rec /\ UNCHANGED s2c /\ Len(rec) < MessageLen
    BY <1>4, <1>9, <1>11 DEF DataPartial, Complete, rec
  <2>3. Len(equd') + Len(c2s'[c]) = Len(equd) + Len(c2s[c])
    <3>1. Len(equd') = Len(equd) + n /\ Len(c2s'[c]) = Len(c2s[c]) - n
      BY <1>4, <1>8, <2>1
    <3>2. /\ Len(equd) \in Nat /\ Len(c2s[c]) \in Nat /\ n \in Nat
      BY <1>4
    <3>3. \A a, b, k \in Nat : (a + k) + (b - k) = a + b
      OBVIOUS
    <3>4. (Len(equd) + n) + (Len(c2s[c]) - n) = Len(equd) + Len(c2s[c])
      BY <3>2, <3>3
    <3>. QED  BY <3>1, <3>4, Zenon
  <2>2. OneRequest(c)'
    <3>1. Stretch(equd', m, 0) /\ Stretch(c2s'[c], m, Len(equd'))
      BY <1>4, <1>6, <1>7, <1>8, <2>1
    <3>2. Len(equd') < MessageLen /\ Len(equd') + Len(c2s'[c]) <= MessageLen
      BY <1>5, <2>1, <2>3
    <3>. QED  BY <3>1, <3>2 DEF OneRequest
  <2>4. ~Nothing(c)
    <3>1. c2s[c] # << >>
      BY <1>4
    <3>. QED  BY <3>1 DEF Nothing
  <2>5. q \in Running' => LonePhase(c)'
    <3>1. q \in Running' => q \in Running /\ LonePhase(c)
      BY <1>1, <1>3, <1>8 DEF Running, FrameInv
    <3>. QED
      BY <1>8, <2>1, <2>3, <2>4, <3>1 DEF LonePhase, NoReply, BodyFreed
  <2>. QED  BY <1>3, <2>2, <2>5 DEF FrameInv
<1>12. CASE DataMessage(c, n)
  <2>1. /\ Len(rec) >= MessageLen /\ equd' = Shift(rec, MessageLen)
        /\ \E a \in Answers(rec) :
              s2c' = IF ReplyHas(m.type)
                     THEN [s2c EXCEPT ![c] = @ \o ReplyCells(ReplyTo(m, a))]
                     ELSE s2c
    BY <1>10, <1>12 DEF DataMessage, Complete, rec
  <2>2. Len(rec) = MessageLen /\ Len(rest) = 0
    <3>1. /\ Len(equd) \in Nat /\ Len(c2s[c]) \in Nat /\ n \in Nat /\ n <= Len(c2s[c])
          /\ Len(rec) = Len(equd) + n /\ Len(rest) = Len(c2s[c]) - n
      BY <1>4
    <3>2. Len(equd) + Len(c2s[c]) <= MessageLen
      BY <1>5
    <3>. QED  BY <1>9, <2>1, <3>1, <3>2
  <2>3. equd' = << >> /\ c2s'[c] = << >>
    BY <1>4, <1>8, <2>1, <2>2, ShiftAll, EmptySeq
  <2>4. OneRequest(c)'
    <3>1. Nothing(c)'
      BY <2>3 DEF Nothing
    <3>2. MessageLen \in Nat \ {0} /\ DOMAIN << >> = {} /\ Len(<< >>) = 0
      BY LenAssumption DEF MessageLen
    <3>. QED  BY <2>3, <3>2 DEF OneRequest, Stretch
  <2>5. ASSUME q \in Running'
        PROVE  LonePhase(c)'
    <3>1. q \in Running /\ LonePhase(c)
      BY <1>1, <1>3, <1>8, <2>5 DEF Running, FrameInv
    <3>2. ~Nothing(c)
      <4>1. c2s[c] # << >>
        BY <1>4
      <4>. QED  BY <4>1 DEF Nothing
    <3>3. /\ c \notin dangling /\ Len(frames[q]) = 1 /\ msg[c] # None
          /\ NoReply(c) /\ reply[c] = None /\ BodyFreed(c)
      BY <3>1, <3>2 DEF LonePhase
    <3>4. ReplyHas(m.type)
      <4>1. PICK name \in RequestNames : m.type = TypeOf(name)
        BY DEF Message, RequestTypes
      <4>. QED  BY <4>1, TypeOfName
    <3>5. PICK a \in Answers(rec) : s2c' = [s2c EXCEPT ![c] = @ \o ReplyCells(ReplyTo(m, a))]
      BY <2>1, <3>4
    <3>6. ReplyTo(m, a) \in Reply
      BY AnswersType DEF Reply, Message, ReplyTo
    <3>7. ReplyTo(m, a).size => ReplyTo(m, a).error = NONE
      <4>1. a.size => a.error = NONE
        <5>1. CASE Decodes(rec)
          <6>1. a \in Process(NameGet(rec[1].m.type))
            BY <5>1 DEF Answers
          <6>. QED  BY <6>1 DEF Process, Outcome
        <5>2. CASE ~Decodes(rec)
          BY <5>2 DEF Answers, Outcome
        <5>. QED  BY <5>1, <5>2
      <4>. QED  BY <4>1 DEF ReplyTo
    <3>. DEFINE r == ReplyTo(m, a)
    <3>. HIDE DEF r
    <3>8. s2c'[c] = ReplyCells(r)
      <4>1. ReplyCells(r) \in Seq(ReplyCell) /\ s2c[c] = << >>
        BY <3>3, <3>6, ReplyCellsType DEF NoReply, r
      <4>2. << >> \o ReplyCells(r) = ReplyCells(r)
        BY <4>1, ConcatEmpty
      <4>. QED  BY <1>1, <1>4, <3>5, <4>1, <4>2 DEF r
    <3>9. OneReply(c)'
      <4>1. ReplyLen(r) \in Nat \ {0} /\ DOMAIN << >> = {} /\ Len(<< >>) = 0
        BY LenAssumption DEF ReplyLen
      <4>2. buffer'[c] = << >> /\ reply'[c] = None
        BY <1>8, <3>3 DEF NoReply
      <4>3. Stretch(buffer'[c], r, 0) /\ Stretch(s2c'[c], r, Len(buffer'[c]))
        BY <3>6, <3>8, <4>1, <4>2, CellsStretch DEF Stretch, r
      <4>4. Len(s2c'[c]) = ReplyLen(r)
        BY <3>6, <3>8, ReplyCellsType DEF r
      <4>. QED  BY <3>6, <3>7, <4>1, <4>2, <4>3, <4>4 DEF OneReply, r
    <3>10. BodyFreed(c)' /\ Nothing(c)'
      BY <1>8, <2>3, <3>3 DEF BodyFreed, Nothing
    <3>. QED  BY <1>8, <3>3, <3>9, <3>10 DEF LonePhase
  <2>. QED  BY <1>3, <2>4, <2>5 DEF FrameInv
<1>13. CASE DataGarbage(c, n)
  BY <1>10, <1>13 DEF DataGarbage, rec
<1>. QED  BY <1>2, <1>11, <1>12, <1>13

LEMMA AskFrame ==
    ASSUME FrameInv, TypeOK', MaxDepth = 1, NEW c, Conns = {c}, NEW q \in Procs, Ask(q)
    PROVE  FrameInv'
<1>1. PICK name \in Requests : Call(q, c, name)
  BY DEF Ask
<1>. DEFINE m == [src |-> c, id |-> ids[q], type |-> TypeOf(name)]
<1>2. c \in Conns /\ ProcOf[c] = q /\ q \in Running /\ frames[q] = << >>
  <2>1. frames[q] \in Seq(Message)
    BY LoneTypes
  <2>2. Len(frames[q]) \in Nat /\ Len(frames[q]) < 1
    BY <1>1, <2>1, LenProperties DEF Call
  <2>3. frames[q] = << >>
    BY <2>1, <2>2, EmptySeq
  <2>. QED  BY <1>1, <2>3 DEF Call
<1>3. /\ frames' = [frames EXCEPT ![q] = Append(@, m)]
      /\ msg' = [msg EXCEPT ![c] = m]
      /\ c2s' = [c2s EXCEPT ![c] = @ \o MessageCells(m)]
      /\ UNCHANGED <<reply, rbody, freed, buffer, dangling, fault, gone, s2c, equd, up>>
  BY <1>1 DEF Call, Ask, server
<1>4. m \in Message /\ m # None
  <2>1. ids[q] \in Nat
    BY DEF FrameInv, TypeOK, ClientTypeOK
  <2>. QED  BY <1>2, <2>1, ProcAssumption DEF Message, RequestTypes
<1>. HIDE DEF m
<1>5. CASE up
  <2>1. LonePhase(c) /\ Nothing(c) /\ NoReply(c) /\ reply[c] = None /\ BodyFreed(c)
        /\ c \notin dangling
    <3>1. Len(<< >>) = 0
      OBVIOUS
    <3>2. LonePhase(c)
      BY <1>2, <1>5 DEF FrameInv
    <3>. QED  BY <1>2, <3>1, <3>2 DEF LonePhase
  <2>2. c2s'[c] = MessageCells(m)
    <3>1. MessageCells(m) \in Seq(MessageCell)
      BY <1>4, MessageCellsType
    <3>2. << >> \o MessageCells(m) = MessageCells(m)
      BY <3>1, ConcatEmpty
    <3>3. c2s[c] = << >> /\ c2s \in [Conns -> Seq(MessageCell)]
      BY <2>1, LoneTypes DEF Nothing
    <3>. QED  BY <1>2, <1>3, <3>2, <3>3
  <2>3. equd' = << >> /\ Len(<< >>) = 0 /\ DOMAIN << >> = {} /\ MessageLen \in Nat \ {0}
    BY <1>3, <2>1, LenAssumption DEF Nothing, MessageLen
  <2>4. Len(c2s'[c]) = MessageLen
    BY <1>4, <2>2, MessageCellsType
  <2>5. OneRequest(c)'
    <3>1. Stretch(equd', m, 0) /\ Stretch(c2s'[c], m, Len(equd'))
      BY <1>4, <2>2, <2>3, CellsStretch DEF Stretch
    <3>. QED  BY <1>4, <2>3, <2>4, <3>1 DEF OneRequest
  <2>6. Len(frames'[q]) = 1 /\ msg'[c] # None
    <3>1. frames \in [Procs -> Seq(Message)] /\ msg \in [Conns -> Message \cup {None}]
      BY LoneTypes
    <3>2. frames'[q] = Append(<< >>, m) /\ msg'[c] = m
      BY <1>2, <1>3, <3>1
    <3>3. Len(Append(<< >>, m)) = 1
      OBVIOUS
    <3>. QED  BY <1>4, <3>2, <3>3
  <2>7. LonePhase(c)'
    <3>1. /\ NoReply(c)' /\ reply'[c] = None /\ BodyFreed(c)' /\ c \notin dangling'
      BY <1>3, <2>1 DEF NoReply, BodyFreed
    <3>2. Len(equd') + Len(c2s'[c]) = MessageLen
      BY <2>3, <2>4
    <3>. QED  BY <1>2, <2>6, <3>1, <3>2 DEF LonePhase
  <2>. QED  BY <1>3, <1>5, <2>5, <2>7 DEF FrameInv
<1>6. CASE ~up
  BY <1>3, <1>6 DEF FrameInv
<1>. QED  BY <1>5, <1>6

LEMMA ReceiveFrame ==
    ASSUME FrameInv, TypeOK', NEW c, Conns = {c}, NEW q \in Procs, Receive(q)
    PROVE  FrameInv'
<1>1. /\ c \in Conns /\ ProcOf[c] = q /\ FirstOf[q] = c
      /\ s2c[c] \in Seq(ReplyCell) /\ buffer[c] \in Seq(ReplyCell)
      /\ reply \in [Conns -> Header \cup {None}]
      /\ buffer \in [Conns -> Seq(ReplyCell)] /\ s2c \in [Conns -> Seq(ReplyCell)]
      /\ frames \in [Procs -> Seq(Message)]
      /\ TypeOK
  BY LoneTypes
<1>2. PICK n \in 1..Len(s2c[c]) :
         \/ ReplyDropped(q, c, n)
         \/ ReplyIntoFreed(q, c, n)
         \/ ReplyPartial(q, c, n)
         \/ ReplyFull(q, c, n)
         \/ ReplyGarbage(q, c, n)
  BY DEF Receive, ServerData
<1>. DEFINE buf == Joined(q, c, n)
            take == Take(s2c[c], n)
            rest == Drop(s2c[c], n)
<1>3. Arrived(q, c, n)
  BY <1>2, Zenon DEF ReplyDropped, ReplyIntoFreed, ReplyPartial, ReplyFull, ReplyGarbage
<1>4. /\ q \in Running /\ frames[q] # << >>
      /\ n \in Reads(s2c[c], SplitReplies)
      /\ s2c' = [s2c EXCEPT ![c] = rest]
      /\ UNCHANGED <<frames, gone, c2s>>
  BY <1>3 DEF Arrived
<1>5. /\ UNCHANGED <<equd, up>>
      /\ fault \subseteq fault'
  BY <1>2, Zenon DEF Receive, server, ReplyDropped, ReplyIntoFreed, ReplyPartial, ReplyFull, ReplyGarbage
<1>6. CASE ~up
  BY <1>5, <1>6 DEF FrameInv
<1>7. CASE up
  <2>1. /\ n > 0 /\ n \in Nat /\ n \in 0..Len(s2c[c]) /\ buf \in Seq(ReplyCell)
        /\ Len(buf) = Len(buffer[c]) + n
        /\ Len(buffer[c]) \in Nat /\ Len(s2c[c]) \in Nat
        /\ n <= Len(s2c[c])
    <3>1. n \in 1..Len(s2c[c]) /\ buf \in Seq(ReplyCell) /\ Len(buf) = Len(buffer[c]) + n
      BY <1>1, <1>4, JoinedType
    <3>. QED  BY <1>1, <3>1, LenProperties
  <2>2. /\ take \in Seq(ReplyCell) /\ rest \in Seq(ReplyCell)
        /\ Len(rest) = Len(s2c[c]) - n /\ buf = buffer[c] \o take
    BY <1>1, <2>1, TakeType, DropType DEF Joined
  <2>3. LonePhase(c)
    BY <1>1, <1>4, <1>7 DEF FrameInv
  <2>4. s2c[c] # << >>
    BY <2>1
  <2>5. /\ c \notin dangling /\ Len(frames[q]) = 1 /\ msg[c] # None
        /\ Nothing(c) /\ OneReply(c) /\ BodyFreed(c)
    BY <1>1, <1>4, <2>3, <2>4 DEF LonePhase, NoReply
  <2>6. PICK r \in Reply :
          /\ r.size => r.error = NONE
          /\ Stretch(buffer[c], r, 0)
          /\ Stretch(s2c[c], r, Len(buffer[c]))
          /\ Len(buffer[c]) < ReplyLen(r)
          /\ Len(buffer[c]) + Len(s2c[c]) = ReplyLen(r)
          /\ reply[c] # None => r.size /\ reply[c] = InBuffer(r)
    BY <2>5 DEF OneReply
  <2>7. Stretch(take, r, Len(buffer[c])) /\ Stretch(rest, r, Len(buffer[c]) + n)
    BY <1>1, <2>1, <2>6, StretchCut
  <2>8. /\ HdrLen \in Nat \ {0} /\ BodyLen \in Nat \ {0}
        /\ ReplyLen(r) = IF r.size THEN HdrLen + BodyLen ELSE HdrLen
        /\ r.size \in BOOLEAN
    BY LenAssumption DEF ReplyLen, Reply
  <2>. HIDE DEF take, rest
  <2>9. Stretch(buf, r, 0)
    BY <1>1, <2>2, <2>6, <2>7, StretchJoin
  <2>10. /\ s2c'[c] = rest
         /\ Stretch(s2c'[c], r, Len(buf))
         /\ Len(buf) + Len(s2c'[c]) = ReplyLen(r)
    <3>1. s2c'[c] = rest
      BY <1>1, <1>4
    <3>2. /\ Len(buf) = Len(buffer[c]) + n /\ Len(rest) = Len(s2c[c]) - n
          /\ n \in Nat /\ Len(buffer[c]) \in Nat /\ Len(s2c[c]) \in Nat
          /\ Len(buffer[c]) + Len(s2c[c]) = ReplyLen(r)
      BY <2>1, <2>2, <2>6
    <3>3. Len(buf) + Len(rest) = ReplyLen(r)
      <4>. DEFINE x == Len(buf)
                  y == Len(rest)
                  a == Len(buffer[c])
                  b == Len(s2c[c])
      <4>1. x = a + n /\ y = b - n /\ n \in Nat /\ a \in Nat /\ b \in Nat
        BY <3>2
      <4>. HIDE DEF x, y, a, b
      <4>2. x + y = a + b
        BY <4>1
      <4>. QED  BY <3>2, <4>2 DEF x, y, a, b
    <3>. QED  BY <2>7, <3>1, <3>2, <3>3
  <2>. HIDE DEF buf
  <2>11. buf # << >> /\ buf[1].m = r /\ (Len(buf) >= HdrLen => StartsWithHeader(buf))
    <3>1. Len(buf) > 0 /\ Len(<< >>) = 0
      BY <2>1
    <3>2. buf # << >>
      BY <3>1
    <3>. QED  BY <2>1, <2>9, <3>2, StretchHeads
  <2>12. OneRequest(c)' /\ Nothing(c)'
    <3>1. Nothing(c)'
      BY <1>4, <1>5, <2>5 DEF Nothing
    <3>2. OneRequest(c)
      BY <1>1, <1>7 DEF FrameInv
    <3>. QED  BY <1>4, <1>5, <3>1, <3>2 DEF OneRequest
  <2>13. ~ReplyDropped(q, c, n) /\ ~ReplyIntoFreed(q, c, n) /\ ~ReplyGarbage(q, c, n)
    <3>1. ~ReplyDropped(q, c, n)
      BY <1>1, <2>5 DEF ReplyDropped
    <3>2. ~ReplyIntoFreed(q, c, n)
      BY <1>1, <2>5 DEF ReplyIntoFreed
    <3>3. ~ReplyGarbage(q, c, n)
      <4>. SUFFICES ASSUME ReplyGarbage(q, c, n) PROVE FALSE
        OBVIOUS
      <4>1. Len(buf) >= HdrLen /\ ~StartsWithHeader(buf)
        BY DEF ReplyGarbage, buf
      <4>. QED  BY <2>11, <4>1
    <3>. QED  BY <3>1, <3>2, <3>3
  <2>14. CASE ReplyPartial(q, c, n)
    <3>1. /\ buffer' = [buffer EXCEPT ![c] = buf]
          /\ \/ Len(buf) < HdrLen /\ reply' = reply
             \/ Len(buf) < ReplyLen(r) /\ Len(buf) >= HdrLen /\ reply' = [reply EXCEPT ![c] = InBuffer(r)]
          /\ UNCHANGED <<msg, rbody, freed, dangling, fault>>
      BY <1>1, <2>11, <2>14 DEF ReplyPartial, buf
    <3>2. buffer'[c] = buf
      BY <1>1, <3>1
    <3>3. Len(buf) < ReplyLen(r) /\ (reply'[c] # None => r.size /\ reply'[c] = InBuffer(r))
      <4>1. Len(buf) \in Nat
        BY <2>1
      <4>2. CASE Len(buf) < HdrLen /\ reply' = reply
        BY <2>6, <2>8, <4>1, <4>2
      <4>3. CASE Len(buf) < ReplyLen(r) /\ Len(buf) >= HdrLen /\ reply' = [reply EXCEPT ![c] = InBuffer(r)]
        <5>1. reply'[c] = InBuffer(r)
          BY <1>1, <4>3
        <5>2. r.size
          BY <2>8, <4>1, <4>3
        <5>. QED  BY <4>3, <5>1, <5>2
      <4>. QED  BY <3>1, <4>2, <4>3
    <3>4. OneReply(c)'
      BY <2>6, <2>9, <2>10, <3>2, <3>3 DEF OneReply
    <3>5. LonePhase(c)'
      <4>1. /\ c \notin dangling' /\ Len(frames'[ProcOf[c]]) = 1 /\ msg'[c] # None
            /\ BodyFreed(c)'
        BY <1>1, <1>4, <2>5, <3>1 DEF BodyFreed
      <4>. QED  BY <2>12, <3>4, <4>1 DEF LonePhase
    <3>. QED  BY <1>1, <1>5, <1>7, <2>12, <3>5 DEF FrameInv
  <2>15. CASE ReplyFull(q, c, n)
    <3>1. /\ Len(buf) >= ReplyLen(r)
          /\ IF r.size THEN TRUE ELSE UNCHANGED <<rbody, freed>>
          /\ reply' = [reply EXCEPT ![c] = Copied(r)]
          /\ buffer' = [buffer EXCEPT ![c] = Shift(buf, ReplyLen(r))]
          /\ UNCHANGED <<msg, dangling, fault>>
      BY <1>1, <2>11, <2>15 DEF ReplyFull, buf
    <3>2. Len(buf) = ReplyLen(r) /\ Len(rest) = 0
      <4>1. Len(buf) + Len(rest) = ReplyLen(r) /\ Len(buf) \in Nat /\ Len(rest) \in Nat
        BY <2>1, <2>2, <2>10, LenProperties
      <4>. QED  BY <2>8, <3>1, <4>1
    <3>3. s2c'[c] = << >> /\ buffer'[c] = << >>
      BY <1>1, <2>1, <2>2, <2>10, <3>1, <3>2, EmptySeq, ShiftAll
    <3>4. reply'[c] = Copied(r)
      BY <1>1, <3>1
    <3>5. reply'[c] # None
      <4>1. reply'[c] \in Header
        BY <3>4 DEF Copied, Header
      <4>. QED  BY <4>1, ProcAssumption
    <3>6. /\ ~reply'[c].inBuffer
          /\ IF reply'[c].hdr.size THEN reply'[c].hdr.error = NONE ELSE BodyFreed(c)'
      BY <2>5, <2>6, <3>1, <3>4 DEF Copied, BodyFreed
    <3>7. LonePhase(c)'
      <4>1. /\ c \notin dangling' /\ Len(frames'[ProcOf[c]]) = 1 /\ msg'[c] # None
            /\ NoReply(c)'
        BY <1>1, <1>4, <2>5, <3>1, <3>3 DEF NoReply
      <4>. QED  BY <2>12, <3>5, <3>6, <4>1 DEF LonePhase
    <3>. QED  BY <1>1, <1>5, <1>7, <2>12, <3>7 DEF FrameInv
  <2>. QED  BY <1>2, <2>13, <2>14, <2>15
<1>. QED  BY <1>6, <1>7

LEMMA ReturnFrame ==
    ASSUME FrameInv, TypeOK', NEW c, Conns = {c}, NEW q \in Procs, Answered(q)
    PROVE  FrameInv'
<1>1. /\ c \in Conns /\ ProcOf[c] = q
      /\ frames[q] \in Seq(Message) /\ frames \in [Procs -> Seq(Message)]
      /\ reply[c] \in Header \cup {None} /\ reply \in [Conns -> Header \cup {None}]
      /\ TypeOK
  BY LoneTypes
<1>2. /\ q \in Running /\ frames[q] # << >>
      /\ frames' = [frames EXCEPT ![q] = Take(frames[q], Len(frames[q]) - 1)]
      /\ UNCHANGED <<equd, up, rbody, buffer, gone, c2s, s2c>>
  BY DEF Answered, Return, server, transport
<1>3. frames[q][Len(frames[q])].src = c
  <2>1. Len(frames[q]) \in 1..Len(frames[q])
    BY <1>1, <1>2, LenProperties, EmptySeq
  <2>2. frames[q][Len(frames[q])] \in Message
    BY <1>1, <2>1, ElementOfSeq
  <2>. QED  BY <2>2 DEF Message
<1>. DEFINE hdr == reply[c].hdr
<1>4. /\ reply[c] # None
      /\ dangling' = IF reply[c].inBuffer THEN dangling \cup {c} ELSE dangling
      /\ reply' = [reply EXCEPT ![c] = None]
      /\ fault' = IF hdr.error = NONE /\ (rbody[c] = None \/ c \in freed)
                  THEN fault \cup {q} ELSE fault
      /\ freed' = IF hdr.error = NONE THEN freed \cup {c} ELSE freed
  BY <1>3 DEF Answered, Return
<1>5. CASE ~up
  BY <1>2, <1>5 DEF FrameInv
<1>6. CASE up
  <2>1. LonePhase(c) /\ OneRequest(c)
    BY <1>1, <1>2, <1>6 DEF FrameInv
  <2>2. OneRequest(c)'
    BY <1>2, <2>1 DEF OneRequest
  <2>3. /\ c \notin dangling /\ Len(frames[q]) = 1
        /\ Nothing(c)
        /\ \/ OneReply(c) /\ BodyFreed(c)
           \/ /\ NoReply(c)
              /\ ~reply[c].inBuffer
              /\ IF reply[c].hdr.size THEN reply[c].hdr.error = NONE ELSE BodyFreed(c)
    BY <1>1, <1>2, <1>4, <2>1 DEF LonePhase
  <2>4. CASE hdr.error = NONE /\ (rbody[c] = None \/ c \in freed)
    <3>1. q \notin Running'
      BY <1>4, <2>4 DEF Running
    <3>. QED  BY <1>1, <1>2, <1>6, <2>2, <3>1 DEF FrameInv
  <2>5. CASE ~(hdr.error = NONE /\ (rbody[c] = None \/ c \in freed))
    <3>1. ~(OneReply(c) /\ BodyFreed(c))
      <4>. SUFFICES ASSUME OneReply(c), BodyFreed(c) PROVE FALSE
        OBVIOUS
      <4>1. PICK r \in Reply : (r.size => r.error = NONE) /\ r.size /\ reply[c] = InBuffer(r)
        BY <1>4 DEF OneReply
      <4>2. hdr.error = NONE
        BY <4>1 DEF InBuffer
      <4>. QED  BY <2>5, <4>2 DEF BodyFreed
    <3>2. /\ NoReply(c) /\ ~reply[c].inBuffer
          /\ IF reply[c].hdr.size THEN reply[c].hdr.error = NONE ELSE BodyFreed(c)
      BY <2>3, <3>1
    <3>3. BodyFreed(c)'
      BY <1>2, <1>4, <2>5, <3>2 DEF BodyFreed
    <3>4. reply'[c] = None /\ dangling' = dangling
      BY <1>1, <1>4, <3>2
    <3>5. frames'[ProcOf[c]] = << >>
      <4>1. frames'[q] = Take(frames[q], 0)
        BY <1>1, <1>2, <2>3
      <4>2. Take(frames[q], 0) \in Seq(Message) /\ Len(Take(frames[q], 0)) = 0
        BY <1>1, LenProperties, TakeType
      <4>. QED  BY <1>1, <4>1, <4>2, EmptySeq
    <3>6. Nothing(c)' /\ NoReply(c)'
      BY <1>2, <2>3, <3>2 DEF Nothing, NoReply
    <3>7. LonePhase(c)'
      BY <2>3, <3>3, <3>4, <3>5, <3>6 DEF LonePhase
    <3>. QED  BY <1>1, <1>2, <1>6, <2>2, <3>7 DEF FrameInv
  <2>. QED  BY <2>4, <2>5
<1>. QED  BY <1>5, <1>6

LEMMA LeaveFrame ==
    ASSUME FrameInv, TypeOK', NEW c, Conns = {c}, NEW q \in Procs, Leave(q)
    PROVE  FrameInv'
<1>1. c \in Conns /\ ProcOf[c] = q /\ c2s[c] \in Seq(MessageCell)
  BY LoneTypes
<1>2. /\ gone' = gone \cup {q}
      /\ c2s' \in Cut(c2s, ConnsOf(q), SplitRequests, Longest)
      /\ UNCHANGED <<equd, up>>
  BY DEF Leave, Exit, server
<1>3. q \notin Running'
  BY <1>2 DEF Running
<1>4. CASE ~up
  BY <1>2, <1>4 DEF FrameInv
<1>5. CASE up
  <2>1. ConnsOf(q) = {c}
    BY <1>1 DEF ConnsOf
  <2>2. PICK k \in {g \in [{c} -> 0..Longest] :
                      \A d \in {c} : g[d] \in {0} \cup Reads(c2s[d], SplitRequests)} :
           c2s' = [d \in Conns |-> IF d \in {c} THEN Take(c2s[d], k[d]) ELSE c2s[d]]
    BY <1>2, <2>1 DEF Cut
  <2>3. k[c] \in {0} \cup Reads(c2s[c], SplitRequests) /\ c2s'[c] = Take(c2s[c], k[c])
    BY <1>1, <2>2
  <2>4. k[c] \in 0..Len(c2s[c])
    BY <1>1, <2>3, ReadsRange, LenProperties
  <2>5. PICK m \in Message :
          /\ Stretch(equd, m, 0)
          /\ Stretch(c2s[c], m, Len(equd))
          /\ Len(equd) < MessageLen
          /\ Len(equd) + Len(c2s[c]) <= MessageLen
    BY <1>1, <1>5 DEF FrameInv, OneRequest
  <2>6. /\ Len(equd) \in Nat /\ Len(c2s[c]) \in Nat
        /\ Len(c2s'[c]) = k[c] /\ MessageLen \in Nat
    BY <1>1, <2>3, <2>4, LoneTypes, TakeType, LenProperties, LenAssumption DEF MessageLen
  <2>7. Stretch(c2s'[c], m, Len(equd))
    BY <1>1, <2>3, <2>4, <2>5, <2>6, StretchCut
  <2>8. Len(equd) + Len(c2s'[c]) <= MessageLen
    BY <2>4, <2>5, <2>6
  <2>9. OneRequest(c)'
    BY <1>2, <2>5, <2>7, <2>8 DEF OneRequest
  <2>. QED  BY <1>1, <1>2, <1>3, <1>5, <2>9 DEF FrameInv
<1>. QED  BY <1>4, <1>5

LEMMA OtherFrame ==
    ASSUME FrameInv, TypeOK',
           Stop \/ (\E c \in Conns : Connected(c) \/ Disconnected(c)) \/ UNCHANGED vars
    PROVE  FrameInv'
<1>1. CASE Stop
  BY <1>1 DEF Stop, ServerExit, FrameInv
<1>2. CASE (\E c \in Conns : Connected(c) \/ Disconnected(c)) \/ UNCHANGED vars
  <2>1. UNCHANGED <<equd, up, c2s, s2c, frames, msg, reply, rbody, freed, buffer,
                    dangling, fault, gone>>
    BY <1>2 DEF Connected, Disconnected, ClientAdd, ClientDel, vars, server, client,
                equStruct, transport
  <2>2. ASSUME NEW c \in Conns, OneRequest(c) PROVE OneRequest(c)'
    BY <2>1, <2>2 DEF OneRequest
  <2>3. Running' = Running
    BY <2>1 DEF Running
  <2>4. ASSUME NEW c \in Conns, LonePhase(c) PROVE LonePhase(c)'
    BY <2>1, <2>4 DEF LonePhase, Nothing, NoReply, OneReply, BodyFreed
  <2>. QED  BY <2>1, <2>2, <2>3, <2>4 DEF FrameInv
<1>. QED  BY <1>1, <1>2

LEMMA InitFrame == Init => FrameInv
<1>. SUFFICES ASSUME Init PROVE FrameInv
  OBVIOUS
<1>1. TypeOK
  BY InitType
<1>2. ASSUME NEW c \in Conns
      PROVE  OneRequest(c) /\ LonePhase(c)
  <2>1. Nothing(c) /\ NoReply(c) /\ reply[c] = None /\ BodyFreed(c) /\ c \notin dangling
    BY DEF Init, TransportInit, ServerInit, ClientInit, Nothing, NoReply, BodyFreed
  <2>2. frames[ProcOf[c]] = << >>
    BY ProcAssumption DEF Init, ClientInit
  <2>. QED  BY <2>1, <2>2, NothingIsOne DEF LonePhase
<1>3. up
  BY DEF Init, ServerInit
<1>. QED  BY <1>1, <1>2, <1>3 DEF FrameInv

LEMMA FrameInvHolds == ASSUME LoneClient PROVE Spec => []FrameInv
<1>1. Init => FrameInv
  BY InitFrame
<1>2. FrameInv /\ [Next]_vars /\ TypeOK' => FrameInv'
  <2>. SUFFICES ASSUME FrameInv, [Next]_vars, TypeOK'
                PROVE  FrameInv'
    OBVIOUS
  <2>1. PICK c : Conns = {c}
    BY DEF LoneClient
  <2>2. MaxDepth = 1
    BY DEF LoneClient
  <2>3. CASE Serve(c)
    BY <2>1, <2>3, ServeFrame
  <2>4. ASSUME NEW q \in Procs, Ask(q) PROVE FrameInv'
    BY <2>1, <2>2, <2>4, AskFrame
  <2>5. ASSUME NEW q \in Procs, Receive(q) PROVE FrameInv'
    BY <2>1, <2>5, ReceiveFrame
  <2>6. ASSUME NEW q \in Procs, Answered(q) PROVE FrameInv'
    BY <2>1, <2>6, ReturnFrame
  <2>7. ASSUME NEW q \in Procs, Leave(q) PROVE FrameInv'
    BY <2>1, <2>7, LeaveFrame
  <2>8. CASE Stop \/ (\E d \in Conns : Connected(d) \/ Disconnected(d)) \/ UNCHANGED vars
    BY <2>8, OtherFrame
  <2>. QED  BY <2>1, <2>3, <2>4, <2>5, <2>6, <2>7, <2>8 DEF Next
<1>3. Spec => []TypeOK
  BY TypeCorrect
<1>. QED  BY <1>1, <1>2, <1>3, PTL DEF Spec

\* A client that is alone with the daemon and does not call inside a call: a
\* stream cut anywhere, an exit in the middle of a message and the end of the
\* daemon never leave the daemon with a buffer that is not the beginning of
\* one message (equ_server.c keeps what is short of a message, and serves one
\* message per event).
THEOREM FramingKept == ASSUME LoneClient PROVE Spec => []DaemonKeepsFraming
<1>1. FrameInv => DaemonKeepsFraming
  <2>. SUFFICES ASSUME FrameInv PROVE DaemonKeepsFraming
    OBVIOUS
  <2>1. PICK c : Conns = {c}
    BY DEF LoneClient
  <2>2. equd \in Seq(MessageCell) /\ MessageLen \in Nat \ {0} /\ Len(<< >>) = 0
        /\ DOMAIN << >> = {}
    BY LenAssumption DEF FrameInv, TypeOK, ServerTypeOK, MessageLen
  <2>3. CASE equd = << >>
    BY <2>2, <2>3 DEF DaemonKeepsFraming
  <2>4. CASE equd # << >>
    <3>1. PICK m \in Message : Stretch(equd, m, 0) /\ Len(equd) < MessageLen
      BY <2>1, <2>4 DEF FrameInv, OneRequest
    <3>2. \A i \in DOMAIN equd : equd[i] = [m |-> equd[1].m, at |-> i]
      BY <2>2, <2>4, <3>1, StretchHeads
    <3>. QED  BY <3>1, <3>2 DEF DaemonKeepsFraming
  <2>. QED  BY <2>3, <2>4
<1>2. Spec => []FrameInv
  BY FrameInvHolds
<1>. QED  BY <1>1, <1>2, PTL
=============================================================================
