---------------------------- MODULE EquRpcProofs ----------------------------
(***************************************************************************)
(* Plain use of the library is correct: with one connection per process,   *)
(* no nested calls, reads that return whole messages and no request for a  *)
(* surface, a call gets its own answer, whoever leaves or stops and        *)
(* however many processes share the daemon.  PhaseInv is inductive.        *)
(***************************************************************************)
EXTENDS EquIpcProofs

-----------------------------------------------------------------------------
(* Streams.                                                                *)

LEMMA TakeAll ==
    ASSUME NEW S, NEW s \in Seq(S)
    PROVE  Take(s, Len(s)) = s /\ Take(s, 0) = << >> /\ Drop(s, Len(s)) = << >>
<1>1. Take(s, Len(s)) = s
  BY SubSeqFull DEF Take
<1>2. Take(s, 0) = << >>
  BY SubSeqEmpty DEF Take
<1>3. Drop(s, Len(s)) = << >>
  BY DropType, LenProperties
<1>. QED  BY <1>1, <1>2, <1>3

LEMMA ConcatEmpty ==
    ASSUME NEW S, NEW s \in Seq(S)
    PROVE  << >> \o s = s
BY ConcatEmptySeq

\* An unfragmented read of one message returns all of it.
LEMMA WholeMessage ==
    ASSUME NEW m \in Message, NEW f, ~f, NEW n \in Reads(MessageCells(m), f)
    PROVE  n = Len(MessageCells(m))
<1>0. Len(MessageCells(m)) = MessageLen /\ n \in 1..Len(MessageCells(m))
  BY MessageCellsType DEF Reads
<1>1. n \in 1..MessageLen /\ MessageLen \in Nat
  BY <1>0, LenAssumption DEF MessageLen
<1>2. n # MessageLen => MessageCells(m)[n + 1].at = n + 1
  BY <1>1 DEF MessageCells
<1>3. n = MessageLen \/ MessageCells(m)[n + 1].at = 1
  BY <1>0 DEF Reads
<1>. QED  BY <1>0, <1>1, <1>2, <1>3

LEMMA WholeReply ==
    ASSUME NEW r \in Reply, NEW f, ~f, NEW n \in Reads(ReplyCells(r), f)
    PROVE  n = Len(ReplyCells(r))
<1>0. Len(ReplyCells(r)) = ReplyLen(r) /\ n \in 1..Len(ReplyCells(r))
  BY ReplyCellsType DEF Reads
<1>1. n \in 1..ReplyLen(r) /\ ReplyLen(r) \in Nat
  BY <1>0, LenAssumption DEF ReplyLen
<1>2. n # ReplyLen(r) => ReplyCells(r)[n + 1].at = n + 1
  BY <1>1 DEF ReplyCells
<1>3. n = ReplyLen(r) \/ ReplyCells(r)[n + 1].at = 1
  BY <1>0 DEF Reads
<1>. QED  BY <1>0, <1>1, <1>2, <1>3

LEMMA NothingToRead ==
    ASSUME NEW f PROVE Reads(<< >>, f) = {}
BY DEF Reads

\* The first cell of a message names it.
LEMMA FirstCell ==
    /\ \A m : MessageCells(m)[1].m = m /\ MessageCells(m)[1].at = 1
    /\ \A r : ReplyCells(r)[1].m = r /\ ReplyCells(r)[1].at = 1
<1>1. 1 \in 1..MessageLen /\ \A r : 1 \in 1..ReplyLen(r)
  BY LenAssumption DEF MessageLen, ReplyLen
<1>. QED  BY <1>1 DEF MessageCells, ReplyCells

LEMMA MessageHeads ==
    ASSUME NEW m \in Message, NameGet(m.type) \in Handled
    PROVE  StartsWithHeader(MessageCells(m)) /\ Decodes(MessageCells(m))
<1>1. MessageLen \in Nat /\ 1 \in 1..MessageLen /\ HdrLen \in 1..MessageLen
  BY LenAssumption DEF MessageLen
<1>2. \A i \in 1..MessageLen : MessageCells(m)[i] = [m |-> MessageCells(m)[1].m, at |-> i]
  BY <1>1 DEF MessageCells
<1>3. MessageCells(m)[1].m = m
  BY <1>1 DEF MessageCells
<1>4. Handled \subseteq Described
  BY DEF Handled, Described, HOSTS_GET, CONTROLLERS_GET, LAYERS_GET,
         LAYER_CAPS_GET, LAYER_STATUS_GET
<1>5. StartsWithHeader(MessageCells(m)) /\ BodyFollows(MessageCells(m), MessageLen)
  BY <1>1, <1>2, LenAssumption DEF StartsWithHeader, BodyFollows
<1>. QED  BY <1>3, <1>4, <1>5 DEF Decodes

LEMMA ReplyHeads ==
    ASSUME NEW r \in Reply
    PROVE  /\ StartsWithHeader(ReplyCells(r))
           /\ BodyFollows(ReplyCells(r), ReplyLen(r))
           /\ Len(ReplyCells(r)) = ReplyLen(r)
           /\ ReplyLen(r) >= HdrLen
           /\ ReplyCells(r)[1].m = r
<1>1. ReplyLen(r) \in Nat /\ 1 \in 1..ReplyLen(r) /\ HdrLen \in 1..ReplyLen(r)
  BY LenAssumption DEF ReplyLen
<1>2. \A i \in 1..ReplyLen(r) : ReplyCells(r)[i] = [m |-> ReplyCells(r)[1].m, at |-> i]
  BY <1>1 DEF ReplyCells
<1>3. StartsWithHeader(ReplyCells(r)) /\ BodyFollows(ReplyCells(r), ReplyLen(r))
  BY <1>1, <1>2, LenAssumption DEF StartsWithHeader, BodyFollows
<1>4. Len(ReplyCells(r)) = ReplyLen(r) /\ ReplyCells(r)[1] = [m |-> r, at |-> 1]
  BY ReplyCellsType
<1>. QED  BY <1>1, <1>3, <1>4

-----------------------------------------------------------------------------
(* Messages.                                                               *)

LEMMA TypeOfName ==
    ASSUME NEW name \in RequestNames
    PROVE  NameGet(TypeOf(name)) = name /\ ReplyHas(TypeOf(name))
BY DEF RequestNames, NameGet, ReplyHas, TypeOf, HOSTS_GET, CONTROLLERS_GET,
       LAYERS_GET, LAYER_CAPS_GET, LAYER_STATUS_GET, SURFACE_GET

\* equ_client_process makes a body exactly when it reports no error, for
\* every name its switch has a case for.
LEMMA BodyUnlessError ==
    ASSUME NEW name \in Handled, NEW a \in Process(name)
    PROVE  a.error = NONE <=> a.size
<1>1. CASE a = Outcome(NONE, name \in Handled)
  BY <1>1 DEF Outcome
<1>2. CASE a \in {Outcome(NEXIST, FALSE) : x \in Lookups \cap {name}}
  <2>1. a = Outcome(NEXIST, FALSE)
    BY <1>2
  <2>. QED  BY <2>1 DEF Outcome, NONE, NEXIST
<1>. QED  BY <1>1, <1>2 DEF Process
-----------------------------------------------------------------------------
(* The inductive invariant.                                                *)

IInv == TypeOK /\ PhaseInv

\* A process owns exactly its first connection.
LEMMA OneConnection ==
    ASSUME PlainUse, NEW p \in Procs, NEW c \in Conns
    PROVE  ProcOf[c] = p <=> c = FirstOf[p]
BY ProcAssumption DEF PlainUse

LEMMA HandledRequests ==
    ASSUME PlainUse, NEW name \in Requests
    PROVE  name \in Handled /\ name \in RequestNames
BY ProcAssumption DEF PlainUse, Handled, RequestNames

\* A step that touches nothing of p but attached keeps its phase.
LEMMA PhaseKept ==
    ASSUME NEW p \in Procs, Phase(p), FirstOf[p] \in Conns,
           c2s'[FirstOf[p]] = c2s[FirstOf[p]], s2c'[FirstOf[p]] = s2c[FirstOf[p]],
           reply'[FirstOf[p]] = reply[FirstOf[p]], msg'[FirstOf[p]] = msg[FirstOf[p]],
           rbody'[FirstOf[p]] = rbody[FirstOf[p]],
           FirstOf[p] \in freed' <=> FirstOf[p] \in freed,
           buffer'[FirstOf[p]] = buffer[FirstOf[p]],
           frames'[p] = frames[p], up' = up
    PROVE  Phase(p)'
BY DEF Phase, Quiet, Sent, Told, Got

LEMMA LeftoverKept ==
    ASSUME NEW p \in Procs, Leftover(p),
           c2s'[FirstOf[p]] = c2s[FirstOf[p]], s2c'[FirstOf[p]] = s2c[FirstOf[p]]
    PROVE  Leftover(p)'
BY DEF Leftover

LEMMA InitInv == Init => IInv
<1>. SUFFICES ASSUME Init PROVE IInv
  OBVIOUS
<1>1. TypeOK
  BY InitType
<1>2. ASSUME NEW p \in Procs PROVE Phase(p)
  <2>1. FirstOf[p] \in Conns
    BY ProcAssumption
  <2>. QED  BY <2>1 DEF Init, TransportInit, ServerInit, ClientInit, Phase, Quiet
<1>3. CallGetsItsAnswer /\ equd = << >> /\ fault = {} /\ dangling = {} /\ gone = {}
  BY DEF Init, ServerInit, ClientInit, CallGetsItsAnswer
<1>. QED  BY <1>1, <1>2, <1>3 DEF IInv, PhaseInv

\* The daemon serves the one message that a read brings; the connection it
\* answers is the one the message came from.
LEMMA ServeStep ==
    ASSUME PlainUse, IInv, NEW c \in Conns, Serve(c)
    PROVE  \E m \in Message, r \in Reply :
             /\ c2s[c] = MessageCells(m) /\ Asking(c, m)
             /\ AnswerTo(m, r) /\ AnswerFrom(r) \in AbsAnswers(m)
             /\ s2c' = [s2c EXCEPT ![c] = @ \o ReplyCells(r)]
             /\ equd' = << >>
             /\ c2s' = [c2s EXCEPT ![c] = << >>]
             /\ UNCHANGED client /\ up' = up
             /\ ProcOf[c] \notin gone =>
                   /\ frames[ProcOf[c]] = <<m>> /\ msg[c] = m
                   /\ Sent(c, m) /\ buffer[c] = << >>
<1>. DEFINE p == ProcOf[c]
<1>0. PICK m : m = c2s[c][1].m
  OBVIOUS
<1>1. p \in Procs /\ FirstOf[p] = c
  BY ProcAssumption DEF PlainUse
<1>2. /\ c2s \in [Conns -> Seq(MessageCell)]
      /\ s2c \in [Conns -> Seq(ReplyCell)]
      /\ frames[p] \in Seq(Message)
      /\ gone \in SUBSET Procs
  BY <1>1 DEF IInv, TypeOK, TransportTypeOK, ClientTypeOK
<1>3. PICK n \in 1..Len(c2s[c]) :
         DataPartial(c, n) \/ DataMessage(c, n) \/ DataGarbage(c, n)
  BY DEF Serve, ClientData
<1>4. /\ up
      /\ n \in Reads(c2s[c], SplitRequests)
      /\ c2s' = [c2s EXCEPT ![c] = Drop(@, n)]
      /\ up' = up
  BY <1>3 DEF DataPartial, DataMessage, DataGarbage, Arrives
<1>5. c2s[c] # << >>
  BY <1>2, <1>3, EmptySeq
<1>6. PhaseInv
  BY DEF IInv
<1>7. p \notin gone =>
         /\ frames[p] = <<m>> /\ msg[c] = m
         /\ Asking(c, m) /\ Sent(c, m)
         /\ buffer[c] = << >>
  <2>. SUFFICES ASSUME p \notin gone
                PROVE  /\ frames[p] = <<m>> /\ msg[c] = m
                       /\ Asking(c, m) /\ Sent(c, m)
                       /\ buffer[c] = << >>
    OBVIOUS
  <2>. DEFINE k == frames[p][1]
  <2>1. /\ buffer[c] = << >>
        /\ \/ frames[p] = << >> /\ Quiet(c)
           \/ /\ frames[p] = <<k>>
              /\ msg[c] = k
              /\ Asking(c, k)
              /\ Sent(c, k) \/ Told(c, k) \/ Got(c, k) \/ (Quiet(c) /\ ~up)
    BY <1>1, <1>6 DEF PhaseInv, Phase
  <2>2. /\ frames[p] = <<k>> /\ msg[c] = k
        /\ Asking(c, k) /\ Sent(c, k)
    BY <1>5, <2>1 DEF Quiet, Told, Got
  <2>3. k \in Message
    BY <1>2, <2>2, ElementOfSeq
  <2>4. m = k
    BY <1>0, <2>2, <2>3, FirstCell DEF Sent
  <2>. QED  BY <2>1, <2>2, <2>4
<1>8. c2s[c] = MessageCells(m) /\ Asking(c, m)
  BY <1>0, <1>1, <1>5, <1>6, <1>7 DEF PhaseInv, Leftover, Sent
<1>9. m \in Message
  <2>1. 1 \in 1..Len(c2s[c])
    BY <1>2, <1>3
  <2>2. c2s[c][1] \in MessageCell
    BY <1>2, <2>1, ElementOfSeq
  <2>3. c2s[c][1].at = 1
    BY <1>8, FirstCell
  <2>. QED  BY <1>0, <2>2, <2>3, CellType
<1>10. n = Len(c2s[c])
  BY <1>4, <1>8, <1>9, WholeMessage DEF PlainUse
<1>11. Take(c2s[c], n) = c2s[c] /\ Drop(c2s[c], n) = << >>
  BY <1>2, <1>10, TakeAll
<1>12. Received(c, n) = MessageCells(m)
  BY <1>2, <1>6, <1>8, <1>11, ConcatEmpty DEF Received, PhaseInv
<1>13. /\ Len(Received(c, n)) = MessageLen /\ MessageLen \in Nat /\ MessageLen > HdrLen
       /\ StartsWithHeader(Received(c, n))
       /\ Decodes(Received(c, n))
       /\ Received(c, n)[1].m = m
       /\ Shift(Received(c, n), MessageLen) = << >>
  <2>1. /\ Len(MessageCells(m)) = MessageLen
        /\ MessageCells(m) \in Seq(MessageCell)
        /\ MessageCells(m)[1].m = m
    BY <1>9, MessageCellsType, FirstCell
  <2>2. StartsWithHeader(MessageCells(m)) /\ Decodes(MessageCells(m))
    BY <1>8, <1>9, MessageHeads DEF Asking
  <2>3. MessageLen \in Nat /\ MessageLen > HdrLen
    BY LenAssumption DEF MessageLen
  <2>4. Shift(MessageCells(m), MessageLen) = << >>
    BY <2>1, <2>3 DEF Shift
  <2>. QED  BY <1>12, <2>1, <2>2, <2>3, <2>4
<1>14. DataMessage(c, n)
  BY <1>3, <1>13, LenAssumption DEF DataPartial, DataGarbage, Complete
<1>15. PICK a \in Process(NameGet(m.type)) :
         s2c' = [s2c EXCEPT ![c] = @ \o ReplyCells(ReplyTo(m, a))]
  BY <1>8, <1>13, <1>14 DEF DataMessage, Answers, Asking
<1>. DEFINE r == ReplyTo(m, a)
<1>16. r \in Reply /\ AnswerTo(m, r)
  BY <1>8, <1>9, <1>15, ProcessType, BodyUnlessError DEF Reply, Message, AnswerTo, Asking, ReplyTo
<1>. HIDE DEF r
<1>17. /\ s2c' = [s2c EXCEPT ![c] = @ \o ReplyCells(r)]
       /\ equd' = << >>
       /\ c2s' = [c2s EXCEPT ![c] = << >>]
  BY <1>4, <1>11, <1>13, <1>14, <1>15 DEF DataMessage, r
<1>18. UNCHANGED client /\ up' = up
  BY <1>4 DEF Serve
<1>19. AnswerFrom(r) \in AbsAnswers(m)
  BY <1>15 DEF r, ReplyTo, AnswerFrom, AbsAnswers
<1>. QED
  BY <1>7, <1>8, <1>9, <1>16, <1>17, <1>18, <1>19

\* Its process was waiting with that message on the way, or has left.
LEMMA ServeInv ==
    ASSUME PlainUse, IInv, NEW c \in Conns, Serve(c)
    PROVE  PhaseInv'
<1>. DEFINE p == ProcOf[c]
<1>1. p \in Procs /\ FirstOf[p] = c
  BY ProcAssumption DEF PlainUse
<1>2. /\ c2s \in [Conns -> Seq(MessageCell)]
      /\ s2c \in [Conns -> Seq(ReplyCell)]
      /\ frames[p] \in Seq(Message)
      /\ gone \in SUBSET Procs
  BY <1>1 DEF IInv, TypeOK, TransportTypeOK, ClientTypeOK
<1>6. PhaseInv
  BY DEF IInv
<1>s. PICK m \in Message, r \in Reply :
         /\ c2s[c] = MessageCells(m) /\ Asking(c, m)
         /\ AnswerTo(m, r)
         /\ s2c' = [s2c EXCEPT ![c] = @ \o ReplyCells(r)]
         /\ equd' = << >>
         /\ c2s' = [c2s EXCEPT ![c] = << >>]
         /\ UNCHANGED client /\ up' = up
         /\ p \notin gone =>
               /\ frames[p] = <<m>> /\ msg[c] = m
               /\ Sent(c, m) /\ buffer[c] = << >>
  BY ServeStep
<1>7. p \notin gone =>
         /\ frames[p] = <<m>> /\ msg[c] = m
         /\ Asking(c, m) /\ Sent(c, m)
         /\ buffer[c] = << >>
  BY <1>s
<1>8. c2s[c] = MessageCells(m) /\ Asking(c, m)
  BY <1>s
<1>9. m \in Message
  OBVIOUS
<1>16. r \in Reply /\ AnswerTo(m, r)
  BY <1>s
<1>17. /\ s2c' = [s2c EXCEPT ![c] = @ \o ReplyCells(r)]
       /\ equd' = << >>
       /\ c2s' = [c2s EXCEPT ![c] = << >>]
  BY <1>s
<1>18. UNCHANGED client /\ up' = up
  BY <1>s
<1>19. /\ ReplyCells(r) \in Seq(ReplyCell)
       /\ ReplyCells(r) # << >>
       /\ ReplyCells(r)[1].m = r
       /\ \A i \in DOMAIN ReplyCells(r) : ReplyCells(r)[i].m = r
  <2>1. /\ ReplyCells(r) \in Seq(ReplyCell)
        /\ Len(ReplyCells(r)) = ReplyLen(r)
        /\ ReplyCells(r)[1].m = r
    BY <1>16, ReplyCellsType, FirstCell
  <2>2. ReplyLen(r) >= 1 /\ ReplyLen(r) \in Nat
    BY LenAssumption DEF ReplyLen
  <2>3. \A i \in DOMAIN ReplyCells(r) : ReplyCells(r)[i].m = r
    BY DEF ReplyCells
  <2>4. ReplyCells(r) # << >>
    BY <2>1, <2>2, EmptySeq
  <2>. QED  BY <2>1, <2>3, <2>4
<1>20. ASSUME p \notin gone PROVE Phase(p)'
  <2>1. s2c[c] = << >> /\ reply[c] = None
    BY <1>7, <1>20 DEF Sent
  <2>2. s2c'[c] = ReplyCells(r)
    BY <1>2, <1>17, <1>19, <2>1, ConcatEmpty
  <2>3. Told(c, m)'
    BY <1>2, <1>16, <1>17, <1>18, <1>19, <2>1, <2>2 DEF Told, client, equStruct
  <2>4. /\ frames'[p] = <<m>> /\ msg'[c] = m /\ buffer'[c] = << >>
    BY <1>7, <1>18, <1>20 DEF client, equStruct
  <2>5. frames'[p][1] = m
    BY <2>4
  <2>. QED  BY <1>1, <1>8, <2>3, <2>4, <2>5 DEF Phase
<1>21. ASSUME p \in gone PROVE Leftover(p)'
  <2>1. \A i \in DOMAIN s2c[c] : s2c[c][i].m.req # None /\ s2c[c][i].m.req.src = c
    BY <1>1, <1>6, <1>21 DEF PhaseInv, Leftover
  <2>2. r.req # None /\ r.req.src = c
    BY <1>8, <1>9, <1>16, ProcAssumption DEF AnswerTo, Asking
  <2>3. \A i \in DOMAIN (s2c[c] \o ReplyCells(r)) :
           (s2c[c] \o ReplyCells(r))[i].m.req # None
             /\ (s2c[c] \o ReplyCells(r))[i].m.req.src = c
    <3>1. \A s \in Seq(ReplyCell) : \A t \in Seq(ReplyCell) :
             \A i \in DOMAIN (s \o t) :
                (i \in DOMAIN s /\ (s \o t)[i] = s[i])
                  \/ (i - Len(s) \in DOMAIN t /\ (s \o t)[i] = t[i - Len(s)])
      BY ConcatProperties, LenProperties
    <3>. QED  BY <1>2, <1>19, <2>1, <2>2, <3>1
  <2>4. s2c'[c] = s2c[c] \o ReplyCells(r) /\ c2s'[c] = << >>
    BY <1>2, <1>17
  <2>. QED  BY <1>1, <2>3, <2>4 DEF Leftover
<1>22. ASSUME NEW q \in Procs \ {p}
       PROVE  (Phase(q) => Phase(q)') /\ (Leftover(q) => Leftover(q)')
  <2>1. FirstOf[q] \in Conns /\ FirstOf[q] # c
    BY <1>22, ProcAssumption
  <2>2. c2s'[FirstOf[q]] = c2s[FirstOf[q]] /\ s2c'[FirstOf[q]] = s2c[FirstOf[q]]
    BY <1>2, <1>17, <2>1
  <2>. QED  BY <1>18, <2>1, <2>2, PhaseKept, LeftoverKept DEF client, equStruct
<1>23. CallGetsItsAnswer' /\ equd' = << >> /\ fault' = {} /\ dangling' = {} /\ gone' = gone
  BY <1>6, <1>17, <1>18 DEF client, equStruct, PhaseInv, CallGetsItsAnswer
<1>24. \A q \in Procs \ gone : Phase(q)'
  BY <1>6, <1>20, <1>22 DEF PhaseInv
<1>25. \A q \in gone : Leftover(q)'
  BY <1>2, <1>6, <1>21, <1>22 DEF PhaseInv
<1>. QED  BY <1>17, <1>23, <1>24, <1>25 DEF PhaseInv

\* What a phase says of a process that waits.
LEMMA WaitingPhase ==
    ASSUME TypeOK, NEW p \in Procs, Phase(p), frames[p] # << >>
    PROVE  \E m \in Message :
             /\ frames[p] = <<m>>
             /\ msg[FirstOf[p]] = m
             /\ Asking(FirstOf[p], m)
             /\ \/ Sent(FirstOf[p], m) \/ Told(FirstOf[p], m) \/ Got(FirstOf[p], m)
                \/ Quiet(FirstOf[p]) /\ ~up
<1>1. frames[p] \in Seq(Message)
  BY DEF TypeOK, ClientTypeOK
<1>2. frames[p] = <<frames[p][1]>>
  BY DEF Phase
<1>3. frames[p][1] \in Message
  BY <1>1, <1>2, ElementOfSeq
<1>. QED  BY <1>2, <1>3 DEF Phase

\* A call begins in an idle process and leaves its request on the way.
LEMMA AskInv ==
    ASSUME PlainUse, IInv, NEW p \in Procs, Ask(p)
    PROVE  PhaseInv'
<1>1. PICK c \in Conns, name \in Requests : Call(p, c, name)
  BY DEF Ask
<1>2. c = FirstOf[p] /\ name \in Handled /\ name \in RequestNames
  BY <1>1, OneConnection, HandledRequests DEF Call
<1>3. /\ c2s \in [Conns -> Seq(MessageCell)]
      /\ frames \in [Procs -> Seq(Message)]
      /\ msg \in [Conns -> Message \cup {None}]
      /\ ids \in [Procs -> Nat]
      /\ gone \in SUBSET Procs
  BY DEF IInv, TypeOK, TransportTypeOK, ClientTypeOK
<1>4. PICK m : m = [src |-> c, id |-> ids[p], type |-> TypeOf(name)]
  OBVIOUS
<1>5. m \in Message /\ Asking(c, m)
  BY <1>2, <1>3, <1>4, TypeOfName DEF Message, RequestTypes, Asking
<1>6. PhaseInv /\ p \notin gone /\ Phase(p)
  BY <1>1 DEF IInv, PhaseInv, Call, Running
<1>7. frames[p] = << >> /\ Quiet(c) /\ buffer[c] = << >>
  <2>1. Len(frames[p]) < 1
    BY <1>1 DEF Call, PlainUse
  <2>2. frames[p] = << >>
    BY <1>3, <2>1, EmptySeq
  <2>3. frames[p] # <<frames[p][1]>>
    BY <2>2
  <2>. QED  BY <1>2, <1>6, <2>2, <2>3 DEF Phase
<1>8. /\ frames' = [frames EXCEPT ![p] = <<m>>]
      /\ msg' = [msg EXCEPT ![c] = m]
      /\ c2s' = [c2s EXCEPT ![c] = MessageCells(m)]
      /\ UNCHANGED <<reply, rbody, freed, buffer, dangling, result, fault, gone, s2c, equd, up>>
  <2>1. MessageCells(m) \in Seq(MessageCell)
    BY <1>5, MessageCellsType
  <2>2. << >> \o MessageCells(m) = MessageCells(m)
    BY <2>1, ConcatEmpty
  <2>3. Append(<< >>, m) = <<m>>
    OBVIOUS
  <2>4. c2s[c] = << >>
    BY <1>7 DEF Quiet
  <2>. QED  BY <1>1, <1>4, <1>7, <2>2, <2>3, <2>4, <1>3 DEF Call, Ask, server
<1>9. Phase(p)'
  <2>1. Sent(c, m)'
    BY <1>3, <1>7, <1>8 DEF Sent, Quiet
  <2>2. frames'[p] = <<m>> /\ frames'[p][1] = m /\ msg'[c] = m /\ buffer'[c] = << >>
    BY <1>3, <1>7, <1>8
  <2>. QED  BY <1>2, <1>5, <2>1, <2>2 DEF Phase
<1>10. ASSUME NEW q \in Procs \ {p}
       PROVE  (Phase(q) => Phase(q)') /\ (Leftover(q) => Leftover(q)')
  <2>1. FirstOf[q] \in Conns /\ FirstOf[q] # c
    BY <1>2, <1>10, ProcAssumption
  <2>2. /\ c2s'[FirstOf[q]] = c2s[FirstOf[q]] /\ msg'[FirstOf[q]] = msg[FirstOf[q]]
        /\ frames'[q] = frames[q]
    BY <1>3, <1>8, <1>10, <2>1
  <2>. QED  BY <1>8, <2>1, <2>2, PhaseKept, LeftoverKept
<1>11. CallGetsItsAnswer' /\ equd' = << >> /\ fault' = {} /\ dangling' = {} /\ gone' = gone
  BY <1>6, <1>8 DEF PhaseInv, CallGetsItsAnswer
<1>12. \A q \in Procs \ gone : Phase(q)'
  BY <1>6, <1>9, <1>10 DEF PhaseInv
<1>13. \A q \in gone : Leftover(q)'
  BY <1>3, <1>6, <1>10 DEF PhaseInv
<1>. QED  BY <1>11, <1>12, <1>13 DEF PhaseInv

\* The one reply a waiting process can receive is whole and its own.
LEMMA ReceiveStep ==
    ASSUME PlainUse, IInv, NEW p \in Procs, Receive(p)
    PROVE  \E c \in Conns, m \in Message, r \in Reply :
             /\ c = FirstOf[p]
             /\ p \notin gone /\ frames[p] = <<m>> /\ msg[c] = m /\ Asking(c, m)
             /\ Told(c, m) /\ AnswerTo(m, r) /\ r = s2c[c][1].m
             /\ s2c' = [s2c EXCEPT ![c] = << >>]
             /\ reply' = [reply EXCEPT ![c] = Copied(r)]
             /\ buffer' = [buffer EXCEPT ![c] = << >>]
             /\ UNCHANGED <<msg, dangling, fault>>
             /\ IF r.size
                THEN /\ rbody' = [rbody EXCEPT ![c] = m]
                     /\ freed' = freed \ {c}
                ELSE UNCHANGED <<rbody, freed>>
             /\ UNCHANGED <<frames, result, gone, c2s, up, equd>>
<1>0. PICK c \in Conns : \E n \in 1..Len(s2c[c]) :
         \/ ReplyDropped(p, c, n)
         \/ ReplyIntoFreed(p, c, n)
         \/ ReplyPartial(p, c, n)
         \/ ReplyFull(p, c, n)
         \/ ReplyGarbage(p, c, n)
  BY DEF Receive, ServerData
<1>1. PICK n \in 1..Len(s2c[c]) :
         \/ ReplyDropped(p, c, n)
         \/ ReplyIntoFreed(p, c, n)
         \/ ReplyPartial(p, c, n)
         \/ ReplyFull(p, c, n)
         \/ ReplyGarbage(p, c, n)
  BY <1>0
<1>2. Arrived(p, c, n)
  BY <1>1 DEF ReplyDropped, ReplyIntoFreed, ReplyPartial, ReplyFull, ReplyGarbage
<1>3. /\ c = FirstOf[p]
      /\ p \notin gone /\ frames[p] # << >>
      /\ n \in Reads(s2c[c], SplitReplies)
  BY <1>2, OneConnection DEF Arrived, Running
<1>4. /\ s2c \in [Conns -> Seq(ReplyCell)]
      /\ buffer \in [Conns -> Seq(ReplyCell)]
      /\ reply \in [Conns -> Header \cup {None}]
      /\ rbody \in [Conns -> Message \cup {None}]
      /\ freed \in SUBSET Conns
      /\ gone \in SUBSET Procs
  BY DEF IInv, TypeOK, TransportTypeOK, ClientTypeOK
<1>5. PhaseInv /\ TypeOK /\ Phase(p)
  BY <1>3 DEF IInv, PhaseInv
<1>6. PICK m \in Message :
         /\ frames[p] = <<m>>
         /\ msg[c] = m
         /\ Asking(c, m)
         /\ Sent(c, m) \/ Told(c, m) \/ Got(c, m) \/ (Quiet(c) /\ ~up)
  BY <1>3, <1>5, WaitingPhase
<1>7. s2c[c] # << >>
  BY <1>1, <1>4, EmptySeq
<1>8. Told(c, m)
  BY <1>6, <1>7 DEF Sent, Got, Quiet
<1>9. PICK r : r = s2c[c][1].m
  OBVIOUS
<1>10. r \in Reply /\ s2c[c] = ReplyCells(r) /\ AnswerTo(m, r)
  <2>1. 1 \in 1..Len(s2c[c])
    BY <1>1, <1>4
  <2>2. s2c[c][1] \in ReplyCell
    BY <1>4, <2>1, ElementOfSeq
  <2>3. s2c[c][1].at = 1
    BY <1>8, FirstCell DEF Told
  <2>. QED  BY <1>8, <1>9, <2>2, <2>3, CellType DEF Told
<1>11. n = Len(s2c[c])
  BY <1>3, <1>10, WholeReply DEF PlainUse
<1>12. Take(s2c[c], n) = s2c[c] /\ Drop(s2c[c], n) = << >>
  BY <1>4, <1>11, TakeAll
<1>13. Joined(p, c, n) = ReplyCells(r) /\ buffer[c] = << >>
  <2>1. buffer[c] = << >>
    BY <1>3, <1>5 DEF Phase
  <2>. QED  BY <1>3, <1>4, <1>10, <1>12, <2>1, ConcatEmpty DEF Joined
<1>14. /\ StartsWithHeader(ReplyCells(r))
       /\ BodyFollows(ReplyCells(r), ReplyLen(r))
       /\ Len(ReplyCells(r)) = ReplyLen(r)
       /\ ReplyLen(r) >= HdrLen
       /\ ReplyLen(r) \in Nat
       /\ ReplyCells(r)[1].m = r
       /\ Shift(ReplyCells(r), ReplyLen(r)) = << >>
  <2>1. Len(ReplyCells(r)) = ReplyLen(r)
    BY <1>10, ReplyCellsType
  <2>2. ReplyLen(r) \in Nat
    BY LenAssumption DEF ReplyLen
  <2>3. Shift(ReplyCells(r), ReplyLen(r)) = << >>
    BY <2>1, <2>2 DEF Shift
  <2>. QED  BY <1>10, <2>2, <2>3, ReplyHeads
<1>15. ReplyFull(p, c, n)
  <2>1. ~ReplyDropped(p, c, n)
    BY <1>3, <1>6, ProcAssumption DEF ReplyDropped
  <2>2. ~ReplyIntoFreed(p, c, n)
    BY <1>5 DEF ReplyIntoFreed, PhaseInv
  <2>3. ~ReplyPartial(p, c, n)
    BY <1>13, <1>14, LenAssumption DEF ReplyPartial
  <2>4. ~ReplyGarbage(p, c, n)
    BY <1>13, <1>14 DEF ReplyGarbage
  <2>. QED  BY <1>1, <2>1, <2>2, <2>3, <2>4
<1>16. /\ reply' = [reply EXCEPT ![c] = Copied(r)]
       /\ buffer' = [buffer EXCEPT ![c] = << >>]
       /\ UNCHANGED <<msg, dangling, fault>>
       /\ IF r.size
          THEN /\ rbody' = [rbody EXCEPT ![c] = m]
               /\ freed' = freed \ {c}
          ELSE UNCHANGED <<rbody, freed>>
  <2>1. r.req = m /\ m # None
    BY <1>10, ProcAssumption DEF AnswerTo
  <2>. QED  BY <1>3, <1>6, <1>13, <1>14, <1>15, <2>1 DEF ReplyFull, Decoded
<1>17. /\ s2c' = [s2c EXCEPT ![c] = << >>]
       /\ UNCHANGED <<frames, result, gone, c2s, up, equd>>
  BY <1>2, <1>12 DEF Arrived, Receive, server
<1>. QED
  BY <1>3, <1>6, <1>8, <1>9, <1>10, <1>16, <1>17

\* The reply moves from the stream into the struct, and the phase with it.
LEMMA ReceiveInv ==
    ASSUME PlainUse, IInv, NEW p \in Procs, Receive(p)
    PROVE  PhaseInv'
<1>s. PICK c \in Conns, m \in Message, r \in Reply :
         /\ c = FirstOf[p]
         /\ p \notin gone /\ frames[p] = <<m>> /\ msg[c] = m /\ Asking(c, m)
         /\ Told(c, m) /\ AnswerTo(m, r) /\ r = s2c[c][1].m
         /\ s2c' = [s2c EXCEPT ![c] = << >>]
         /\ reply' = [reply EXCEPT ![c] = Copied(r)]
         /\ buffer' = [buffer EXCEPT ![c] = << >>]
         /\ UNCHANGED <<msg, dangling, fault>>
         /\ IF r.size
            THEN /\ rbody' = [rbody EXCEPT ![c] = m]
                 /\ freed' = freed \ {c}
            ELSE UNCHANGED <<rbody, freed>>
         /\ UNCHANGED <<frames, result, gone, c2s, up, equd>>
  BY ReceiveStep
<1>3. c = FirstOf[p] /\ p \notin gone
  BY <1>s
<1>4. /\ s2c \in [Conns -> Seq(ReplyCell)]
      /\ buffer \in [Conns -> Seq(ReplyCell)]
      /\ reply \in [Conns -> Header \cup {None}]
      /\ rbody \in [Conns -> Message \cup {None}]
      /\ freed \in SUBSET Conns
      /\ gone \in SUBSET Procs
  BY DEF IInv, TypeOK, TransportTypeOK, ClientTypeOK
<1>5. PhaseInv
  BY DEF IInv
<1>6. frames[p] = <<m>> /\ msg[c] = m /\ Asking(c, m)
  BY <1>s
<1>8. Told(c, m)
  BY <1>s
<1>10. r \in Reply /\ AnswerTo(m, r)
  BY <1>s
<1>16. /\ reply' = [reply EXCEPT ![c] = Copied(r)]
       /\ buffer' = [buffer EXCEPT ![c] = << >>]
       /\ UNCHANGED <<msg, dangling, fault>>
       /\ IF r.size
          THEN /\ rbody' = [rbody EXCEPT ![c] = m]
               /\ freed' = freed \ {c}
          ELSE UNCHANGED <<rbody, freed>>
  BY <1>s
<1>17. /\ s2c' = [s2c EXCEPT ![c] = << >>]
       /\ UNCHANGED <<frames, result, gone, c2s, up, equd>>
  BY <1>s
<1>18. Phase(p)'
  <2>1. /\ reply'[c] = [hdr |-> r, inBuffer |-> FALSE]
        /\ r.size => rbody'[c] = m /\ c \notin freed'
        /\ c2s'[c] = << >> /\ s2c'[c] = << >> /\ buffer'[c] = << >>
    BY <1>4, <1>8, <1>16, <1>17 DEF Told, Copied
  <2>2. [hdr |-> r, inBuffer |-> FALSE] # None
    <3>1. [hdr |-> r, inBuffer |-> FALSE] \in Header
      BY <1>10 DEF Header
    <3>. QED  BY <3>1, ProcAssumption
  <2>3. Got(c, m)'
    BY <1>10, <2>1, <2>2 DEF Got
  <2>4. frames'[p] = <<m>> /\ frames'[p][1] = m /\ msg'[c] = m
    BY <1>6, <1>16, <1>17
  <2>. QED  BY <1>3, <1>6, <2>1, <2>3, <2>4 DEF Phase
<1>19. ASSUME NEW q \in Procs \ {p}
       PROVE  (Phase(q) => Phase(q)') /\ (Leftover(q) => Leftover(q)')
  <2>1. FirstOf[q] \in Conns /\ FirstOf[q] # c
    BY <1>3, <1>19, ProcAssumption
  <2>2. /\ s2c'[FirstOf[q]] = s2c[FirstOf[q]] /\ reply'[FirstOf[q]] = reply[FirstOf[q]]
        /\ rbody'[FirstOf[q]] = rbody[FirstOf[q]] /\ buffer'[FirstOf[q]] = buffer[FirstOf[q]]
        /\ FirstOf[q] \in freed' <=> FirstOf[q] \in freed
    BY <1>4, <1>16, <1>17, <2>1
  <2>. QED  BY <1>16, <1>17, <2>1, <2>2, PhaseKept, LeftoverKept
<1>20. CallGetsItsAnswer' /\ equd' = << >> /\ fault' = {} /\ dangling' = {} /\ gone' = gone
  BY <1>5, <1>16, <1>17 DEF PhaseInv, CallGetsItsAnswer
<1>21. \A q \in Procs \ gone : Phase(q)'
  BY <1>5, <1>18, <1>19 DEF PhaseInv
<1>22. \A q \in gone : Leftover(q)'
  BY <1>3, <1>4, <1>5, <1>19 DEF PhaseInv
<1>. QED  BY <1>20, <1>21, <1>22 DEF PhaseInv

\* A call returns with the answer it was waiting for and leaves nothing.
LEMMA ReturnStep ==
    ASSUME PlainUse, IInv, NEW p \in Procs, Answered(p)
    PROVE  \E m \in Message : \E h :
             /\ p \notin gone /\ frames[p] = <<m>>
             /\ Got(FirstOf[p], m) /\ h = reply[FirstOf[p]].hdr /\ AnswerTo(m, h)
             /\ dangling' = dangling
             /\ reply' = [reply EXCEPT ![FirstOf[p]] = None]
             /\ msg' = [msg EXCEPT ![FirstOf[p]] = None]
             /\ result' = [result EXCEPT ![p] =
                  [call |-> m, answers |-> m, id |-> m.id, error |-> h.error,
                   body |-> IF h.error = NONE THEN m ELSE None]]
             /\ fault' = fault
             /\ freed' \in {freed, freed \cup {FirstOf[p]}}
             /\ frames' = [frames EXCEPT ![p] = << >>]
             /\ UNCHANGED <<rbody, buffer, gone, c2s, s2c, equd, up>>
<1>. DEFINE c == FirstOf[p]
<1>1. Return(p) /\ UNCHANGED server
  BY DEF Answered
<1>2. p \notin gone /\ frames[p] # << >>
  BY <1>1 DEF Return, Running
<1>3. /\ reply \in [Conns -> Header \cup {None}]
      /\ rbody \in [Conns -> Message \cup {None}]
      /\ msg \in [Conns -> Message \cup {None}]
      /\ frames \in [Procs -> Seq(Message)]
      /\ result \in [Procs -> Result \cup {None}]
      /\ freed \in SUBSET Conns
      /\ gone \in SUBSET Procs
      /\ c \in Conns
  BY ProcAssumption DEF IInv, TypeOK, ClientTypeOK
<1>4. PhaseInv /\ TypeOK /\ Phase(p)
  BY <1>2 DEF IInv, PhaseInv
<1>5. PICK m \in Message :
         /\ frames[p] = <<m>>
         /\ msg[c] = m
         /\ Asking(c, m)
         /\ Sent(c, m) \/ Told(c, m) \/ Got(c, m) \/ (Quiet(c) /\ ~up)
  BY <1>2, <1>4, WaitingPhase
<1>6. frames[p][Len(frames[p])] = m /\ m.src = c
  BY <1>5 DEF Asking
<1>7. Got(c, m)
  BY <1>1, <1>5, <1>6 DEF Return, Sent, Told, Quiet
<1>8. PICK h : h = reply[c].hdr
  OBVIOUS
<1>9. h.req = m /\ h.id = m.id /\ (h.error = NONE <=> h.size) /\ ~reply[c].inBuffer
  BY <1>7, <1>8 DEF Got, AnswerTo
<1>10. h.error = NONE => rbody[c] = m /\ c \notin freed /\ m # None
  BY <1>7, <1>8, <1>9, ProcAssumption DEF Got
<1>11. Take(frames[p], Len(frames[p]) - 1) = << >>
  <2>1. Len(frames[p]) - 1 = 0
    BY <1>5
  <2>. QED  BY <1>3, <2>1, TakeAll
<1>12. /\ dangling' = dangling
       /\ reply' = [reply EXCEPT ![c] = None]
       /\ msg' = [msg EXCEPT ![c] = None]
       /\ result' = [result EXCEPT ![p] =
            [call |-> m, answers |-> m, id |-> m.id, error |-> h.error,
             body |-> IF h.error = NONE THEN m ELSE None]]
       /\ fault' = fault
       /\ freed' \in {freed, freed \cup {c}}
       /\ frames' = [frames EXCEPT ![p] = << >>]
       /\ UNCHANGED <<rbody, buffer, gone, c2s, s2c, equd, up>>
  BY <1>1, <1>6, <1>8, <1>9, <1>10, <1>11 DEF Return, transport, server
<1>. QED
  BY <1>2, <1>5, <1>7, <1>8, <1>12 DEF Got

\* The connection is as it was before the call.
LEMMA ReturnInv ==
    ASSUME PlainUse, IInv, NEW p \in Procs, Answered(p)
    PROVE  PhaseInv'
<1>. DEFINE c == FirstOf[p]
<1>3. /\ reply \in [Conns -> Header \cup {None}]
      /\ msg \in [Conns -> Message \cup {None}]
      /\ frames \in [Procs -> Seq(Message)]
      /\ result \in [Procs -> Result \cup {None}]
      /\ freed \in SUBSET Conns
      /\ gone \in SUBSET Procs
      /\ c \in Conns
  BY ProcAssumption DEF IInv, TypeOK, ClientTypeOK
<1>s. PICK m \in Message : \E h :
         /\ p \notin gone
         /\ Got(c, m)
         /\ dangling' = dangling
         /\ reply' = [reply EXCEPT ![c] = None]
         /\ msg' = [msg EXCEPT ![c] = None]
         /\ result' = [result EXCEPT ![p] =
              [call |-> m, answers |-> m, id |-> m.id, error |-> h.error,
               body |-> IF h.error = NONE THEN m ELSE None]]
         /\ fault' = fault
         /\ freed' \in {freed, freed \cup {c}}
         /\ frames' = [frames EXCEPT ![p] = << >>]
         /\ UNCHANGED <<rbody, buffer, gone, c2s, s2c, equd, up>>
  BY ReturnStep
<1>t. PICK h : result' = [result EXCEPT ![p] =
            [call |-> m, answers |-> m, id |-> m.id, error |-> h.error,
             body |-> IF h.error = NONE THEN m ELSE None]]
  BY <1>s
<1>2. p \notin gone
  BY <1>s
<1>4. PhaseInv /\ Phase(p)
  BY <1>2 DEF IInv, PhaseInv
<1>7. Got(c, m)
  BY <1>s
<1>12. /\ dangling' = dangling
       /\ reply' = [reply EXCEPT ![c] = None]
       /\ msg' = [msg EXCEPT ![c] = None]
       /\ result' = [result EXCEPT ![p] =
            [call |-> m, answers |-> m, id |-> m.id, error |-> h.error,
             body |-> IF h.error = NONE THEN m ELSE None]]
       /\ fault' = fault
       /\ freed' \in {freed, freed \cup {c}}
       /\ frames' = [frames EXCEPT ![p] = << >>]
       /\ UNCHANGED <<rbody, buffer, gone, c2s, s2c, equd, up>>
  BY <1>s, <1>t
<1>13. Phase(p)'
  <2>1. frames'[p] = << >> /\ Quiet(c)'
    BY <1>3, <1>7, <1>12 DEF Got, Quiet
  <2>2. buffer'[c] = << >>
    BY <1>4, <1>12 DEF Phase
  <2>. QED  BY <2>1, <2>2 DEF Phase
<1>14. ASSUME NEW q \in Procs \ {p}
       PROVE  (Phase(q) => Phase(q)') /\ (Leftover(q) => Leftover(q)')
  <2>1. FirstOf[q] \in Conns /\ FirstOf[q] # c
    BY <1>14, ProcAssumption
  <2>2. /\ reply'[FirstOf[q]] = reply[FirstOf[q]] /\ msg'[FirstOf[q]] = msg[FirstOf[q]]
        /\ FirstOf[q] \in freed' <=> FirstOf[q] \in freed
        /\ frames'[q] = frames[q]
    BY <1>3, <1>12, <1>14, <2>1
  <2>. QED  BY <1>12, <2>1, <2>2, PhaseKept, LeftoverKept
<1>15. CallGetsItsAnswer'
  <2>1. /\ result'[p].answers = result'[p].call
        /\ result'[p].id = result'[p].call.id
        /\ result'[p].error = NONE => result'[p].body = result'[p].call
    BY <1>3, <1>12
  <2>2. \A q \in Procs \ {p} : result'[q] = result[q]
    BY <1>3, <1>12
  <2>3. CallGetsItsAnswer
    BY <1>4 DEF PhaseInv
  <2>. QED  BY <2>1, <2>2, <2>3 DEF CallGetsItsAnswer
<1>16. equd' = << >> /\ fault' = {} /\ dangling' = {} /\ gone' = gone
  BY <1>4, <1>12 DEF PhaseInv
<1>17. \A q \in Procs \ gone : Phase(q)'
  BY <1>4, <1>13, <1>14 DEF PhaseInv
<1>18. \A q \in gone : Leftover(q)'
  BY <1>2, <1>3, <1>4, <1>14 DEF PhaseInv
<1>. QED  BY <1>15, <1>16, <1>17, <1>18 DEF PhaseInv

\* What Cut does to one stream.
LEMMA CutForm ==
    ASSUME NEW st, NEW S, NEW f, NEW l, NEW st2 \in Cut(st, S, f, l), NEW c \in Conns
    PROVE  /\ c \in S => \E k \in {0} \cup Reads(st[c], f) : st2[c] = Take(st[c], k)
           /\ c \notin S => st2[c] = st[c]
<1>1. PICK k \in {g \in [S -> 0..l] : \A x \in S : g[x] \in {0} \cup Reads(st[x], f)} :
         st2 = [x \in Conns |-> IF x \in S THEN Take(st[x], k[x]) ELSE st[x]]
  BY DEF Cut
<1>. QED  BY <1>1

\* Of a stream that is empty or one whole message, nothing or all is read.
LEMMA WholeTake ==
    ASSUME NEW T, NEW s \in Seq(T), NEW f, NEW k \in {0} \cup Reads(s, f),
           \A n \in Reads(s, f) : n = Len(s)
    PROVE  Take(s, k) = << >> \/ Take(s, k) = s
BY TakeAll

\* Whatever is cut, what is left of a stream was in it.
LEMMA TakeKeeps ==
    ASSUME NEW T, NEW s \in Seq(T), NEW f, NEW k \in {0} \cup Reads(s, f)
    PROVE  \A i \in DOMAIN Take(s, k) : i \in DOMAIN s /\ Take(s, k)[i] = s[i]
<1>1. k \in 0..Len(s)
  BY ReadsRange, LenProperties
<1>2. /\ Take(s, k) \in Seq(T) /\ Len(Take(s, k)) = k
      /\ \A i \in 1..k : Take(s, k)[i] = s[i]
  BY <1>1, TakeType
<1>3. DOMAIN Take(s, k) = 1..k /\ DOMAIN s = 1..Len(s) /\ Len(s) \in Nat
  BY <1>2, LenProperties
<1>. QED  BY <1>1, <1>2, <1>3

\* A process that leaves takes its replies along; at most its request stays.
LEMMA LeaveInv ==
    ASSUME PlainUse, IInv, NEW p \in Procs, Leave(p)
    PROVE  PhaseInv'
<1>. DEFINE c == FirstOf[p]
<1>1. /\ p \notin gone /\ gone' = gone \cup {p}
      /\ c2s' \in Cut(c2s, ConnsOf(p), SplitRequests, Longest)
      /\ s2c' = [x \in Conns |-> IF x \in ConnsOf(p) THEN << >> ELSE s2c[x]]
      /\ UNCHANGED <<frames, ids, equStruct, result, fault, server>>
  BY DEF Leave, Exit
<1>cut. c2s' \in Cut(c2s, ConnsOf(p), SplitRequests, Longest)
  BY <1>1
<1>2. ConnsOf(p) = {c} /\ c \in Conns /\ ConnsOf(p) \in SUBSET Conns /\ c \in ConnsOf(p)
  BY OneConnection, ProcAssumption DEF ConnsOf
<1>3. /\ c2s \in [Conns -> Seq(MessageCell)]
      /\ gone \in SUBSET Procs
  BY DEF IInv, TypeOK, TransportTypeOK, ClientTypeOK
<1>4. PhaseInv /\ TypeOK /\ Phase(p)
  BY <1>1 DEF IInv, PhaseInv
<1>5. \/ c2s[c] = << >>
      \/ \E m \in Message : c2s[c] = MessageCells(m) /\ Asking(c, m)
  <2>1. CASE frames[p] = << >>
    <3>1. frames[p] # <<frames[p][1]>>
      BY <2>1
    <3>. QED  BY <1>4, <3>1 DEF Phase, Quiet
  <2>2. CASE frames[p] # << >>
    BY <1>4, <2>2, WaitingPhase DEF Sent, Told, Got, Quiet
  <2>. QED  BY <2>1, <2>2
<1>6. c2s'[c] = << >> \/ c2s'[c] = c2s[c]
  <2>1. \A n \in Reads(c2s[c], SplitRequests) : n = Len(c2s[c])
    BY <1>5, WholeMessage, NothingToRead DEF PlainUse
  <2>2. PICK k \in {0} \cup Reads(c2s[c], SplitRequests) : c2s'[c] = Take(c2s[c], k)
    BY <1>cut, <1>2, CutForm
  <2>. QED  BY <1>2, <1>3, <2>1, <2>2, WholeTake
<1>7. Leftover(p)'
  <2>1. s2c'[c] = << >>
    BY <1>1, <1>2
  <2>2. c2s'[c] = << >> \/ (c2s'[c] = MessageCells(c2s'[c][1].m) /\ Asking(c, c2s'[c][1].m))
    BY <1>5, <1>6, FirstCell
  <2>3. DOMAIN << >> = {}
    OBVIOUS
  <2>. QED  BY <2>1, <2>2, <2>3 DEF Leftover
<1>8. ASSUME NEW q \in Procs \ {p}
      PROVE  (Phase(q) => Phase(q)') /\ (Leftover(q) => Leftover(q)')
  <2>1. FirstOf[q] \in Conns /\ FirstOf[q] \notin ConnsOf(p)
    BY <1>2, <1>8, ProcAssumption
  <2>2. c2s'[FirstOf[q]] = c2s[FirstOf[q]]
    BY <1>cut, <2>1, CutForm
  <2>3. s2c'[FirstOf[q]] = s2c[FirstOf[q]]
    BY <1>1, <2>1
  <2>. QED  BY <1>1, <2>1, <2>2, <2>3, PhaseKept, LeftoverKept DEF equStruct, server
<1>9. CallGetsItsAnswer' /\ equd' = << >> /\ fault' = {} /\ dangling' = {}
  BY <1>1, <1>4 DEF equStruct, server, PhaseInv, CallGetsItsAnswer
<1>10. \A q \in Procs \ gone' : Phase(q)'
  BY <1>1, <1>4, <1>8 DEF PhaseInv
<1>11. \A q \in gone' : Leftover(q)'
  BY <1>1, <1>3, <1>4, <1>7, <1>8 DEF PhaseInv
<1>. QED  BY <1>9, <1>10, <1>11 DEF PhaseInv

\* When the daemon stops a reply may still arrive, and nothing else.
LEMMA StopInv ==
    ASSUME PlainUse, IInv, Stop
    PROVE  PhaseInv'
<1>1. /\ ~up' /\ equd' = << >>
      /\ c2s' = [x \in Conns |-> << >>]
      /\ s2c' \in Cut(s2c, Conns, SplitReplies, Longest)
      /\ UNCHANGED <<frames, ids, equStruct, result, fault, gone>>
      /\ Conns \in SUBSET Conns
  BY DEF Stop, ServerExit, client
<1>cut. s2c' \in Cut(s2c, Conns, SplitReplies, Longest)
  BY <1>1
<1>2. /\ s2c \in [Conns -> Seq(ReplyCell)]
      /\ gone \in SUBSET Procs
  BY DEF IInv, TypeOK, TransportTypeOK, ClientTypeOK
<1>3. PhaseInv /\ TypeOK
  BY DEF IInv
<1>4. ASSUME NEW p \in Procs \ gone
      PROVE  Phase(p)'
  <2>. DEFINE c == FirstOf[p]
  <2>1. Phase(p) /\ c \in Conns
    BY <1>3, ProcAssumption DEF PhaseInv
  <2>2. c2s'[c] = << >> /\ reply'[c] = reply[c] /\ buffer'[c] = << >>
    BY <1>1, <2>1 DEF equStruct, Phase
  <2>3. s2c[c] = << >> => s2c'[c] = << >>
    <3>1. s2c[c] = << >> => \A n \in Reads(s2c[c], SplitReplies) : n = Len(s2c[c])
      BY NothingToRead
    <3>2. PICK k \in {0} \cup Reads(s2c[c], SplitReplies) : s2c'[c] = Take(s2c[c], k)
      BY <1>cut, <2>1, CutForm
    <3>. QED  BY <1>2, <2>1, <3>1, <3>2, WholeTake
  <2>4. CASE frames[p] = << >>
    <3>1. frames[p] # <<frames[p][1]>>
      BY <2>4
    <3>2. Quiet(c)
      BY <2>1, <3>1 DEF Phase
    <3>. QED  BY <1>1, <2>2, <2>3, <2>4, <3>2 DEF Phase, Quiet
  <2>5. CASE frames[p] # << >>
    <3>1. PICK m \in Message :
             /\ frames[p] = <<m>>
             /\ msg[c] = m
             /\ Asking(c, m)
             /\ Sent(c, m) \/ Told(c, m) \/ Got(c, m) \/ (Quiet(c) /\ ~up)
      BY <1>3, <2>1, <2>5, WaitingPhase
    <3>2. Sent(c, m)' \/ Told(c, m)' \/ Got(c, m)' \/ (Quiet(c)' /\ ~up')
      <4>1. CASE Sent(c, m)
        BY <1>1, <2>2, <2>3, <4>1 DEF Sent, Quiet
      <4>2. CASE Got(c, m)
        BY <1>1, <2>2, <2>3, <4>2 DEF Got, equStruct
      <4>3. CASE Quiet(c) /\ ~up
        BY <1>1, <2>2, <2>3, <4>3 DEF Quiet
      <4>4. CASE Told(c, m)
        <5>1. s2c[c][1].m \in Reply
          <6>1. 1 \in 1..Len(s2c[c])
            BY <1>2, <2>1, <4>4, EmptySeq DEF Told
          <6>2. s2c[c][1] \in ReplyCell
            BY <1>2, <2>1, <6>1, ElementOfSeq
          <6>3. s2c[c][1].at = 1
            BY <4>4, FirstCell DEF Told
          <6>. QED  BY <6>2, <6>3, CellType
        <5>2. \A n \in Reads(s2c[c], SplitReplies) : n = Len(s2c[c])
          BY <4>4, <5>1, WholeReply DEF Told, PlainUse
        <5>3. s2c'[c] = << >> \/ s2c'[c] = s2c[c]
          <6>1. PICK k \in {0} \cup Reads(s2c[c], SplitReplies) : s2c'[c] = Take(s2c[c], k)
            BY <1>cut, <2>1, CutForm
          <6>. QED  BY <1>2, <2>1, <5>2, <6>1, WholeTake
        <5>. QED  BY <1>1, <2>2, <4>4, <5>3 DEF Told, Quiet
      <4>. QED  BY <3>1, <4>1, <4>2, <4>3, <4>4
    <3>3. frames'[p] = <<m>> /\ frames'[p][1] = m /\ msg'[c] = m
      BY <1>1, <3>1 DEF equStruct
    <3>. QED  BY <2>2, <3>1, <3>2, <3>3 DEF Phase
  <2>. QED  BY <2>4, <2>5
<1>5. ASSUME NEW p \in gone
      PROVE  Leftover(p)'
  <2>1. PICK c \in Conns : c = FirstOf[p]
    BY <1>2, ProcAssumption
  <2>2. PICK k \in {0} \cup Reads(s2c[c], SplitReplies) : s2c'[c] = Take(s2c[c], k)
    BY <1>cut, CutForm
  <2>3. s2c[c] \in Seq(ReplyCell)
    BY <1>2
  <2>4. \A i \in DOMAIN s2c'[c] : i \in DOMAIN s2c[c] /\ s2c'[c][i] = s2c[c][i]
    <3>1. \A i \in DOMAIN Take(s2c[c], k) :
             i \in DOMAIN s2c[c] /\ Take(s2c[c], k)[i] = s2c[c][i]
      BY <2>3, TakeKeeps
    <3>. QED  BY <2>2, <3>1
  <2>5. c2s'[c] = << >> /\ Leftover(p)
    BY <1>1, <1>3 DEF PhaseInv
  <2>. QED  BY <2>1, <2>4, <2>5 DEF Leftover
<1>6. CallGetsItsAnswer' /\ fault' = {} /\ dangling' = {} /\ gone' = gone
  BY <1>1, <1>3 DEF equStruct, PhaseInv, CallGetsItsAnswer
<1>. QED  BY <1>1, <1>4, <1>5, <1>6 DEF PhaseInv

\* Connecting, disconnecting and stuttering touch no stream and no struct.
LEMMA OtherInv ==
    ASSUME IInv,
           \/ \E c \in Conns : Connected(c) \/ Disconnected(c)
           \/ UNCHANGED vars
    PROVE  PhaseInv'
<1>1. UNCHANGED <<equd, up, transport, client>>
  BY DEF Connected, Disconnected, ClientAdd, ClientDel, vars, server
<1>2. PhaseInv /\ gone \in SUBSET Procs
  BY DEF IInv, TypeOK, ClientTypeOK
<1>3. ASSUME NEW p \in Procs
      PROVE  (Phase(p) => Phase(p)') /\ (Leftover(p) => Leftover(p)')
  <2>1. FirstOf[p] \in Conns
    BY ProcAssumption
  <2>. QED  BY <1>1, <2>1, PhaseKept, LeftoverKept DEF transport, client, equStruct
<1>. QED
  BY <1>1, <1>2, <1>3 DEF PhaseInv, client, equStruct, CallGetsItsAnswer

-----------------------------------------------------------------------------

LEMMA InductiveInv == ASSUME PlainUse PROVE Spec => []IInv
<1>1. Init => IInv
  BY InitInv
<1>2. IInv /\ [Next]_vars /\ TypeOK' => IInv'
  <2>. SUFFICES ASSUME IInv, [Next]_vars, TypeOK'
                PROVE  PhaseInv'
    BY DEF IInv
  <2>. QED
    BY ServeInv, AskInv, ReceiveInv, ReturnInv, LeaveInv, StopInv, OtherInv DEF Next
<1>3. Spec => []TypeOK
  BY TypeCorrect
<1>. QED  BY <1>1, <1>2, <1>3, PTL DEF Spec

\* Under plain use the daemon's buffer is empty between events and every waiting
\* call is in one of the phases sent, told, got or abandoned, for any number of
\* processes, and whoever leaves or stops.
THEOREM PhasesHold == ASSUME PlainUse PROVE Spec => []PhaseInv
<1>1. IInv => PhaseInv
  BY DEF IInv
<1>. QED  BY <1>1, InductiveInv, PTL

\* Under plain use a call that returns has the daemon's answer to itself, with
\* its id and its body, and no client touches a freed block or a missing body,
\* for any number of processes, and whoever leaves or stops.
THEOREM CallsAnswered ==
    ASSUME PlainUse PROVE Spec => [](CallGetsItsAnswer /\ NoFault)
<1>1. IInv => CallGetsItsAnswer /\ NoFault
  BY DEF IInv, PhaseInv, NoFault
<1>. QED  BY <1>1, InductiveInv, PTL

\* Under plain use no client reads a body it was not given, one it freed or a
\* freed buffer.
THEOREM NoClientFaults == ASSUME PlainUse PROVE Spec => []NoFault
<1>1. IInv => NoFault
  BY DEF IInv, PhaseInv, NoFault
<1>. QED  BY <1>1, InductiveInv, PTL

\* Under plain use what travels to a connection answers a request made on it,
\* although the daemon keeps one buffer for all of them.
THEOREM RepliesRouted ==
    ASSUME PlainUse PROVE Spec => []RepliesToOwnRequests
<1>1. IInv => RepliesToOwnRequests
  <2>. SUFFICES ASSUME IInv, NEW c \in Conns, NEW i \in DOMAIN s2c[c]
                PROVE  s2c[c][i].m.req # None /\ s2c[c][i].m.req.src = c
    BY DEF RepliesToOwnRequests
  <2>. DEFINE p == ProcOf[c]
  <2>1. p \in Procs /\ FirstOf[p] = c
    BY OneConnection, ProcAssumption
  <2>2. CASE p \in gone
    BY <2>1, <2>2 DEF IInv, PhaseInv, Leftover
  <2>3. CASE p \notin gone
    <3>1. Phase(p) /\ TypeOK
      BY <2>1, <2>3 DEF IInv, PhaseInv
    <3>2. s2c[c] # << >>
      OBVIOUS
    <3>3. frames[p] # << >>
      <4>1. CASE frames[p] = << >>
        <5>1. frames[p] # <<frames[p][1]>>
          BY <4>1
        <5>. QED  BY <2>1, <3>1, <3>2, <5>1 DEF Phase, Quiet
      <4>. QED  BY <4>1
    <3>4. PICK m \in Message :
             /\ Asking(c, m)
             /\ Sent(c, m) \/ Told(c, m) \/ Got(c, m) \/ (Quiet(c) /\ ~up)
      BY <2>1, <3>1, <3>3, WaitingPhase
    <3>5. Told(c, m)
      BY <3>2, <3>4 DEF Sent, Got, Quiet
    <3>6. PICK r : r = s2c[c][1].m
      OBVIOUS
    <3>7. s2c[c] = ReplyCells(r) /\ r.req = m
      BY <3>5, <3>6 DEF Told, AnswerTo
    <3>8. s2c[c][i].m = r
      BY <3>7 DEF ReplyCells
    <3>. QED  BY <3>4, <3>7, <3>8, ProcAssumption DEF Asking
  <2>. QED  BY <2>2, <2>3
<1>. QED  BY <1>1, InductiveInv, PTL
=============================================================================
