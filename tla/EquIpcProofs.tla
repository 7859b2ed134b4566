---------------------------- MODULE EquIpcProofs ----------------------------
(***************************************************************************)
(* Theorems about EquIpc, for every set of connections and processes and   *)
(* every way the streams are cut.                                          *)
(***************************************************************************)
EXTENDS EquIpc, SequenceTheorems, TLAPS

-----------------------------------------------------------------------------
(* The stream operators.                                                   *)

LEMMA TakeType ==
    ASSUME NEW S, NEW s \in Seq(S), NEW n \in 0..Len(s)
    PROVE  /\ Take(s, n) \in Seq(S)
           /\ Len(Take(s, n)) = n
           /\ \A i \in 1..n : Take(s, n)[i] = s[i]
<1>1. \A i \in 1..n : s[i] \in S
  BY ElementOfSeq, LenProperties
<1>2. n \in Int /\ 1 \in Int
  BY LenProperties
<1>. QED  BY <1>1, <1>2, SubSeqProperties DEF Take

LEMMA DropType ==
    ASSUME NEW S, NEW s \in Seq(S), NEW n \in 0..Len(s)
    PROVE  /\ Drop(s, n) \in Seq(S)
           /\ Len(Drop(s, n)) = Len(s) - n
           /\ n = Len(s) => Drop(s, n) = << >>
<1>1. \A i \in n + 1..Len(s) : s[i] \in S
  BY ElementOfSeq, LenProperties
<1>2. n \in Int /\ n + 1 \in Int /\ Len(s) \in Int
  BY LenProperties
<1>3. /\ SubSeq(s, n + 1, Len(s)) \in Seq(S)
      /\ Len(SubSeq(s, n + 1, Len(s))) = IF n + 1 <= Len(s) THEN Len(s) - (n + 1) + 1 ELSE 0
  BY <1>1, <1>2, SubSeqProperties
<1>4. n = Len(s) => SubSeq(s, n + 1, Len(s)) = << >>
  BY <1>2, SubSeqEmpty
<1>. QED  BY <1>2, <1>3, <1>4 DEF Drop

LEMMA MessageCellsType ==
    ASSUME NEW m \in Message
    PROVE  /\ MessageCells(m) \in Seq(MessageCell)
           /\ Len(MessageCells(m)) = MessageLen
           /\ DOMAIN MessageCells(m) = 1..MessageLen
           /\ MessageCells(m)[1] = [m |-> m, at |-> 1]
<1>1. MessageLen \in Nat /\ MessageLen >= 1
  BY LenAssumption DEF MessageLen
<1>2. \A i \in 1..MessageLen : [m |-> m, at |-> i] \in MessageCell
  BY DEF MessageCell
<1>3. MessageCells(m) \in [1..MessageLen -> MessageCell]
  BY <1>2 DEF MessageCells
<1>. QED  BY <1>1, <1>3, SeqDef, LenProperties DEF MessageCells

LEMMA ReplyCellsType ==
    ASSUME NEW r \in Reply
    PROVE  /\ ReplyCells(r) \in Seq(ReplyCell)
           /\ Len(ReplyCells(r)) = ReplyLen(r)
           /\ DOMAIN ReplyCells(r) = 1..ReplyLen(r)
           /\ ReplyCells(r)[1] = [m |-> r, at |-> 1]
<1>1. ReplyLen(r) \in Nat /\ ReplyLen(r) >= 1 /\ ReplyLen(r) <= HdrLen + BodyLen
  BY LenAssumption DEF ReplyLen
<1>2. \A i \in 1..ReplyLen(r) : [m |-> r, at |-> i] \in ReplyCell
  BY <1>1, LenAssumption DEF ReplyCell
<1>3. ReplyCells(r) \in [1..ReplyLen(r) -> ReplyCell]
  BY <1>2 DEF ReplyCells
<1>. QED  BY <1>1, <1>3, SeqDef, LenProperties DEF ReplyCells

\* A cell at a place of its message is no junk.
LEMMA CellType ==
    /\ \A x \in MessageCell : x.at # 0 => x.m \in Message
    /\ \A x \in ReplyCell : x.at # 0 => x.m \in Reply
BY DEF MessageCell, ReplyCell, Junk

LEMMA HeadType ==
    /\ \A s \in Seq(MessageCell) : Len(s) >= HdrLen /\ StartsWithHeader(s) => s[1].m \in Message
    /\ \A s \in Seq(ReplyCell) : Len(s) >= HdrLen /\ StartsWithHeader(s) => s[1].m \in Reply
<1>1. ASSUME NEW S, NEW s \in Seq(S), Len(s) >= HdrLen, StartsWithHeader(s)
      PROVE  s[1] \in S /\ s[1].at = 1
  <2>1. 1 \in 1..HdrLen /\ 1 \in 1..Len(s)
    BY <1>1, LenAssumption, LenProperties
  <2>2. s[1] = [m |-> s[1].m, at |-> 1]
    BY <1>1, <2>1 DEF StartsWithHeader
  <2>3. s[1].at = 1
    BY <2>2
  <2>. QED  BY <1>1, <2>1, <2>3, ElementOfSeq
<1>. QED  BY <1>1, CellType

LEMMA ShiftType ==
    ASSUME NEW S, Junk \in S, NEW s \in Seq(S), NEW k \in Nat
    PROVE  Shift(s, k) \in Seq(S)
<1>1. CASE Len(s) > k
  <2>1. k \in 0..Len(s)
    BY <1>1, LenProperties
  <2>2. Drop(s, k) \in Seq(S)
    BY <2>1, DropType
  <2>3. [i \in 1..k |-> Junk] \in Seq(S)
    BY SeqDef
  <2>4. \A x, y \in Seq(S) : x \o y \in Seq(S)
    BY ConcatProperties
  <2>. QED  BY <1>1, <2>2, <2>3, <2>4 DEF Shift
<1>2. CASE ~(Len(s) > k)
  BY <1>2, EmptySeq DEF Shift
<1>. QED  BY <1>1, <1>2

LEMMA JunkType == Junk \in MessageCell /\ Junk \in ReplyCell
BY DEF MessageCell, ReplyCell

LEMMA ProcessType ==
    ASSUME NEW name
    PROVE  Process(name) \subseteq [error : Errors, size : BOOLEAN]
<1>1. NONE \in Errors /\ NEXIST \in Errors
  BY DEF Errors, Unset
<1>2. ASSUME NEW a \in Process(name)
      PROVE  a \in [error : Errors, size : BOOLEAN]
  <2>1. CASE a = Outcome(NONE, name \in Handled)
    <3>1. (name \in Handled) \in BOOLEAN
      OBVIOUS
    <3>2. \A v \in BOOLEAN : Outcome(NONE, v) \in [error : Errors, size : BOOLEAN]
      BY <1>1 DEF Outcome
    <3>. QED  BY <2>1, <3>1, <3>2
  <2>2. CASE a \in {Outcome(NEXIST, FALSE) : x \in Lookups \cap {name}}
    <3>1. a = Outcome(NEXIST, FALSE)
      BY <2>2
    <3>. QED  BY <1>1, <3>1 DEF Outcome
  <2>. QED  BY <1>2, <2>1, <2>2 DEF Process
<1>. QED  BY <1>2

LEMMA AnswersType ==
    ASSUME NEW buf
    PROVE  Answers(buf) \subseteq [error : Errors, size : BOOLEAN]
<1>1. CASE Decodes(buf)
  BY <1>1, ProcessType DEF Answers
<1>2. CASE ~Decodes(buf)
  <2>1. Answers(buf) = {Outcome(e, FALSE) : e \in Unset}
    BY <1>2 DEF Answers
  <2>2. \A e \in Unset : Outcome(e, FALSE) \in [error : Errors, size : BOOLEAN]
    BY DEF Outcome, Errors
  <2>. QED  BY <2>1, <2>2
<1>. QED  BY <1>1, <1>2

LEMMA ReadsRange ==
    ASSUME NEW S, NEW s \in Seq(S), NEW f, NEW n \in Reads(s, f)
    PROVE  n \in 1..Len(s)
BY DEF Reads

LEMMA ReceivedType ==
    ASSUME TypeOK, NEW c \in Conns, NEW n \in Reads(c2s[c], SplitRequests)
    PROVE  /\ n \in 1..Len(c2s[c])
           /\ Drop(c2s[c], n) \in Seq(MessageCell)
           /\ Received(c, n) \in Seq(MessageCell)
           /\ Len(Received(c, n)) = Len(equd) + n
<1>1. c2s[c] \in Seq(MessageCell) /\ equd \in Seq(MessageCell)
  BY DEF TypeOK, TransportTypeOK, ServerTypeOK
<1>2. n \in 1..Len(c2s[c]) /\ n \in 0..Len(c2s[c])
  BY <1>1, ReadsRange, LenProperties
<1>3. Take(c2s[c], n) \in Seq(MessageCell) /\ Len(Take(c2s[c], n)) = n
  BY <1>1, <1>2, TakeType
<1>4. Drop(c2s[c], n) \in Seq(MessageCell)
  BY <1>1, <1>2, DropType
<1>. QED  BY <1>1, <1>2, <1>3, <1>4, ConcatProperties DEF Received

LEMMA CutType ==
    ASSUME NEW T, NEW st \in [Conns -> Seq(T)], NEW S \in SUBSET Conns, NEW f,
           NEW l, NEW st2 \in Cut(st, S, f, l)
    PROVE  /\ st2 \in [Conns -> Seq(T)]
           /\ \A c \in Conns \ S : st2[c] = st[c]
<1>1. PICK k \in {g \in [S -> 0..l] : \A c \in S : g[c] \in {0} \cup Reads(st[c], f)} :
         st2 = [c \in Conns |-> IF c \in S THEN Take(st[c], k[c]) ELSE st[c]]
  BY DEF Cut
<1>2. ASSUME NEW c \in S
      PROVE  Take(st[c], k[c]) \in Seq(T)
  <2>1. k[c] \in {0} \cup Reads(st[c], f) /\ st[c] \in Seq(T)
    BY <1>1, <1>2
  <2>2. k[c] \in 0..Len(st[c])
    BY <2>1, ReadsRange, LenProperties
  <2>. QED  BY <2>1, <2>2, TakeType
<1>. QED  BY <1>1, <1>2

-----------------------------------------------------------------------------
(* Types.                                                                  *)

LEMMA InitType == Init => TypeOK
<1>1. \A S : << >> \in Seq(S)
  BY EmptySeq
<1>. QED
  BY <1>1 DEF Init, TransportInit, ServerInit, ClientInit, TypeOK,
              TransportTypeOK, ServerTypeOK, ClientTypeOK

LEMMA ServeType ==
    ASSUME TypeOK, NEW c \in Conns, Serve(c)
    PROVE  TypeOK'
<1>. USE DEF TypeOK, TransportTypeOK, ServerTypeOK
<1>1. PICK n \in 1..Len(c2s[c]) :
         DataPartial(c, n) \/ DataMessage(c, n) \/ DataGarbage(c, n)
  BY DEF Serve, ClientData
<1>2. Arrives(c, n)
  BY <1>1 DEF DataPartial, DataMessage, DataGarbage
<1>3. /\ Drop(c2s[c], n) \in Seq(MessageCell)
      /\ Received(c, n) \in Seq(MessageCell)
      /\ Len(Received(c, n)) \in Nat
  BY <1>2, ReceivedType, LenProperties DEF Arrives
<1>4. /\ c2s' \in [Conns -> Seq(MessageCell)]
      /\ attached' \in SUBSET Conns
      /\ up' \in BOOLEAN
  BY <1>2, <1>3 DEF Arrives
<1>5. ASSUME NEW r \in Reply
      PROVE  [s2c EXCEPT ![c] = @ \o ReplyCells(r)] \in [Conns -> Seq(ReplyCell)]
  <2>1. s2c[c] \in Seq(ReplyCell) /\ ReplyCells(r) \in Seq(ReplyCell)
    BY ReplyCellsType
  <2>2. s2c[c] \o ReplyCells(r) \in Seq(ReplyCell)
    BY <2>1, ConcatProperties
  <2>. QED  BY <2>2
<1>6. equd' \in Seq(MessageCell) /\ s2c' \in [Conns -> Seq(ReplyCell)]
  <2>1. CASE DataPartial(c, n)
    BY <2>1, <1>3 DEF DataPartial
  <2>2. CASE DataMessage(c, n)
    <3>1. MessageLen \in Nat
      BY LenAssumption DEF MessageLen
    <3>2. equd' \in Seq(MessageCell)
      BY <2>2, <3>1, <1>3, ShiftType, JunkType DEF DataMessage
    <3>3. Received(c, n)[1].m \in Message
      BY <2>2, <1>3, HeadType DEF DataMessage
    <3>4. s2c' \in [Conns -> Seq(ReplyCell)]
      <4>. DEFINE m == Received(c, n)[1].m
      <4>1. PICK a \in Answers(Received(c, n)) :
               s2c' = IF ReplyHas(m.type)
                      THEN [s2c EXCEPT ![c] = @ \o ReplyCells(ReplyTo(m, a))]
                      ELSE s2c
        BY <2>2 DEF DataMessage
      <4>2. ReplyTo(m, a) \in Reply
        BY <3>3, AnswersType DEF Reply, Message, ReplyTo
      <4>. QED  BY <4>1, <4>2, <1>5
    <3>. QED  BY <3>2, <3>4
  <2>3. CASE DataGarbage(c, n)
    <3>1. CASE equd' = Received(c, n) /\ UNCHANGED s2c
      BY <3>1, <1>3
    <3>2. CASE \E k \in HdrLen..Len(Received(c, n)) :
                  /\ equd' = Shift(Received(c, n), k)
                  /\ \/ UNCHANGED s2c
                     \/ \E e \in Unset :
                           s2c' = [s2c EXCEPT ![c] = @ \o
                                     ReplyCells([req |-> None, id |-> 0,
                                                 error |-> e, size |-> FALSE])]
      <4>1. PICK k \in HdrLen..Len(Received(c, n)) :
                  /\ equd' = Shift(Received(c, n), k)
                  /\ \/ UNCHANGED s2c
                     \/ \E e \in Unset :
                           s2c' = [s2c EXCEPT ![c] = @ \o
                                     ReplyCells([req |-> None, id |-> 0,
                                                 error |-> e, size |-> FALSE])]
        BY <3>2
      <4>2. equd' \in Seq(MessageCell)
        BY <4>1, <1>3, ShiftType, JunkType, LenAssumption
      <4>3. \A e \in Unset :
               [req |-> None, id |-> 0, error |-> e, size |-> FALSE] \in Reply
        BY DEF Reply, Errors
      <4>. QED  BY <4>1, <4>2, <4>3, <1>5
    <3>. QED  BY <2>3, <3>1, <3>2 DEF DataGarbage
  <2>. QED  BY <1>1, <2>1, <2>2, <2>3
<1>7. ClientTypeOK'
  BY DEF Serve, client, equStruct, ClientTypeOK
<1>. QED  BY <1>4, <1>6, <1>7

LEMMA CallType ==
    ASSUME TypeOK, NEW p \in Procs, Ask(p)
    PROVE  TypeOK'
<1>. USE DEF TypeOK, TransportTypeOK, ClientTypeOK
<1>1. PICK c \in Conns, name \in Requests : Call(p, c, name)
  BY DEF Ask
<1>. DEFINE m == [src |-> c, id |-> ids[p], type |-> TypeOf(name)]
<1>2. m \in Message
  BY ProcAssumption DEF Message, RequestTypes
<1>3. MessageCells(m) \in Seq(MessageCell)
  BY <1>2, MessageCellsType
<1>4. c2s[c] \o MessageCells(m) \in Seq(MessageCell)
  BY <1>3, ConcatProperties
<1>5. Append(frames[p], m) \in Seq(Message)
  BY <1>2
<1>6. /\ frames' = [frames EXCEPT ![p] = Append(@, m)]
      /\ msg' = [msg EXCEPT ![c] = m]
      /\ c2s' = [c2s EXCEPT ![c] = @ \o MessageCells(m)]
      /\ ids' = [ids EXCEPT ![p] = @ + 1]
      /\ UNCHANGED <<reply, rbody, freed, buffer, dangling, result, fault, gone, s2c>>
  BY <1>1 DEF Call
<1>7. TransportTypeOK'
  BY <1>4, <1>6
<1>8. ClientTypeOK'
  BY <1>2, <1>5, <1>6
<1>9. ServerTypeOK'
  BY DEF Ask, server, ServerTypeOK
<1>. QED  BY <1>7, <1>8, <1>9

LEMMA JoinedType ==
    ASSUME TypeOK, NEW p \in Procs, NEW c \in Conns, NEW n \in Reads(s2c[c], SplitReplies)
    PROVE  /\ n \in 1..Len(s2c[c])
           /\ Drop(s2c[c], n) \in Seq(ReplyCell)
           /\ Joined(p, c, n) \in Seq(ReplyCell)
           /\ Len(Joined(p, c, n)) = Len(buffer[FirstOf[p]]) + n
<1>1. s2c[c] \in Seq(ReplyCell) /\ buffer[FirstOf[p]] \in Seq(ReplyCell)
  BY ProcAssumption DEF TypeOK, TransportTypeOK, ClientTypeOK
<1>2. n \in 1..Len(s2c[c]) /\ n \in 0..Len(s2c[c])
  BY <1>1, ReadsRange, LenProperties
<1>3. Take(s2c[c], n) \in Seq(ReplyCell) /\ Len(Take(s2c[c], n)) = n
  BY <1>1, <1>2, TakeType
<1>4. Drop(s2c[c], n) \in Seq(ReplyCell)
  BY <1>1, <1>2, DropType
<1>5. /\ buffer[FirstOf[p]] \o Take(s2c[c], n) \in Seq(ReplyCell)
      /\ Len(buffer[FirstOf[p]] \o Take(s2c[c], n)) = Len(buffer[FirstOf[p]]) + n
  <2>1. \A x, y \in Seq(ReplyCell) : x \o y \in Seq(ReplyCell) /\ Len(x \o y) = Len(x) + Len(y)
    BY ConcatProperties
  <2>. QED  BY <1>1, <1>3, <2>1
<1>. QED  BY <1>2, <1>4, <1>5 DEF Joined

LEMMA GarbageType == GarbageReplies \subseteq Reply
BY DEF GarbageReplies, Reply, Errors

LEMMA ReceiveType ==
    ASSUME TypeOK, NEW p \in Procs, Receive(p)
    PROVE  TypeOK'
<1>. USE DEF TypeOK, TransportTypeOK, ClientTypeOK
<1>0. PICK c \in Conns : \E n \in 1..Len(s2c[c]) :
         \/ ReplyDropped(p, c, n)
         \/ ReplyIntoFreed(p, c, n)
         \/ ReplyPartial(p, c, n)
         \/ ReplyFull(p, c, n)
         \/ ReplyGarbage(p, c, n)
  BY DEF Receive, ServerData
<1>1. PICK n \in 1..Len(s2c[c]) :
         \/ ReplyDropped(p, c, n)
         \/ ReplyIntoFreed(p, c, n)
         \/ ReplyPartial(p, c, n)
         \/ ReplyFull(p, c, n)
         \/ ReplyGarbage(p, c, n)
  BY <1>0
<1>2. Arrived(p, c, n)
  BY <1>1 DEF ReplyDropped, ReplyIntoFreed, ReplyPartial, ReplyFull, ReplyGarbage
<1>. DEFINE e == FirstOf[p]
            buf == Joined(p, c, n)
<1>3. /\ e \in Conns
      /\ Drop(s2c[c], n) \in Seq(ReplyCell)
      /\ buf \in Seq(ReplyCell)
      /\ Len(buf) \in Nat
  BY <1>2, JoinedType, LenProperties, ProcAssumption DEF Arrived
<1>4. Len(buf) >= HdrLen /\ StartsWithHeader(buf) => buf[1].m \in Reply
  BY <1>3, HeadType
<1>. HIDE DEF buf
<1>5. /\ s2c' \in [Conns -> Seq(ReplyCell)]
      /\ UNCHANGED <<frames, ids, result, gone, c2s>>
  BY <1>2, <1>3 DEF Arrived
<1>6. /\ msg' \in [Conns -> Message \cup {None}]
      /\ reply' \in [Conns -> Header \cup {None}]
      /\ rbody' \in [Conns -> Message \cup {None}]
      /\ freed' \in SUBSET Conns
      /\ buffer' \in [Conns -> Seq(ReplyCell)]
      /\ dangling' \in SUBSET Conns
      /\ fault' \in SUBSET Procs
  <2>1. CASE ReplyDropped(p, c, n)
    BY <2>1 DEF ReplyDropped, equStruct
  <2>2. CASE ReplyIntoFreed(p, c, n)
    BY <2>2 DEF ReplyIntoFreed, equStruct
  <2>3. CASE ReplyPartial(p, c, n)
    <3>1. /\ buffer' = [buffer EXCEPT ![e] = buf]
          /\ UNCHANGED <<msg, rbody, freed, dangling, fault>>
      BY <2>3 DEF ReplyPartial, buf
    <3>2. reply' \in [Conns -> Header \cup {None}]
      <4>1. \/ UNCHANGED reply
            \/ \E h \in Reply : reply' = [reply EXCEPT ![e] = InBuffer(h)]
        BY <2>3, <1>4, GarbageType DEF ReplyPartial, buf
      <4>2. \A h \in Reply : InBuffer(h) \in Header
        BY DEF Header, InBuffer
      <4>. QED  BY <4>1, <4>2
    <3>. QED  BY <1>3, <3>1, <3>2
  <2>4. CASE ReplyFull(p, c, n)
    <3>. DEFINE hdr == buf[1].m
    <3>1. /\ Len(buf) >= HdrLen
          /\ StartsWithHeader(buf)
          /\ reply' = [reply EXCEPT ![e] = Copied(hdr)]
          /\ buffer' = [buffer EXCEPT ![e] = Shift(buf, ReplyLen(hdr))]
          /\ UNCHANGED <<msg, dangling, fault>>
          /\ \/ UNCHANGED <<rbody, freed>>
             \/ /\ \/ rbody' = [rbody EXCEPT ![e] = hdr.req]
                   \/ rbody' = [rbody EXCEPT ![e] = None]
                /\ freed' = freed \ {e}
      BY <2>4 DEF ReplyFull, buf, Decoded
    <3>2. hdr \in Reply
      BY <1>4, <3>1
    <3>3. ReplyLen(hdr) \in Nat
      BY LenAssumption DEF ReplyLen
    <3>4. Shift(buf, ReplyLen(hdr)) \in Seq(ReplyCell)
      BY <1>3, <3>3, ShiftType, JunkType
    <3>5. hdr.req \in Message \cup {None}
      BY <3>2 DEF Reply
    <3>6. Copied(hdr) \in Header
      BY <3>2 DEF Header, Copied
    <3>. HIDE DEF hdr
    <3>. QED  BY <1>3, <3>1, <3>4, <3>5, <3>6
  <2>5. CASE ReplyGarbage(p, c, n)
    <3>1. PICK r \in GarbageReplies :
             \E k \in IF r.size THEN HdrLen + 1..Len(buf) ELSE {HdrLen} :
                /\ IF r.size
                   THEN rbody' = [rbody EXCEPT ![e] = None] /\ freed' = freed \ {e}
                   ELSE UNCHANGED <<rbody, freed>>
                /\ reply' = [reply EXCEPT ![e] = Copied(r)]
                /\ buffer' = [buffer EXCEPT ![e] = Shift(buf, k)]
      BY <2>5 DEF ReplyGarbage, buf
    <3>2. PICK k \in IF r.size THEN HdrLen + 1..Len(buf) ELSE {HdrLen} :
             /\ IF r.size
                THEN rbody' = [rbody EXCEPT ![e] = None] /\ freed' = freed \ {e}
                ELSE UNCHANGED <<rbody, freed>>
             /\ reply' = [reply EXCEPT ![e] = Copied(r)]
             /\ buffer' = [buffer EXCEPT ![e] = Shift(buf, k)]
      BY <3>1
    <3>3. Shift(buf, k) \in Seq(ReplyCell)
      <4>1. k \in Nat
        BY <1>3, LenAssumption
      <4>. QED  BY <1>3, <4>1, ShiftType, JunkType
    <3>4. Copied(r) \in Header
      BY <3>1, GarbageType DEF Header, Copied
    <3>5. UNCHANGED <<msg, dangling, fault>>
      BY <2>5 DEF ReplyGarbage
    <3>. QED  BY <1>3, <3>2, <3>3, <3>4, <3>5
  <2>. QED  BY <1>1, <2>1, <2>2, <2>3, <2>4, <2>5
<1>7. ServerTypeOK'
  BY DEF Receive, server, ServerTypeOK
<1>. QED  BY <1>5, <1>6, <1>7

LEMMA ReturnType ==
    ASSUME TypeOK, NEW p \in Procs, Answered(p)
    PROVE  TypeOK'
<1>. USE DEF TypeOK, TransportTypeOK, ClientTypeOK
<1>. DEFINE k == Len(frames[p])
            m == frames[p][k]
            e == m.src
            hdr == reply[e].hdr
<1>1. Return(p) /\ UNCHANGED server
  BY DEF Answered
<1>2. frames[p] \in Seq(Message) /\ frames[p] # << >>
  BY <1>1 DEF Return
<1>3. k \in Nat \ {0} /\ k \in 1..k /\ k - 1 \in 0..k
  BY <1>2, EmptySeq
<1>4. m \in Message
  BY <1>2, <1>3, ElementOfSeq
<1>5. e \in Conns
  BY <1>4 DEF Message
<1>6. hdr \in Reply
  BY <1>1, <1>5 DEF Return, Header
<1>7. hdr.req \in Message \cup {None} /\ hdr.id \in Nat /\ hdr.error \in Errors
  BY <1>6 DEF Reply
<1>8. Take(frames[p], k - 1) \in Seq(Message)
  BY <1>2, <1>3, TakeType
<1>9. [call |-> m, answers |-> hdr.req, id |-> hdr.id, error |-> hdr.error,
       body |-> IF hdr.error = NONE THEN rbody[e] ELSE None] \in Result
  BY <1>4, <1>5, <1>7 DEF Result
<1>10. /\ dangling' = IF reply[e].inBuffer THEN dangling \cup {e} ELSE dangling
       /\ reply' = [reply EXCEPT ![e] = None]
       /\ msg' = [msg EXCEPT ![e] = None]
       /\ result' = [result EXCEPT ![p] =
            [call |-> m, answers |-> hdr.req, id |-> hdr.id, error |-> hdr.error,
             body |-> IF hdr.error = NONE THEN rbody[e] ELSE None]]
       /\ fault' \in {fault, fault \cup {p}}
       /\ freed' \in {freed, freed \cup {e}}
       /\ frames' = [frames EXCEPT ![p] = Take(@, Len(@) - 1)]
       /\ UNCHANGED <<ids, rbody, buffer, gone, c2s, s2c>>
  BY <1>1 DEF Return, transport
<1>11. frames' \in [Procs -> Seq(Message)]
  BY <1>8, <1>10
<1>12. result' \in [Procs -> Result \cup {None}]
  BY <1>9, <1>10
<1>13. ServerTypeOK'
  BY <1>1 DEF server, ServerTypeOK
<1>. QED  BY <1>5, <1>10, <1>11, <1>12, <1>13

LEMMA LeaveType ==
    ASSUME TypeOK, NEW p \in Procs, Leave(p)
    PROVE  TypeOK'
<1>. USE DEF TypeOK, TransportTypeOK
<1>1. ConnsOf(p) \in SUBSET Conns
  BY DEF ConnsOf
<1>2. c2s' \in [Conns -> Seq(MessageCell)]
  BY <1>1, CutType DEF Leave, Exit
<1>3. << >> \in Seq(ReplyCell)
  BY EmptySeq
<1>4. s2c' \in [Conns -> Seq(ReplyCell)]
  BY <1>3 DEF Leave, Exit
<1>5. ClientTypeOK'
  BY DEF Leave, Exit, equStruct, ClientTypeOK
<1>6. ServerTypeOK'
  BY DEF Leave, server, ServerTypeOK
<1>. QED  BY <1>2, <1>4, <1>5, <1>6

LEMMA StopType ==
    ASSUME TypeOK, Stop
    PROVE  TypeOK'
<1>. USE DEF TypeOK, TransportTypeOK
<1>1. << >> \in Seq(MessageCell) /\ Conns \in SUBSET Conns
  BY EmptySeq
<1>2. s2c' \in [Conns -> Seq(ReplyCell)]
  BY <1>1, CutType DEF Stop, ServerExit
<1>3. c2s' \in [Conns -> Seq(MessageCell)] /\ ServerTypeOK'
  BY <1>1 DEF Stop, ServerExit, ServerTypeOK
<1>4. ClientTypeOK'
  BY DEF Stop, client, equStruct, ClientTypeOK
<1>. QED  BY <1>2, <1>3, <1>4

\* Every state of every instance is well typed: in particular no buffer ever
\* holds anything but cells of messages and replies that were written.
THEOREM TypeCorrect == Spec => []TypeOK
<1>1. Init => TypeOK
  BY InitType
<1>2. TypeOK /\ [Next]_vars => TypeOK'
  <2>. SUFFICES ASSUME TypeOK, [Next]_vars
                PROVE  TypeOK'
    OBVIOUS
  <2>1. ASSUME NEW c \in Conns, Connected(c) \/ Disconnected(c)
        PROVE  TypeOK'
    BY <2>1 DEF Connected, Disconnected, ClientAdd, ClientDel, client, equStruct,
                transport, TypeOK, TransportTypeOK, ServerTypeOK, ClientTypeOK
  <2>2. CASE UNCHANGED vars
    BY <2>2 DEF vars, server, client, equStruct, transport,
                TypeOK, TransportTypeOK, ServerTypeOK, ClientTypeOK
  <2>. QED
    BY <2>1, <2>2, ServeType, StopType, CallType, ReceiveType, ReturnType, LeaveType
       DEF Next
<1>. QED  BY <1>1, <1>2, PTL DEF Spec
=============================================================================
