----------------------------- MODULE IrcProofs ------------------------------
(***************************************************************************)
(* Proofs about Irc, for every script, every size of the buffers and every *)
(* number of connections: the types, with the bounds of both buffers       *)
(* (IrcTypeCorrect), that the server hears whole commands in their order   *)
(* (CommandsHeardWhole), and that the application is told the events of    *)
(* the lines of the server, whole, in order and once: Irc implements       *)
(* IrcFeed (ToldAsWritten).                                                *)
(***************************************************************************)
EXTENDS Irc, SequenceTheorems, WellFoundedInduction, TLAPS

-----------------------------------------------------------------------------
(* Sequences and streams.                                                  *)

Cell == [c : Nat, i : Nat, j : 1..Pieces]

\* The pieces of a line are a sequence as long as the line.
LEMMA PiecesAreCells ==
    ASSUME NEW c \in Nat, NEW i \in Nat
    PROVE  /\ PiecesOf(c, i) \in Seq(Cell)
           /\ Len(PiecesOf(c, i)) = Pieces
           /\ \A j \in 1..Pieces : PiecesOf(c, i)[j] = Piece(c, i, j)
BY IrcAssumption DEF PiecesOf, Piece, Cell

\* Both parts of a sequence that is cut are sequences, and make it up again.
LEMMA TakeDrop ==
    ASSUME NEW S, NEW s \in Seq(S), NEW n \in 0..Len(s)
    PROVE  /\ Take(s, n) \in Seq(S) /\ Len(Take(s, n)) = n
           /\ Drop(s, n) \in Seq(S) /\ Len(Drop(s, n)) = Len(s) - n
           /\ Take(s, n) \o Drop(s, n) = s
<1>1. Take(s, n) \in Seq(S) /\ Len(Take(s, n)) = n
  <2>1. \A i \in 1..n : s[i] \in S
    OBVIOUS
  <2> QED BY <2>1, SubSeqProperties DEF Take
<1>2. Drop(s, n) \in Seq(S) /\ Len(Drop(s, n)) = Len(s) - n
  <2>1. \A i \in n + 1..Len(s) : s[i] \in S
    OBVIOUS
  <2>2. n + 1 \in Int /\ Len(s) \in Int
    OBVIOUS
  <2> QED BY <2>1, <2>2, SubSeqProperties DEF Drop
<1>3. Take(s, n) \o Drop(s, n) = SubSeq(s, 1, Len(s))
  <2>1. 1 \in 1..Len(s) + 1 /\ n \in 1 - 1..Len(s) /\ Len(s) \in n..Len(s)
    OBVIOUS
  <2> QED BY <2>1, ConcatAdjacentSubSeq DEF Take, Drop
<1> QED BY <1>1, <1>2, <1>3, SubSeqFull

\* A piece of a sequence moves to the sequence before it.
LEMMA MovesOver ==
    ASSUME NEW S, NEW b \in Seq(S), NEW s \in Seq(S), NEW n \in 0..Len(s)
    PROVE  (b \o Take(s, n)) \o Drop(s, n) = b \o s
<1> DEFINE t == Take(s, n)
           d == Drop(s, n)
<1>1. t \in Seq(S) /\ d \in Seq(S)
  BY TakeDrop
<1>2. t \o d = s
  BY TakeDrop
<1> HIDE DEF t, d
<1>3. (b \o t) \o d = b \o (t \o d)
  BY <1>1
<1>4. (b \o t) \o d = b \o s
  BY <1>2, <1>3
<1> QED BY <1>4 DEF t, d

\* What is dropped of the first of two sequences is dropped of both.
LEMMA DropsOfBoth ==
    ASSUME NEW S, NEW a \in Seq(S), NEW b \in Seq(S), NEW n \in 0..Len(a)
    PROVE  Drop(a, n) \o b = Drop(a \o b, n)
<1> DEFINE d == Drop(a, n)
           s == a \o b
<1>1. d \in Seq(S) /\ Len(d) = Len(a) - n
  BY TakeDrop
<1>2. s \in Seq(S) /\ Len(s) = Len(a) + Len(b) /\ n \in 0..Len(s)
  OBVIOUS
<1>3. Drop(s, n) \in Seq(S) /\ Len(Drop(s, n)) = Len(s) - n
  <2> HIDE DEF s
  <2> QED BY <1>2, TakeDrop
<1>4. \A i \in 1..Len(a) - n : d[i] = a[n + i]
  BY DEF Drop
<1>5. \A i \in 1..Len(s) - n : Drop(s, n)[i] = s[n + i]
  <2> HIDE DEF s
  <2> QED BY <1>2 DEF Drop
<1> HIDE DEF d
<1>6. d \o b \in Seq(S) /\ Len(d \o b) = Len(s) - n
  BY <1>1, <1>2
<1>7. ASSUME NEW i \in 1..Len(s) - n
      PROVE  (d \o b)[i] = Drop(s, n)[i]
  <2>1. /\ Len(a) \in Nat /\ Len(b) \in Nat /\ n \in Nat /\ i \in Nat
        /\ Len(s) = Len(a) + Len(b) /\ Len(d) = Len(a) - n
    BY <1>1, <1>2
  <2>2. i \in 1..Len(d) + Len(b) /\ n + i \in 1..Len(a) + Len(b)
    BY <2>1
  <2>3. (d \o b)[i] = IF i <= Len(d) THEN d[i] ELSE b[i - Len(d)]
    BY <2>2, <1>1, ConcatProperties
  <2>4. s[n + i] = IF n + i <= Len(a) THEN a[n + i] ELSE b[(n + i) - Len(a)]
    BY <2>2, ConcatProperties
  <2>5. i <= Len(d) <=> n + i <= Len(a)
    BY <2>1
  <2>6. i - Len(d) = (n + i) - Len(a)
    BY <2>1
  <2>7. i <= Len(d) => d[i] = a[n + i]
    BY <2>1, <1>4
  <2> DEFINE u == d \o b
  <2>8. u[i] = s[n + i]
    <3> HIDE DEF s
    <3>1. u[i] = IF i <= Len(d) THEN d[i] ELSE b[i - Len(d)]
      BY <2>3
    <3> HIDE DEF u
    <3>2. CASE i <= Len(d)
      BY <3>1, <3>2, <2>4, <2>5, <2>7
    <3>3. CASE ~(i <= Len(d))
      BY <3>1, <3>3, <2>4, <2>5, <2>6
    <3> QED BY <3>2, <3>3
  <2>9. Drop(s, n)[i] = s[n + i]
    BY <1>5
  <2> HIDE DEF s
  <2> QED BY <2>8, <2>9
<1>8. d \o b = Drop(s, n)
  <2> HIDE DEF s
  <2> QED BY <1>3, <1>6, <1>7, SeqEqual
<1> QED BY <1>8 DEF d

\* The end of a line lies in the buffer.
LEMMA CrlfInBuffer ==
    ASSUME NEW buf \in Seq(Cell)
    PROVE  FindCrlf(buf) \in 0..Len(buf)
<1> DEFINE ends == {i \in DOMAIN buf : Ends(buf[i])}
<1>1. CASE ends = {}
  BY <1>1 DEF FindCrlf
<1>2. CASE ends # {}
  <2>1. ends \subseteq Nat /\ ends \subseteq 1..Len(buf)
    OBVIOUS
  <2>2. PICK i \in ends : \A k \in ends : ~(k < i)
    <3> HIDE DEF ends
    <3>1. \E x \in ends : \A y \in ends : ~(<<y, x>> \in OpToRel(<, Nat))
      BY <1>2, <2>1, NatLessThanWellFounded, WFMin, Zenon
    <3> QED BY <3>1, <2>1 DEF OpToRel
  <2>3. \A k \in ends : i <= k
    BY <2>1, <2>2
  <2>4. FindCrlf(buf) \in ends
    BY <1>2, <2>3 DEF FindCrlf
  <2> QED BY <2>1, <2>4
<1> QED BY <1>1, <1>2

\* A line after a stream of whole lines makes a longer one.
LEMMA StreamGrows ==
    ASSUME NEW c \in Nat, NEW k \in Nat, NEW s \in Seq(Cell), IsStream(c, s, k)
    PROVE  IsStream(c, s \o PiecesOf(c, k + 1), k + 1)
<1> DEFINE p == PiecesOf(c, k + 1)
           t == s \o p
<1>1. p \in Seq(Cell) /\ Len(p) = Pieces /\ \A j \in 1..Pieces : p[j] = Piece(c, k + 1, j)
  BY PiecesAreCells
<1>2. Pieces \in Nat /\ Pieces > 0
  BY IrcAssumption
<1>3. /\ Len(s) = k * Pieces
      /\ \A i \in 1..k, j \in 1..Pieces : s[(i - 1) * Pieces + j] = Piece(c, i, j)
  BY DEF IsStream
<1> HIDE DEF p
<1>4. Len(t) = k * Pieces + Pieces
  BY <1>1, <1>3, ConcatProperties
<1>5. (k + 1) * Pieces = k * Pieces + Pieces
  BY <1>2
<1>6. ASSUME NEW i \in 1..k, NEW j \in 1..Pieces
      PROVE  t[(i - 1) * Pieces + j] = Piece(c, i, j)
  <2>1. (i - 1) * Pieces + Pieces = i * Pieces
    BY <1>2
  <2>2. i * Pieces <= k * Pieces
    <3>1. PICK d \in Nat : k = i + d
      <4> k - i \in Nat /\ k = i + (k - i)
        OBVIOUS
      <4> QED OBVIOUS
    <3>2. k * Pieces = i * Pieces + d * Pieces /\ d * Pieces >= 0
      BY <3>1, <1>2
    <3> QED BY <3>2, <1>2
  <2>3. (i - 1) * Pieces \in Nat
    BY <1>2
  <2>4. (i - 1) * Pieces + j \in 1..Len(s)
    <3> DEFINE before == (i - 1) * Pieces
               upto == i * Pieces
               all == k * Pieces
    <3>1. before + Pieces = upto /\ upto <= all /\ before \in Nat /\ all = Len(s)
      BY <2>1, <2>2, <2>3, <1>3
    <3>2. upto \in Nat /\ all \in Nat
      BY <1>2
    <3> HIDE DEF before, upto, all
    <3>3. before + j \in 1..Len(s)
      BY <3>1, <3>2, <1>2
    <3> QED BY <3>3 DEF before
  <2> QED BY <2>4, <1>1, <1>3, ConcatProperties
<1>7. ASSUME NEW j \in 1..Pieces
      PROVE  t[k * Pieces + j] = Piece(c, k + 1, j)
  <2>1. k * Pieces \in Nat
    BY <1>2
  <2>2. k * Pieces + j \in Len(s) + 1..Len(s) + Len(p)
    BY <2>1, <1>1, <1>3
  <2>3. t[k * Pieces + j] = p[k * Pieces + j - Len(s)]
    BY <2>2, <1>1, ConcatProperties
  <2> QED BY <2>1, <2>3, <1>1, <1>3
<1>8. \A i \in 1..k : \A j \in 1..Pieces : t[(i - 1) * Pieces + j] = Piece(c, i, j)
  BY <1>6, Zenon
<1>9. \A i \in 1..k + 1, j \in 1..Pieces : t[(i - 1) * Pieces + j] = Piece(c, i, j)
  <2> SUFFICES ASSUME NEW i \in 1..k + 1, NEW j \in 1..Pieces
               PROVE  t[(i - 1) * Pieces + j] = Piece(c, i, j)
    OBVIOUS
  <2>1. CASE i \in 1..k
    BY <2>1, <1>8, Zenon
  <2>2. CASE i = k + 1
    <3>1. i - 1 = k
      BY <2>2
    <3> QED BY <3>1, <2>2, <1>7
  <2>3. i \in 1..k \/ i = k + 1
    OBVIOUS
  <2> QED BY <2>1, <2>2, <2>3, Zenon
<1> QED BY <1>4, <1>5, <1>9 DEF IsStream, p

-----------------------------------------------------------------------------
(* What is stored.                                                         *)

Spoken == {"PASS", "NICK", "USER", "PONG"} \cup {Line(c) : c \in Commands}
OutOf(b, w) == [buf |-> b, said |-> w]

\* A command that is stored leaves a buffer within its size.
LEMMA StoredFits ==
    ASSUME conn \in Nat, NEW b \in Seq(Cell), NEW w \in Seq(Spoken), Len(b) <= OutCap,
           NEW c \in Spoken
    PROVE  /\ Stored(OutOf(b, w), c) =
                OutOf(Stored(OutOf(b, w), c).buf, Stored(OutOf(b, w), c).said)
           /\ Stored(OutOf(b, w), c).buf \in Seq(Cell)
           /\ Stored(OutOf(b, w), c).said \in Seq(Spoken)
           /\ Len(Stored(OutOf(b, w), c).buf) <= OutCap
<1> DEFINE p == PiecesOf(conn, Len(w) + 1)
<1>1. p \in Seq(Cell) /\ Len(p) = Pieces
  BY PiecesAreCells
<1>2. b \o p \in Seq(Cell) /\ Len(b \o p) = Len(b) + Pieces
  <2> HIDE DEF p
  <2> QED BY <1>1, ConcatProperties
<1>3. Append(w, c) \in Seq(Spoken)
  BY AppendProperties
<1>4. Stored(OutOf(b, w), c) =
        IF Len(b) + Pieces > OutCap THEN OutOf(b, w) ELSE OutOf(b \o p, Append(w, c))
  BY DEF Stored, OutOf
<1>5. Pieces \in Nat /\ OutCap \in Nat
  BY IrcAssumption
<1> HIDE DEF p
<1>6. CASE Len(b) + Pieces > OutCap
  BY <1>4, <1>6 DEF OutOf
<1>7. CASE ~(Len(b) + Pieces > OutCap)
  <2>1. Stored(OutOf(b, w), c) = OutOf(b \o p, Append(w, c))
    BY <1>4, <1>7
  <2>2. /\ Stored(OutOf(b, w), c).buf = b \o p
        /\ Stored(OutOf(b, w), c).said = Append(w, c)
    BY <2>1 DEF OutOf
  <2>3. Len(b \o p) <= OutCap
    BY <1>2, <1>5, <1>7
  <2> QED BY <2>1, <2>2, <2>3, <1>2, <1>3
<1> QED BY <1>6, <1>7

\* It is whole, comes after the others, and leaves the first ones where they are.
LEMMA StoredIsStream ==
    ASSUME conn \in Nat, NEW h \in Seq(Cell), NEW b \in Seq(Cell), NEW w \in Seq(Spoken),
           NEW c \in Spoken, IsStream(conn, h \o b, Len(w))
    PROVE  /\ IsStream(conn, h \o Stored(OutOf(b, w), c).buf, Len(Stored(OutOf(b, w), c).said))
           /\ Len(w) <= Len(Stored(OutOf(b, w), c).said)
           /\ \A i \in 1..Len(w) : Stored(OutOf(b, w), c).said[i] = w[i]
<1> DEFINE p == PiecesOf(conn, Len(w) + 1)
<1>1. p \in Seq(Cell)
  BY PiecesAreCells
<1>2. h \o b \in Seq(Cell)
  BY ConcatProperties
<1>3. IsStream(conn, (h \o b) \o p, Len(w) + 1)
  <2> DEFINE s == h \o b
             k == Len(w)
  <2>1. k \in Nat /\ s \in Seq(Cell) /\ IsStream(conn, s, k)
    BY <1>2
  <2> HIDE DEF s, k
  <2>2. IsStream(conn, s \o PiecesOf(conn, k + 1), k + 1)
    BY <2>1, StreamGrows
  <2> QED BY <2>2 DEF s, k
<1>4. (h \o b) \o p = h \o (b \o p)
  <2> HIDE DEF p
  <2> QED BY <1>1, ConcatAssociative
<1>5. /\ Append(w, c) \in Seq(Spoken) /\ Len(Append(w, c)) = Len(w) + 1
      /\ \A i \in 1..Len(w) : Append(w, c)[i] = w[i]
  BY AppendProperties
<1>6. Stored(OutOf(b, w), c) =
        IF Len(b) + Pieces > OutCap THEN OutOf(b, w) ELSE OutOf(b \o p, Append(w, c))
  BY DEF Stored, OutOf
<1> HIDE DEF p
<1>7. CASE Len(b) + Pieces > OutCap
  BY <1>6, <1>7 DEF OutOf
<1>8. CASE ~(Len(b) + Pieces > OutCap)
  <2>1. Stored(OutOf(b, w), c) = OutOf(b \o p, Append(w, c))
    BY <1>6, <1>8
  <2>2. /\ Stored(OutOf(b, w), c).buf = b \o p
        /\ Stored(OutOf(b, w), c).said = Append(w, c)
    BY <2>1 DEF OutOf
  <2> QED BY <2>2, <1>3, <1>4, <1>5
<1> QED BY <1>7, <1>8

-----------------------------------------------------------------------------
(* Types.                                                                  *)

\* What the session holds, what irc_run and the other thread hold, and the lines
\* of the server: TypeOK in three parts.
Buffered ==
    /\ inbuf \in Seq(Cell) /\ Len(inbuf) <= InCap
    /\ outbuf \in Seq(Cell) /\ Len(outbuf) <= OutCap
    /\ said \in Seq(Spoken)
    /\ s2c \in Seq(Cell) /\ heard \in Seq(Cell)
Lived ==
    /\ state \in States /\ conn \in 0..MaxConns
    /\ closed \in BOOLEAN
    /\ wrote \in Seq(Seq(Script)) /\ Len(wrote) = conn
    /\ state \in {"CONNECTING", "CONNECTED"} => conn > 0
Running ==
    /\ pc \in {"start", "loop", "process", "lines", "write", "ecore", "done"} \cup Registering
    /\ ready \subseteq {"in", "out"}
    /\ other \in Commands \cup {"idle"} /\ early \in BOOLEAN
Greeted == motd \in BOOLEAN

Typed == Buffered /\ Lived /\ Running /\ Greeted

\* The places where the session registers, and the first and the next of each.
LEMMA Places ==
    /\ Registering = {"PASS", "NICK", "USER"}
    /\ After["PASS"] = "NICK" /\ After["NICK"] = "USER" /\ After["USER"] = "ecore"
    /\ Head(Registration) \in {"PASS", "NICK"}
<1>1. Registering = {"PASS", "NICK", "USER"}
  BY DEF Registering, After
<1>2. After["PASS"] = "NICK" /\ After["NICK"] = "USER" /\ After["USER"] = "ecore"
  BY DEF After
<1>3. Head(Registration) = IF Password THEN "PASS" ELSE "NICK"
  BY DEF Registration
<1> QED BY <1>1, <1>2, <1>3

LEMMA LineIsSpoken ==
    ASSUME NEW c \in Commands
    PROVE  Line(c) \in Spoken
BY DEF Spoken

\* A step that stores one command.
LEMMA SaysBuffered ==
    ASSUME Buffered, Lived, NEW c \in Spoken, SetOut(Stored(Out, c))
    PROVE  outbuf' \in Seq(Cell) /\ said' \in Seq(Spoken) /\ Len(outbuf') <= OutCap
<1>1. Out = OutOf(outbuf, said)
  BY DEF Out, OutOf
<1>2. conn \in Nat
  BY IrcAssumption DEF Lived
<1>3. /\ outbuf \in Seq(Cell) /\ said \in Seq(Spoken) /\ Len(outbuf) <= OutCap
  BY DEF Buffered
<1>4. /\ Stored(Out, c).buf \in Seq(Cell) /\ Stored(Out, c).said \in Seq(Spoken)
      /\ Len(Stored(Out, c).buf) <= OutCap
  BY <1>1, <1>2, <1>3, StoredFits
<1> QED BY <1>4 DEF SetOut

LEMMA TypedInit == Init => Typed
<1> SUFFICES ASSUME Init PROVE Typed
  OBVIOUS
<1>1. Buffered
  <2>1. /\ inbuf = <<>> /\ outbuf = <<>> /\ said = <<>> /\ s2c = <<>> /\ heard = <<>>
    BY DEF Init, SessionInit
  <2>2. /\ inbuf \in Seq(Cell) /\ outbuf \in Seq(Cell) /\ said \in Seq(Spoken)
        /\ s2c \in Seq(Cell) /\ heard \in Seq(Cell)
    BY <2>1, EmptySeq
  <2>3. Len(inbuf) = 0 /\ Len(outbuf) = 0
    BY <2>1, EmptySeq
  <2> QED BY <2>2, <2>3, IrcAssumption DEF Buffered
<1>2. Lived
  <2>1. wrote = <<>> /\ wrote \in Seq(Seq(Script)) /\ Len(wrote) = 0
    BY EmptySeq DEF Init, SessionInit
  <2>2. state = "INIT" /\ conn = 0 /\ closed = FALSE
    BY DEF Init, SessionInit
  <2>3. conn \in 0..MaxConns
    BY <2>2, IrcAssumption
  <2>4. Len(wrote) = conn
    BY <2>1, <2>2
  <2> QED BY <2>1, <2>2, <2>3, <2>4 DEF Lived, States
<1>3. Running /\ Greeted
  BY DEF Init, SessionInit, Running, Greeted
<1> QED BY <1>1, <1>2, <1>3 DEF Typed

LEMMA ConnectTyped ==
    ASSUME Typed, Connect
    PROVE  Buffered' /\ Lived' /\ Greeted'
<1>1. Buffered'
  BY DEF Connect, Typed, Buffered
<1>2. Lived'
  <2>1. <<>> \in Seq(Script)
    OBVIOUS
  <2>2. Append(wrote, <<>>) \in Seq(Seq(Script)) /\ Len(Append(wrote, <<>>)) = Len(wrote) + 1
    BY <2>1, AppendProperties DEF Typed, Lived
  <2>3. /\ state' = "CONNECTING" /\ conn' = conn + 1 /\ closed' = FALSE
        /\ wrote' = Append(wrote, <<>>) /\ conn < MaxConns
    BY DEF Connect
  <2>4. conn \in 0..MaxConns /\ Len(wrote) = conn
    BY DEF Typed, Lived
  <2>5. conn' \in 0..MaxConns /\ conn' > 0 /\ Len(wrote') = conn'
    BY <2>2, <2>3, <2>4, IrcAssumption
  <2> QED BY <2>2, <2>3, <2>5 DEF Lived, States
<1>3. Greeted'
  BY DEF Connect, Greeted
<1> QED BY <1>1, <1>2, <1>3

LEMMA LostTyped ==
    ASSUME Typed, Lost
    PROVE  Buffered' /\ Lived' /\ Greeted'
BY DEF Lost, Typed, Buffered, Lived, Greeted, States, sockVars, outVars, feedVars

LEMMA ReceivesTyped ==
    ASSUME Typed, NEW n \in 1..Len(s2c), n <= InCap - Len(inbuf), Receives(n)
    PROVE  Buffered' /\ Lived' /\ Greeted'
<1>1. /\ Take(s2c, n) \in Seq(Cell) /\ Len(Take(s2c, n)) = n /\ Drop(s2c, n) \in Seq(Cell)
  BY TakeDrop DEF Typed, Buffered
<1>2. /\ inbuf \o Take(s2c, n) \in Seq(Cell)
      /\ Len(inbuf \o Take(s2c, n)) = Len(inbuf) + n
  BY <1>1, ConcatProperties DEF Typed, Buffered
<1>3. Buffered'
  BY <1>1, <1>2, IrcAssumption DEF Receives, Typed, Buffered, outVars
<1> QED BY <1>3 DEF Receives, Typed, Lived, Greeted, feedVars

LEMMA SendsTyped ==
    ASSUME Typed, NEW n \in 1..Len(outbuf), Sends(n)
    PROVE  Buffered' /\ Lived' /\ Greeted'
<1>1. /\ Take(outbuf, n) \in Seq(Cell) /\ Drop(outbuf, n) \in Seq(Cell)
      /\ Len(Drop(outbuf, n)) = Len(outbuf) - n
  BY TakeDrop DEF Typed, Buffered
<1>2. heard \o Take(outbuf, n) \in Seq(Cell)
  BY <1>1, ConcatProperties DEF Typed, Buffered
<1>3. Buffered'
  BY <1>1, <1>2, IrcAssumption DEF Sends, Typed, Buffered, sockVars
<1> QED BY <1>3 DEF Sends, Typed, Lived, Greeted, feedVars, sockVars

LEMMA ProcessesTyped ==
    ASSUME Typed, Processes
    PROVE  Buffered' /\ Lived' /\ Greeted'
<1> DEFINE end == FindCrlf(inbuf)
           line == Take(inbuf, end)
           l == Received(line)
<1>1. inbuf \in Seq(Cell) /\ end \in 0..Len(inbuf)
  BY CrlfInBuffer DEF Typed, Buffered
<1>2. Drop(inbuf, end) \in Seq(Cell) /\ Len(Drop(inbuf, end)) = Len(inbuf) - end
  <2> HIDE DEF end
  <2> QED BY <1>1, TakeDrop
<1>3. inbuf' \in Seq(Cell) /\ Len(inbuf') <= InCap
  <2>1. inbuf' = Drop(inbuf, end)
    BY DEF Processes
  <2> HIDE DEF end
  <2> QED BY <2>1, <1>1, <1>2, IrcAssumption DEF Typed, Buffered
<1>4. /\ outbuf' \in Seq(Cell) /\ Len(outbuf') <= OutCap /\ said' \in Seq(Spoken)
  <2>1. CASE UNCHANGED outVars
    BY <2>1 DEF outVars, Typed, Buffered
  <2>2. CASE SetOut(Stored(Out, "PONG"))
    <3>1. "PONG" \in Spoken
      BY DEF Spoken
    <3> QED BY <2>2, <3>1, SaysBuffered DEF Typed
  <2>3. CASE SetOut(Out)
    BY <2>3 DEF SetOut, Out, Typed, Buffered
  <2>4. UNCHANGED outVars \/ SetOut(IF IsPing(l) THEN Stored(Out, "PONG") ELSE Out)
    BY DEF Processes
  <2> QED BY <2>1, <2>2, <2>3, <2>4
<1>5. Greeted'
  <2>1. UNCHANGED motd \/ motd' = (motd \/ EndsMotd(l))
    BY DEF Processes
  <2> QED BY <2>1 DEF Typed, Greeted
<1>6. UNCHANGED <<state, conn, sockVars, heard>>
  BY DEF Processes
<1>7. Buffered'
  BY <1>3, <1>4, <1>6 DEF Typed, Buffered, sockVars
<1>8. Lived'
  BY <1>6 DEF Typed, Lived, sockVars
<1> QED BY <1>5, <1>7, <1>8

LEMMA MadeTyped ==
    ASSUME Typed, Made, state = "CONNECTING"
    PROVE  Buffered' /\ Lived' /\ Greeted'
BY DEF Made, Typed, Buffered, Lived, Greeted, States, sockVars, outVars, feedVars

LEMMA RegistersTyped ==
    ASSUME Typed, NEW line \in Spoken, Registers(line)
    PROVE  Buffered' /\ Lived' /\ Greeted'
<1>1. outbuf' \in Seq(Cell) /\ said' \in Seq(Spoken) /\ Len(outbuf') <= OutCap
  BY SaysBuffered DEF Registers, Typed
<1> QED BY <1>1 DEF Registers, Typed, Buffered, Lived, Greeted, sockVars, feedVars

LEMMA ServerTyped ==
    ASSUME Typed, Server
    PROVE  Typed'
<1>1. CASE ServerCloses
  BY <1>1 DEF Server, ServerCloses, Typed, Buffered, Lived, Running, Greeted, outVars
<1>2. ASSUME NEW l \in Script, ServerWrites(l)
      PROVE  Typed'
  <2>1. conn \in 1..Len(wrote) /\ wrote[conn] \in Seq(Script)
    BY <1>2 DEF ServerWrites, Connected, Typed, Lived
  <2>2. Append(wrote[conn], l) \in Seq(Script)
    BY <2>1, AppendProperties
  <2>3. wrote' \in Seq(Seq(Script)) /\ Len(wrote') = Len(wrote)
    BY <1>2, <2>1, <2>2, ExceptSeq DEF ServerWrites, Typed, Lived
  <2>4. conn \in Nat /\ Len(wrote[conn]) + 1 \in Nat
    BY <2>1
  <2>5. PiecesOf(conn, Len(wrote[conn]) + 1) \in Seq(Cell)
    BY <2>4, PiecesAreCells
  <2>6. s2c' \in Seq(Cell)
    BY <1>2, <2>5, ConcatProperties DEF ServerWrites, Typed, Buffered
  <2> QED BY <1>2, <2>3, <2>6
          DEF Server, ServerWrites, Typed, Buffered, Lived, Running, Greeted, outVars
<1> QED BY <1>1, <1>2 DEF Server

\* A step of irc_run, of the application or of the server keeps the types.
LEMMA TypedNext ==
    ASSUME Typed, [Next]_vars
    PROVE  Typed'
<1> USE DEF sessionVars
<1>1. CASE UNCHANGED vars
  BY <1>1 DEF vars, Typed, Buffered, Lived, Running, Greeted
<1>2. CASE Starts
  BY <1>2, ConnectTyped DEF Starts, Typed, Running
<1>3. CASE LoopEnds
  BY <1>3 DEF LoopEnds, Typed, Buffered, Lived, Running, Greeted
<1>4. CASE Selects
  <2>1. ready' \subseteq {"in", "out"}
    BY <1>4 DEF Selects, Readiness
  <2> QED BY <1>4, <2>1 DEF Selects, Typed, Buffered, Lived, Running, Greeted
<1>5. CASE ConnectEnds
  <2>1. Running'
    BY <1>5, Places DEF ConnectEnds, Typed, Running
  <2>2. state = "CONNECTING" /\ (Lost \/ Made)
    BY <1>5 DEF ConnectEnds
  <2> QED BY <2>1, <2>2, LostTyped, MadeTyped DEF Typed
<1>6. CASE ConnectSlow
  BY <1>6 DEF ConnectSlow, Typed, Buffered, Lived, Running, Greeted
<1>7. CASE Reads
  <2>1. Running'
    BY <1>7 DEF Reads, Typed, Running
  <2>2. Lost \/ \E n \in 1..Len(s2c) : n <= InCap - Len(inbuf) /\ Receives(n)
    BY <1>7 DEF Reads
  <2> QED BY <2>1, <2>2, LostTyped, ReceivesTyped DEF Typed
<1>8. CASE ReadsNothing
  BY <1>8 DEF ReadsNothing, Typed, Buffered, Lived, Running, Greeted
<1>9. CASE ProcessesLine
  BY <1>9, ProcessesTyped DEF ProcessesLine, Typed, Running
<1>10. CASE LinesEnd
  BY <1>10 DEF LinesEnd, Typed, Buffered, Lived, Running, Greeted
<1>11. CASE Writes
  <2>1. Running'
    BY <1>11 DEF Writes, Typed, Running
  <2>2. Lost \/ \E n \in 1..Len(outbuf) : Sends(n)
    BY <1>11 DEF Writes
  <2> QED BY <2>1, <2>2, LostTyped, SendsTyped DEF Typed
<1>12. CASE WritesNothing
  BY <1>12 DEF WritesNothing, Typed, Buffered, Lived, Running, Greeted
<1>13. ASSUME NEW c \in Commands, Says(c)
       PROVE  Typed'
  <2>1. outbuf' \in Seq(Cell) /\ said' \in Seq(Spoken) /\ Len(outbuf') <= OutCap
    BY <1>13, LineIsSpoken, SaysBuffered DEF Says, Typed
  <2> QED BY <1>13, <2>1 DEF Says, Typed, Buffered, Lived, Running, Greeted, sockVars
<1>14. CASE Leaves
  BY <1>14 DEF Leaves, Disconnect, Typed, Buffered, Lived, Running, Greeted, States,
               feedVars, outVars
<1>15. CASE Returns
  BY <1>15, ConnectTyped DEF Returns, Typed, Running
<1>16. CASE Handles
  BY <1>16 DEF Handles, Typed, Buffered, Lived, Running, Greeted, sockVars, outVars
<1>17. CASE IterationEnds
  BY <1>17 DEF IterationEnds, Typed, Buffered, Lived, Running, Greeted
<1>18. ASSUME NEW c \in Commands, OtherChecks(c)
       PROVE  Typed'
  BY <1>18 DEF OtherChecks, Typed, Buffered, Lived, Running, Greeted
<1>19. CASE OtherSays
  <2>1. other \in Commands
    BY <1>19 DEF OtherSays, Typed, Running
  <2>2. outbuf' \in Seq(Cell) /\ said' \in Seq(Spoken) /\ Len(outbuf') <= OutCap
    BY <1>19, <2>1, LineIsSpoken, SaysBuffered DEF OtherSays, Typed
  <2> QED BY <1>19, <2>2 DEF OtherSays, Typed, Buffered, Lived, Running, Greeted, sockVars
<1>20. CASE Server
  BY <1>20, ServerTyped
<1>21. CASE SendsRegistration
  <2>1. pc \in Spoken /\ Registers(pc)
    BY <1>21, Places DEF SendsRegistration, Spoken
  <2>2. Running'
    BY <1>21, Places DEF SendsRegistration, Typed, Running
  <2> QED BY <2>1, <2>2, RegistersTyped DEF Typed
<1> QED BY <1>1, <1>2, <1>3, <1>4, <1>5, <1>6, <1>7, <1>8, <1>9, <1>10, <1>11, <1>12, <1>13,
           <1>14, <1>15, <1>16, <1>17, <1>18, <1>19, <1>20, <1>21
        DEF Next, IrcRun, Application

\* For every script, every size of the buffers and whatever the application and
\* its other thread do, both buffers stay within their sizes and every variable
\* has its type.
THEOREM IrcTypeCorrect == FairSpec => []TypeOK
<1>1. Typed => TypeOK
  BY DEF Typed, Buffered, Lived, Running, Greeted, TypeOK
<1>2. Typed /\ [Next]_vars => Typed'
  BY TypedNext
<1> QED BY <1>1, <1>2, TypedInit, PTL DEF FairSpec

-----------------------------------------------------------------------------
(* The events of lines, one line after the other.                          *)

\* A set of numbers has a least one.
LEMMA Least ==
    ASSUME NEW S \in SUBSET Nat, S # {}
    PROVE  \E m \in S : \A k \in S : m <= k
<1>1. \E x \in S : \A y \in S : ~(<<y, x>> \in OpToRel(<, Nat))
  BY NatLessThanWellFounded, WFMin, Zenon
<1>2. \A x, y \in S : <<y, x>> \in OpToRel(<, Nat) <=> y < x
  BY DEF OpToRel
<1>3. \A x, y \in Nat : ~(y < x) => x <= y
  OBVIOUS
<1> QED BY <1>1, <1>2, <1>3

\* The message of the day has ended before line i.
MotdEnded(lines, i) == \E j \in 1..i - 1 : EndsMotd(lines[j])

\* f is the function that EventsUpTo is made of.
FedBy(lines, f, i) ==
    IF i = 0 THEN <<>> ELSE f[i - 1] \o EventsOf(lines[i], MotdEnded(lines, i))
IsFeed(lines, f, n) == f = [i \in 0..n |-> FedBy(lines, f, i)]

LEMMA FeedExists ==
    ASSUME NEW lines, NEW n \in Nat
    PROVE  \E f : IsFeed(lines, f, n)
<1> DEFINE Bad == {m \in Nat : ~\E f : IsFeed(lines, f, m)}
<1>1. SUFFICES ASSUME Bad # {} PROVE FALSE
  OBVIOUS
<1>2. PICK m \in Bad : \A j \in Bad : m <= j
  BY <1>1, Least
<1>3. CASE m = 0
  <2> DEFINE f == [i \in 0..0 |-> <<>>]
  <2>1. IsFeed(lines, f, 0)
    BY DEF IsFeed, FedBy
  <2> QED BY <1>2, <1>3, <2>1
<1>4. CASE m # 0
  <2>1. m - 1 \in Nat /\ m - 1 \notin Bad
    BY <1>2, <1>4
  <2>2. PICK g : g = [i \in 0..m - 1 |-> FedBy(lines, g, i)]
    BY <2>1 DEF IsFeed
  <2> DEFINE f == [i \in 0..m |-> IF i = m THEN FedBy(lines, g, m) ELSE g[i]]
  <2>3. \A i \in 0..m - 1 : f[i] = g[i]
    BY <2>1
  <2>4. ASSUME NEW i \in 0..m
        PROVE  f[i] = FedBy(lines, f, i)
    <3>0. FedBy(lines, f, i) = FedBy(lines, g, i)
      BY <2>1, <2>3 DEF FedBy
    <3>1. CASE i = m
      BY <3>0, <3>1
    <3>2. CASE i # m
      <4>1. i \in 0..m - 1
        BY <3>2, <2>1
      <4> QED BY <2>2, <2>3, <3>0, <4>1
    <3> QED BY <3>1, <3>2
  <2>5. f = [i \in 0..m |-> FedBy(lines, f, i)]
    BY <2>4
  <2> QED BY <1>2, <2>5 DEF IsFeed
<1> QED BY <1>3, <1>4

LEMMA FeedIs ==
    ASSUME NEW lines, NEW n \in Nat
    PROVE  \E f : IsFeed(lines, f, n) /\ EventsUpTo(lines, n) = f[n]
<1> DEFINE f == CHOOSE g : IsFeed(lines, g, n)
<1>1. IsFeed(lines, f, n)
  BY FeedExists
<1>2. EventsUpTo(lines, n) = f[n]
  BY DEF EventsUpTo, IsFeed, FedBy, MotdEnded
<1> QED BY <1>1, <1>2

LEMMA FeedStep ==
    ASSUME NEW lines, NEW f, NEW n \in Nat, IsFeed(lines, f, n), NEW i \in 0..n
    PROVE  f[i] = FedBy(lines, f, i)
<1> DEFINE g(h) == [j \in 0..n |-> FedBy(lines, h, j)]
<1>1. f = g(f)
  BY DEF IsFeed
<1>2. g(f)[i] = FedBy(lines, f, i)
  OBVIOUS
<1> HIDE DEF g
<1> QED BY <1>1, <1>2

\* Lines that are the same up to line k have the same events up to there.
LEMMA FeedsAgree ==
    ASSUME NEW a, NEW b, NEW f, NEW g, NEW m \in Nat, NEW n \in Nat,
           IsFeed(a, f, m), IsFeed(b, g, n),
           NEW k \in Nat, k <= m, k <= n, \A i \in 1..k : a[i] = b[i]
    PROVE  f[k] = g[k]
<1> DEFINE Bad == {i \in 0..k : f[i] # g[i]}
<1>1. SUFFICES ASSUME Bad # {} PROVE FALSE
  OBVIOUS
<1>2. PICK i \in Bad : \A j \in Bad : i <= j
  <2>1. Bad \in SUBSET Nat
    OBVIOUS
  <2> HIDE DEF Bad
  <2> QED BY <1>1, <2>1, Least
<1>3. f[i] = FedBy(a, f, i) /\ g[i] = FedBy(b, g, i)
  <2>1. i \in 0..m /\ i \in 0..n
    OBVIOUS
  <2> QED BY <2>1, FeedStep
<1>4. CASE i = 0
  BY <1>3, <1>4 DEF FedBy
<1>5. CASE i # 0
  <2>1. i - 1 \in 0..k /\ i \in 1..k /\ i - 1 \notin Bad
    BY <1>2, <1>5
  <2>2. f[i - 1] = g[i - 1] /\ a[i] = b[i]
    BY <2>1
  <2>3. MotdEnded(a, i) = MotdEnded(b, i)
    BY <2>1 DEF MotdEnded
  <2> QED BY <1>2, <1>3, <1>5, <2>2, <2>3 DEF FedBy
<1> QED BY <1>4, <1>5

LEMMA EventsStart ==
    ASSUME NEW lines
    PROVE  EventsUpTo(lines, 0) = <<>>
<1>1. PICK f : IsFeed(lines, f, 0) /\ EventsUpTo(lines, 0) = f[0]
  BY FeedIs
<1> QED BY <1>1 DEF IsFeed, FedBy

LEMMA EventsNext ==
    ASSUME NEW lines, NEW n \in Nat
    PROVE  EventsUpTo(lines, n + 1) =
             EventsUpTo(lines, n) \o EventsOf(lines[n + 1], MotdEnded(lines, n + 1))
<1>1. PICK f : IsFeed(lines, f, n + 1) /\ EventsUpTo(lines, n + 1) = f[n + 1]
  BY FeedIs
<1>2. PICK g : IsFeed(lines, g, n) /\ EventsUpTo(lines, n) = g[n]
  BY FeedIs
<1>3. f[n] = g[n]
  BY <1>1, <1>2, FeedsAgree
<1>4. f[n + 1] = FedBy(lines, f, n + 1)
  BY <1>1, FeedStep
<1>5. n + 1 # 0 /\ (n + 1) - 1 = n
  OBVIOUS
<1>6. FedBy(lines, f, n + 1) = f[n] \o EventsOf(lines[n + 1], MotdEnded(lines, n + 1))
  BY <1>5 DEF FedBy
<1> QED BY <1>1, <1>2, <1>3, <1>4, <1>6, Zenon

LEMMA EventsSame ==
    ASSUME NEW a, NEW b, NEW n \in Nat, \A i \in 1..n : a[i] = b[i]
    PROVE  EventsUpTo(a, n) = EventsUpTo(b, n)
<1>1. PICK f : IsFeed(a, f, n) /\ EventsUpTo(a, n) = f[n]
  BY FeedIs
<1>2. PICK g : IsFeed(b, g, n) /\ EventsUpTo(b, n) = g[n]
  BY FeedIs
<1> QED BY <1>1, <1>2, FeedsAgree

\* A line makes a sequence of events.
LEMMA LineEvents ==
    ASSUME NEW l \in Script, NEW m \in BOOLEAN
    PROVE  EventsOf(l, m) \in Seq(Events)
<1>1. /\ l.n \in Nat /\ l.mine \in BOOLEAN
      /\ l.ctcp \in {"no", "DCC", "ACTION", "other"}
  BY ScriptAssumption
<1>2. /\ <<>> \in Seq(Events)
      /\ \A e \in Events : One(e) \in Seq(Events)
      /\ \A count, n : \A e \in Events : When(count, n, e) \in Seq(Events)
  <2>1. ASSUME NEW S, NEW e \in S
        PROVE  <<e>> \in Seq(S) /\ <<>> \in Seq(S)
    OBVIOUS
  <2>2. ASSUME NEW S, NEW e \in S, NEW count, NEW n
        PROVE  When(count, n, e) \in Seq(S)
    BY <2>1 DEF When
  <2>3. \A e \in Events : One(e) \in Seq(Events)
    BY <2>1 DEF One
  <2> QED BY <2>2, <2>3
<1>3. NumericEvents(l, m) \in Seq(Events)
  <2>1. \A s, t \in Seq(Events) : s \o t \in Seq(Events)
    OBVIOUS
  <2> QED BY <1>2, <2>1 DEF NumericEvents, Events
<1>4. l.cmd \in {"NICK", "QUIT", "JOIN", "PART"} => NickEvents(l) \in Seq(Events)
  BY <1>2 DEF NickEvents, Events
<1>5. l.cmd \in {"MODE", "TOPIC", "KICK", "INVITE"} => ChannelEvents(l) \in Seq(Events)
  BY <1>1, <1>2 DEF ChannelEvents, Events
<1>6. MessageEvents(l) \in Seq(Events)
  <2>1. CASE l.n < 2
    <3>1. ~(l.n >= 2)
      BY <1>1, <2>1
    <3> QED BY <1>2, <2>1, <3>1 DEF MessageEvents
  <2>2. CASE l.n >= 2
    <3>1. ~(l.n < 2)
      BY <1>1, <2>2
    <3>2. /\ "CTCP_ACTION" \in Events /\ "CTCP_REQ" \in Events
          /\ (IF l.mine THEN "PRIVMSG" ELSE "CHANNEL") \in Events
      BY DEF Events
    <3>3. CASE l.ctcp = "DCC"
      BY <1>2, <2>2, <3>1, <3>3 DEF MessageEvents
    <3>4. CASE l.ctcp = "ACTION"
      BY <1>2, <2>2, <3>1, <3>2, <3>4 DEF MessageEvents, CtcpEvents
    <3>5. CASE l.ctcp = "other"
      BY <1>2, <2>2, <3>1, <3>2, <3>5 DEF MessageEvents, CtcpEvents
    <3>6. CASE l.ctcp = "no"
      BY <1>2, <2>2, <3>1, <3>2, <3>6 DEF MessageEvents, TextEvents
    <3> QED BY <1>1, <3>3, <3>4, <3>5, <3>6
  <2> QED BY <1>1, <2>1, <2>2
<1>7. NoticeEvents(l) \in Seq(Events)
  BY <1>1, <1>2 DEF NoticeEvents, PlainNotice, Events
<1> QED BY <1>1, <1>2, <1>3, <1>4, <1>5, <1>6, <1>7 DEF EventsOf, UnknownEvents, Events

\* The events of lines are a sequence.
LEMMA EventsTyped ==
    ASSUME NEW lines \in Seq(Script), NEW n \in 0..Len(lines)
    PROVE  EventsUpTo(lines, n) \in Seq(Events)
<1> DEFINE Bad == {i \in 0..Len(lines) : EventsUpTo(lines, i) \notin Seq(Events)}
<1>1. SUFFICES ASSUME Bad # {} PROVE FALSE
  OBVIOUS
<1>2. PICK i \in Bad : \A j \in Bad : i <= j
  <2>1. Bad \in SUBSET Nat
    OBVIOUS
  <2> HIDE DEF Bad
  <2> QED BY <1>1, <2>1, Least
<1>3. CASE i = 0
  <2>1. <<>> \in Seq(Events)
    OBVIOUS
  <2> QED BY <1>2, <1>3, <2>1, EventsStart
<1>4. CASE i # 0
  <2>1. i - 1 \in 0..Len(lines) /\ i - 1 \notin Bad /\ i \in 1..Len(lines)
    BY <1>2, <1>4
  <2>2. EventsUpTo(lines, i - 1) \in Seq(Events)
    BY <2>1
  <2>3. lines[i] \in Script
    BY <2>1
  <2>4. EventsOf(lines[i], MotdEnded(lines, i)) \in Seq(Events)
    BY <2>3, LineEvents DEF MotdEnded
  <2>5. (i - 1) + 1 = i /\ i - 1 \in Nat
    BY <2>1
  <2>6. EventsUpTo(lines, i) = EventsUpTo(lines, i - 1) \o EventsOf(lines[i], MotdEnded(lines, i))
    <3>1. EventsUpTo(lines, (i - 1) + 1) =
            EventsUpTo(lines, i - 1) \o EventsOf(lines[(i - 1) + 1], MotdEnded(lines, (i - 1) + 1))
      BY <2>5, EventsNext, Zenon
    <3> QED BY <3>1, <2>5
  <2>7. \A s, t \in Seq(Events) : s \o t \in Seq(Events)
    OBVIOUS
  <2> QED BY <1>2, <2>2, <2>4, <2>6, <2>7, Zenon
<1> QED BY <1>3, <1>4

\* s begins with r.
BeginsWith(s, r) == Len(r) <= Len(s) /\ \A i \in 1..Len(r) : s[i] = r[i]

\* More lines have the events of fewer lines, and then others.
LEMMA EventsPrefix ==
    ASSUME NEW lines \in Seq(Script), NEW n \in 0..Len(lines), NEW p \in 0..n
    PROVE  BeginsWith(EventsUpTo(lines, n), EventsUpTo(lines, p))
<1> DEFINE Bad == {i \in p..Len(lines) : ~BeginsWith(EventsUpTo(lines, i), EventsUpTo(lines, p))}
<1>1. SUFFICES ASSUME Bad # {} PROVE FALSE
  OBVIOUS
<1>2. PICK i \in Bad : \A j \in Bad : i <= j
  <2>1. Bad \in SUBSET Nat
    OBVIOUS
  <2> HIDE DEF Bad
  <2> QED BY <1>1, <2>1, Least
<1>3. p \in 0..Len(lines) /\ EventsUpTo(lines, p) \in Seq(Events)
  BY EventsTyped
<1>4. CASE i = p
  BY <1>2, <1>3, <1>4 DEF BeginsWith
<1>5. CASE i # p
  <2>1. /\ i - 1 \in p..Len(lines) /\ i - 1 \in 0..Len(lines) /\ i \in 1..Len(lines)
        /\ i - 1 \notin Bad
    BY <1>2, <1>5
  <2>2. /\ EventsUpTo(lines, i - 1) \in Seq(Events)
        /\ BeginsWith(EventsUpTo(lines, i - 1), EventsUpTo(lines, p))
    BY <2>1, EventsTyped
  <2>3. EventsOf(lines[i], MotdEnded(lines, i)) \in Seq(Events)
    <3>1. lines[i] \in Script
      BY <2>1
    <3> QED BY <3>1, LineEvents DEF MotdEnded
  <2>5. (i - 1) + 1 = i /\ i - 1 \in Nat
    BY <2>1
  <2>6. EventsUpTo(lines, i) = EventsUpTo(lines, i - 1) \o EventsOf(lines[i], MotdEnded(lines, i))
    <3>1. EventsUpTo(lines, (i - 1) + 1) =
            EventsUpTo(lines, i - 1) \o EventsOf(lines[(i - 1) + 1], MotdEnded(lines, (i - 1) + 1))
      BY <2>5, EventsNext, Zenon
    <3> QED BY <3>1, <2>5
  <2>7. \A r, s, t \in Seq(Events) : BeginsWith(s, r) => BeginsWith(s \o t, r)
    <3> SUFFICES ASSUME NEW r \in Seq(Events), NEW s \in Seq(Events), NEW t \in Seq(Events),
                        BeginsWith(s, r)
                 PROVE  BeginsWith(s \o t, r)
      OBVIOUS
    <3>1. Len(s \o t) = Len(s) + Len(t) /\ \A j \in 1..Len(s) : (s \o t)[j] = s[j]
      BY ConcatProperties
    <3> QED BY <3>1 DEF BeginsWith
  <2> QED BY <1>2, <1>3, <2>2, <2>3, <2>6, <2>7, Zenon
<1> QED BY <1>4, <1>5

-----------------------------------------------------------------------------
(* The stream to the client.                                               *)

\* The pieces of lines p + 1 to k of connection c, whole and in their order.
IsRest(c, s, p, k) ==
    /\ Len(s) = (k - p) * Pieces
    /\ \A i \in 1..k - p, j \in 1..Pieces : s[(i - 1) * Pieces + j] = Piece(c, p + i, j)

\* The place of a piece lies within the pieces of k lines.
LEMMA PieceWithin ==
    ASSUME NEW k \in Nat, NEW i \in 1..k, NEW j \in 1..Pieces
    PROVE  (i - 1) * Pieces + j \in 1..k * Pieces
<1> DEFINE before == (i - 1) * Pieces
           after == (k - i) * Pieces
           all == k * Pieces
<1>1. Pieces \in Nat /\ Pieces > 0
  BY IrcAssumption
<1>2. before \in Nat /\ after \in Nat /\ all \in Nat
  BY <1>1
<1>3. all = before + Pieces + after
  BY <1>1
<1> HIDE DEF before, after, all
<1>4. before + j \in 1..all
  BY <1>1, <1>2, <1>3
<1> QED BY <1>4 DEF before, all

\* A line after the rest makes a longer one.
LEMMA RestGrows ==
    ASSUME NEW c \in Nat, NEW p \in Nat, NEW k \in Nat, p <= k, NEW s \in Seq(Cell),
           IsRest(c, s, p, k)
    PROVE  IsRest(c, s \o PiecesOf(c, k + 1), p, k + 1)
<1> DEFINE q == PiecesOf(c, k + 1)
           t == s \o q
           n == k - p
<1>1. q \in Seq(Cell) /\ Len(q) = Pieces /\ \A j \in 1..Pieces : q[j] = Piece(c, k + 1, j)
  BY PiecesAreCells
<1>2. Pieces \in Nat /\ Pieces > 0 /\ n \in Nat
  BY IrcAssumption
<1>3. /\ Len(s) = n * Pieces
      /\ \A i \in 1..n, j \in 1..Pieces : s[(i - 1) * Pieces + j] = Piece(c, p + i, j)
  BY DEF IsRest
<1>4. (k + 1) - p = n + 1 /\ p + (n + 1) = k + 1
  OBVIOUS
<1> HIDE DEF q, n
<1>5. Len(t) = (n + 1) * Pieces
  <2>1. Len(t) = n * Pieces + Pieces
    BY <1>1, <1>3, ConcatProperties
  <2>2. (n + 1) * Pieces = n * Pieces + Pieces
    BY <1>2
  <2> QED BY <2>1, <2>2
<1>6. ASSUME NEW i \in 1..n, NEW j \in 1..Pieces
      PROVE  t[(i - 1) * Pieces + j] = Piece(c, p + i, j)
  <2>1. (i - 1) * Pieces + j \in 1..Len(s)
    BY <1>2, <1>3, PieceWithin
  <2> DEFINE x == (i - 1) * Pieces + j
  <2>2. s[x] = Piece(c, p + i, j)
    BY <1>3
  <2>3. t[x] = s[x]
    <3> HIDE DEF x
    <3>1. x \in 1..Len(s)
      BY <2>1 DEF x
    <3> QED BY <3>1, <1>1, ConcatProperties
  <2> QED BY <2>2, <2>3
<1>7. ASSUME NEW j \in 1..Pieces
      PROVE  t[n * Pieces + j] = Piece(c, k + 1, j)
  <2>1. n * Pieces \in Nat
    BY <1>2
  <2>2. n * Pieces + j \in Len(s) + 1..Len(s) + Len(q)
    BY <2>1, <1>1, <1>3
  <2>3. t[n * Pieces + j] = q[(n * Pieces + j) - Len(s)]
    <3>1. \A i \in Len(s) + 1..Len(s) + Len(q) : t[i] = q[i - Len(s)]
      BY <1>1, ConcatProperties
    <3> DEFINE at == n * Pieces + j
    <3>2. at \in Len(s) + 1..Len(s) + Len(q)
      BY <2>2
    <3> HIDE DEF t, at
    <3>3. t[at] = q[at - Len(s)]
      BY <3>1, <3>2, Zenon
    <3> QED BY <3>3 DEF at
  <2>4. (n * Pieces + j) - Len(s) = j
    BY <2>1, <1>3
  <2>5. t[n * Pieces + j] = q[j]
    BY <2>3, <2>4
  <2> QED BY <2>5, <1>1, Zenon
<1>8. \A i \in 1..n : \A j \in 1..Pieces : t[(i - 1) * Pieces + j] = Piece(c, p + i, j)
  BY <1>6, Zenon
<1>9. \A i \in 1..n + 1, j \in 1..Pieces : t[(i - 1) * Pieces + j] = Piece(c, p + i, j)
  <2> SUFFICES ASSUME NEW i \in 1..n + 1, NEW j \in 1..Pieces
               PROVE  t[(i - 1) * Pieces + j] = Piece(c, p + i, j)
    OBVIOUS
  <2>1. CASE i \in 1..n
    BY <2>1, <1>8, Zenon
  <2>2. CASE i = n + 1
    <3>1. i - 1 = n
      BY <2>2, <1>2
    <3> QED BY <3>1, <2>2, <1>4, <1>7
  <2>3. i \in 1..n \/ i = n + 1
    BY <1>2
  <2> QED BY <2>1, <2>2, <2>3, Zenon
<1> QED BY <1>4, <1>5, <1>9 DEF IsRest, q

\* The first line of the rest without it.
LEMMA RestShrinks ==
    ASSUME NEW c \in Nat, NEW p \in Nat, NEW k \in Nat, p < k, NEW s \in Seq(Cell),
           IsRest(c, s, p, k)
    PROVE  /\ Pieces \in 1..Len(s)
           /\ Take(s, Pieces) = PiecesOf(c, p + 1)
           /\ IsRest(c, Drop(s, Pieces), p + 1, k)
<1> DEFINE n == k - p
           t == Drop(s, Pieces)
<1>1. Pieces \in Nat /\ Pieces > 0 /\ n \in Nat /\ 1 \in 1..n /\ n - 1 \in Nat
  BY IrcAssumption
<1>2. /\ Len(s) = n * Pieces
      /\ \A i \in 1..n, j \in 1..Pieces : s[(i - 1) * Pieces + j] = Piece(c, p + i, j)
  BY DEF IsRest
<1>3. k - (p + 1) = n - 1 /\ p + 1 \in Nat
  OBVIOUS
<1> HIDE DEF n
<1>4. n * Pieces = Pieces + (n - 1) * Pieces /\ (n - 1) * Pieces \in Nat
  BY <1>1
<1>5. Pieces \in 1..Len(s) /\ Pieces \in 0..Len(s)
  <2> DEFINE rest == (n - 1) * Pieces
  <2>1. Len(s) = Pieces + rest /\ rest \in Nat
    BY <1>2, <1>4
  <2> HIDE DEF rest
  <2> QED BY <2>1, <1>1
<1>6. ASSUME NEW j \in 1..Pieces
      PROVE  s[j] = Piece(c, p + 1, j)
  <2>1. (1 - 1) * Pieces + j = j
    BY <1>1
  <2>2. s[(1 - 1) * Pieces + j] = Piece(c, p + 1, j)
    BY <1>1, <1>2
  <2> QED BY <2>1, <2>2
<1>7. Take(s, Pieces) = PiecesOf(c, p + 1)
  <2>1. Take(s, Pieces) = [j \in 1..Pieces |-> s[j]]
    BY <1>1, <1>5 DEF Take
  <2> QED BY <2>1, <1>6 DEF PiecesOf
<1>8. Len(t) = (n - 1) * Pieces
  <2>1. Len(t) = Len(s) - Pieces
    BY <1>5, TakeDrop
  <2> DEFINE rest == (n - 1) * Pieces
  <2>2. Len(s) = Pieces + rest /\ rest \in Nat
    BY <1>2, <1>4
  <2> HIDE DEF rest
  <2>3. Len(t) = rest
    BY <2>1, <2>2, <1>1
  <2> QED BY <2>3 DEF rest
<1>9. ASSUME NEW i \in 1..n - 1, NEW j \in 1..Pieces
      PROVE  t[(i - 1) * Pieces + j] = Piece(c, (p + 1) + i, j)
  <2> DEFINE at == (i - 1) * Pieces + j
  <2>1. at \in 1..Len(t)
    BY <1>1, <1>8, PieceWithin
  <2>2. t[at] = s[Pieces + at]
    <3>1. at \in Nat /\ at \in 1..Len(s) - Pieces
      BY <2>1, <1>5, TakeDrop
    <3> HIDE DEF at
    <3> QED BY <3>1, <1>1, <1>5 DEF Drop
  <2>3. Pieces + at = ((i + 1) - 1) * Pieces + j
    BY <1>1
  <2>4. i + 1 \in 1..n /\ p + (i + 1) = (p + 1) + i
    BY <1>1
  <2> QED BY <2>2, <2>3, <2>4, <1>2
<1>10. \A i \in 1..n - 1 : \A j \in 1..Pieces : t[(i - 1) * Pieces + j] = Piece(c, (p + 1) + i, j)
  BY <1>9, Zenon
<1> QED BY <1>3, <1>5, <1>7, <1>8, <1>10 DEF IsRest

\* The end that is found is the first.
LEMMA CrlfIsFirst ==
    ASSUME NEW buf \in Seq(Cell), FindCrlf(buf) > 0
    PROVE  /\ FindCrlf(buf) \in DOMAIN buf /\ Ends(buf[FindCrlf(buf)])
           /\ \A i \in DOMAIN buf : Ends(buf[i]) => FindCrlf(buf) <= i
<1> DEFINE ends == {i \in DOMAIN buf : Ends(buf[i])}
<1>1. ends # {}
  BY DEF FindCrlf
<1>2. ends \in SUBSET Nat
  OBVIOUS
<1>3. \E i \in ends : \A k \in ends : i <= k
  <2> HIDE DEF ends
  <2> QED BY <1>1, <1>2, Least
<1>4. FindCrlf(buf) = CHOOSE i \in ends : \A k \in ends : i <= k
  BY <1>1 DEF FindCrlf
<1>5. FindCrlf(buf) \in ends /\ \A k \in ends : FindCrlf(buf) <= k
  <2> HIDE DEF ends
  <2> QED BY <1>3, <1>4
<1> QED BY <1>5

\* The first line in a buffer is the line that was written next, whole.
LEMMA FirstIsNext ==
    ASSUME NEW c \in Nat, NEW p \in Nat, NEW k \in Nat, p <= k,
           NEW a \in Seq(Cell), NEW b \in Seq(Cell), IsRest(c, a \o b, p, k),
           FindCrlf(a) > 0
    PROVE  /\ p < k
           /\ Take(a, FindCrlf(a)) = PiecesOf(c, p + 1)
           /\ IsRest(c, Drop(a, FindCrlf(a)) \o b, p + 1, k)
<1> DEFINE s == a \o b
           e == FindCrlf(a)
<1>1. e \in 1..Len(a) /\ Ends(a[e]) /\ \A i \in 1..Len(a) : Ends(a[i]) => e <= i
  BY CrlfIsFirst
<1>2. /\ s \in Seq(Cell) /\ Len(s) = Len(a) + Len(b)
      /\ \A i \in 1..Len(a) : s[i] = a[i]
  BY ConcatProperties
<1>3. Pieces \in Nat /\ Pieces > 0
  BY IrcAssumption
<1> HIDE DEF s, e
<1>4. p < k
  <2> SUFFICES ASSUME p = k PROVE FALSE
    OBVIOUS
  <2>1. Len(s) = (k - p) * Pieces
    BY DEF IsRest, s
  <2>2. (k - p) * Pieces = 0
    BY <1>3
  <2> QED BY <2>1, <2>2, <1>1, <1>2
<1>5. /\ Pieces \in 1..Len(s)
      /\ Take(s, Pieces) = PiecesOf(c, p + 1)
      /\ IsRest(c, Drop(s, Pieces), p + 1, k)
  BY <1>2, <1>4, RestShrinks DEF s
<1>6. \A j \in 1..Pieces : s[j] = Piece(c, p + 1, j)
  <2>1. \A j \in 1..Pieces : Take(s, Pieces)[j] = s[j]
    BY <1>2, <1>3, <1>5 DEF Take
  <2> QED BY <2>1, <1>5 DEF PiecesOf
<1>7. e = Pieces
  <2>1. CASE e < Pieces
    <3>1. e \in 1..Pieces
      BY <2>1, <1>1, <1>3
    <3>2. a[e] = Piece(c, p + 1, e)
      BY <3>1, <1>1, <1>2, <1>6
    <3> QED BY <3>2, <2>1, <1>1, <1>3 DEF Ends, Piece
  <2>2. CASE e > Pieces
    <3>1. Pieces \in 1..Len(a) /\ Pieces \in 1..Pieces
      BY <2>2, <1>1, <1>3
    <3>2. a[Pieces] = Piece(c, p + 1, Pieces)
      BY <3>1, <1>2, <1>6
    <3>3. Ends(a[Pieces])
      BY <3>2 DEF Ends, Piece
    <3> QED BY <3>1, <3>3, <2>2, <1>1, <1>3
  <2> QED BY <2>1, <2>2, <1>1, <1>3
<1>8. Take(a, e) = Take(s, Pieces)
  <2>1. Take(a, e) = [j \in 1..Pieces |-> a[j]]
    BY <1>1, <1>3, <1>7 DEF Take
  <2>2. Take(s, Pieces) = [j \in 1..Pieces |-> s[j]]
    BY <1>2, <1>3, <1>5 DEF Take
  <2>3. \A j \in 1..Pieces : s[j] = a[j]
    BY <1>1, <1>2, <1>3, <1>7
  <2> QED BY <2>1, <2>2, <2>3
<1>9. Drop(a, e) \o b = Drop(s, Pieces)
  <2>1. e \in 0..Len(a)
    BY <1>1
  <2> QED BY <2>1, <1>7, DropsOfBoth DEF s
<1> QED BY <1>4, <1>5, <1>8, <1>9 DEF e

-----------------------------------------------------------------------------
(* What the application is told: w are the lines that the server wrote, t  *)
(* the event that was told last and q those that wait.                     *)

Event == [c : Nat, k : Nat, event : Events]

EventsSoFar(lines) == EventsUpTo(lines, Len(lines))

\* e is the event of a line that was written.
IsEventOf(w, e) ==
    /\ e.c \in DOMAIN w
    /\ e.k \in DOMAIN EventsSoFar(w[e.c])
    /\ e.event = EventsSoFar(w[e.c])[e.k]

\* b comes next after a: of the same connection, or the first of a later one.
Follows(a, b) ==
    /\ a # Nothing => a.c <= b.c
    /\ b.k = IF a # Nothing /\ a.c = b.c THEN a.k + 1 ELSE 1

Row(t, q, i) == IF i = 0 THEN t ELSE q[i]
InOrder(t, q) == \A i \in 1..Len(q) : Follows(Row(t, q, i - 1), q[i])

\* The last event is the n-th of connection c, or of an earlier one if n is 0.
Counts(last, n, c) ==
    /\ last # Nothing => last.c <= c
    /\ n = IF last # Nothing /\ last.c = c THEN last.k ELSE 0

\* The session made n events of the first lines of connection c, and the others
\* are on their way as s.
UpTo(lines, c, s, n, m) ==
    \E p \in 0..Len(lines) :
        /\ IsRest(c, s, p, Len(lines))
        /\ n = Len(EventsUpTo(lines, p))
        /\ m = MotdEnded(lines, p + 1)

Living == state \in {"CONNECTING", "CONNECTED"}

FeedInv ==
    /\ told \in Event \cup {Nothing} /\ queue \in Seq(Event) /\ taken \in Nat
    /\ \A i \in 1..Len(queue) : IsEventOf(wrote, queue[i])
    /\ InOrder(told, queue)
    /\ Counts(Row(told, queue, Len(queue)), taken, conn)
    /\ pc = "start" => inbuf = <<>>
    /\ pc = "lines" => Connected
    /\ Living => UpTo(wrote[conn], conn, inbuf \o s2c, taken, motd)

\* An event stays that of its line when the server writes more.
LEMMA EventStays ==
    ASSUME NEW w, NEW v \in Seq(Seq(Script)), NEW e,
           \A c \in DOMAIN w : /\ c \in DOMAIN v
                              /\ w[c] \in Seq(Script) /\ Len(w[c]) <= Len(v[c])
                              /\ \A i \in 1..Len(w[c]) : v[c][i] = w[c][i],
           IsEventOf(w, e)
    PROVE  IsEventOf(v, e)
<1> DEFINE a == w[e.c]
           b == v[e.c]
<1>1. /\ e.c \in DOMAIN v /\ a \in Seq(Script) /\ b \in Seq(Script)
      /\ Len(a) <= Len(b) /\ \A i \in 1..Len(a) : b[i] = a[i]
  BY DEF IsEventOf
<1>2. e.k \in DOMAIN EventsSoFar(a) /\ e.event = EventsSoFar(a)[e.k]
  BY DEF IsEventOf
<1> HIDE DEF a, b
<1>3. Len(a) \in Nat /\ Len(b) \in Nat /\ Len(a) \in 0..Len(b)
  BY <1>1
<1>4. EventsUpTo(a, Len(a)) = EventsUpTo(b, Len(a))
  <2>1. \A i \in 1..Len(a) : a[i] = b[i]
    BY <1>1
  <2> QED BY <1>3, <2>1, EventsSame
<1>5. BeginsWith(EventsUpTo(b, Len(b)), EventsUpTo(b, Len(a)))
  <2>1. Len(b) \in 0..Len(b)
    BY <1>3
  <2> QED BY <1>1, <1>3, <2>1, EventsPrefix
<1>6. EventsUpTo(b, Len(a)) \in Seq(Events) /\ EventsUpTo(b, Len(b)) \in Seq(Events)
  BY <1>1, <1>3, EventsTyped
<1>7. e.k \in DOMAIN EventsSoFar(b) /\ e.event = EventsSoFar(b)[e.k]
  <2> DEFINE x == EventsUpTo(b, Len(a))
             y == EventsUpTo(b, Len(b))
  <2>1. x \in Seq(Events) /\ y \in Seq(Events) /\ BeginsWith(y, x)
    BY <1>5, <1>6
  <2>2. e.k \in DOMAIN x /\ e.event = x[e.k]
    BY <1>2, <1>4 DEF EventsSoFar
  <2>3. EventsSoFar(b) = y
    BY DEF EventsSoFar
  <2> HIDE DEF x, y
  <2>4. e.k \in 1..Len(x) /\ Len(x) <= Len(y)
    BY <2>1, <2>2 DEF BeginsWith
  <2>5. e.k \in DOMAIN y /\ y[e.k] = x[e.k]
    BY <2>1, <2>4 DEF BeginsWith
  <2> QED BY <2>2, <2>3, <2>5
<1> QED BY <1>1, <1>7 DEF IsEventOf, b

\* The first event that waits is told, and the others wait behind it.
LEMMA HandledInOrder ==
    ASSUME NEW t, NEW q \in Seq(Event), q # <<>>, InOrder(t, q)
    PROVE  /\ Head(q) = q[1] /\ Tail(q) \in Seq(Event) /\ Len(Tail(q)) = Len(q) - 1
           /\ \A i \in 1..Len(Tail(q)) : Tail(q)[i] = q[i + 1]
           /\ Follows(t, q[1])
           /\ InOrder(q[1], Tail(q))
           /\ Row(q[1], Tail(q), Len(Tail(q))) = Row(t, q, Len(q))
<1> DEFINE r == Tail(q)
<1>1. Len(q) > 0 /\ Len(q) \in Nat
  BY EmptySeq
<1>2. /\ Head(q) = q[1] /\ r \in Seq(Event) /\ Len(r) = Len(q) - 1
      /\ \A i \in 1..Len(r) : r[i] = q[i + 1]
  BY HeadTailProperties
<1> HIDE DEF r
<1>3. Follows(t, q[1])
  BY <1>1 DEF InOrder, Row
<1>4. ASSUME NEW i \in 1..Len(r)
      PROVE  Follows(Row(q[1], r, i - 1), r[i])
  <2>1. i + 1 \in 1..Len(q) /\ (i + 1) - 1 = i /\ i # 0
    BY <1>1, <1>2
  <2>2. Follows(q[i], q[i + 1])
    BY <2>1 DEF InOrder, Row
  <2>3. Row(q[1], r, i - 1) = q[i]
    BY <2>1, <1>2 DEF Row
  <2> QED BY <2>2, <2>3, <1>2
<1>5. Row(q[1], r, Len(r)) = Row(t, q, Len(q))
  BY <1>1, <1>2 DEF Row
<1> QED BY <1>2, <1>3, <1>4, <1>5 DEF InOrder, r

\* The events that a line makes.
EventsMade(c, n, es) == [i \in DOMAIN es |-> [c |-> c, k |-> n + i, event |-> es[i]]]

\* Events that are made wait in their order behind the others.
LEMMA MadeInOrder ==
    ASSUME NEW t, NEW q \in Seq(Event), NEW c \in Nat, NEW n \in Nat,
           NEW es \in Seq(Events), InOrder(t, q), Counts(Row(t, q, Len(q)), n, c)
    PROVE  /\ EventsMade(c, n, es) \in Seq(Event)
           /\ Len(EventsMade(c, n, es)) = Len(es)
           /\ q \o EventsMade(c, n, es) \in Seq(Event)
           /\ InOrder(t, q \o EventsMade(c, n, es))
           /\ Counts(Row(t, q \o EventsMade(c, n, es), Len(q \o EventsMade(c, n, es))),
                     n + Len(es), c)
<1> DEFINE new == EventsMade(c, n, es)
           r == q \o new
<1>1. /\ new \in Seq(Event) /\ Len(new) = Len(es)
      /\ \A i \in 1..Len(es) : new[i] = [c |-> c, k |-> n + i, event |-> es[i]]
  <2>1. DOMAIN es = 1..Len(es) /\ Len(es) \in Nat
    OBVIOUS
  <2>2. \A i \in 1..Len(es) : [c |-> c, k |-> n + i, event |-> es[i]] \in Event
    <3>1. \A i \in 1..Len(es) : n + i \in Nat /\ es[i] \in Events
      OBVIOUS
    <3> QED BY <3>1 DEF Event
  <2>3. new = [i \in 1..Len(es) |-> [c |-> c, k |-> n + i, event |-> es[i]]]
    BY <2>1 DEF EventsMade
  <2> HIDE DEF new
  <2> QED BY <2>1, <2>2, <2>3
<1> HIDE DEF new
<1>2. /\ r \in Seq(Event) /\ Len(r) = Len(q) + Len(es)
      /\ \A i \in 1..Len(q) : r[i] = q[i]
      /\ \A i \in Len(q) + 1..Len(q) + Len(es) : r[i] = new[i - Len(q)]
  <2>1. /\ r \in Seq(Event) /\ Len(r) = Len(q) + Len(new)
        /\ \A i \in 1..Len(q) : r[i] = q[i]
        /\ \A i \in Len(q) + 1..Len(q) + Len(new) : r[i] = new[i - Len(q)]
    <3>1. new \in Seq(Event)
      BY <1>1
    <3> QED BY <3>1, ConcatProperties
  <2>2. Len(new) = Len(es)
    BY <1>1
  <2> HIDE DEF r
  <2> QED BY <2>1, <2>2
<1> HIDE DEF r
<1>3. \A i \in 1..Len(es) : r[Len(q) + i] = [c |-> c, k |-> n + i, event |-> es[i]]
  <2> SUFFICES ASSUME NEW i \in 1..Len(es)
               PROVE  r[Len(q) + i] = [c |-> c, k |-> n + i, event |-> es[i]]
    OBVIOUS
  <2>1. Len(q) + i \in Len(q) + 1..Len(q) + Len(es) /\ (Len(q) + i) - Len(q) = i
    OBVIOUS
  <2> QED BY <2>1, <1>1, <1>2
<1>4. \A i \in 1..Len(es) : r[Len(q) + i] # Nothing
  <2>1. \A i \in 1..Len(es) : Len(q) + i \in 1..Len(r)
    BY <1>2
  <2>2. \A i \in 1..Len(es) : r[Len(q) + i] \in Event
    BY <1>2, <2>1
  <2> QED BY <2>2, NothingAssumption DEF Event
<1>5. \A i \in 0..Len(q) : Row(t, r, i) = Row(t, q, i)
  BY <1>2 DEF Row
<1>6. ASSUME NEW i \in 1..Len(r)
      PROVE  Follows(Row(t, r, i - 1), r[i])
  <2>1. CASE i <= Len(q)
    <3>1. i \in 1..Len(q) /\ i - 1 \in 0..Len(q)
      BY <2>1
    <3> QED BY <3>1, <1>2, <1>5 DEF InOrder
  <2>2. CASE i = Len(q) + 1
    <3>1. r[i].c = c /\ r[i].k = n + 1
      <4>1. 1 \in 1..Len(es)
        BY <2>2, <1>2
      <4>2. r[Len(q) + 1] = [c |-> c, k |-> n + 1, event |-> es[1]]
        BY <4>1, <1>3
      <4> QED BY <4>2, <2>2
    <3>2. Row(t, r, i - 1) = Row(t, q, Len(q))
      BY <2>2, <1>5
    <3> QED BY <3>1, <3>2 DEF Follows, Counts
  <2>3. CASE i > Len(q) + 1
    <3> DEFINE j == i - Len(q)
    <3>1. j \in 1..Len(es) /\ j - 1 \in 1..Len(es) /\ i = Len(q) + j /\ i - 1 = Len(q) + (j - 1)
          /\ i - 1 # 0
      BY <2>3, <1>2
    <3> HIDE DEF j
    <3>2. r[i] = [c |-> c, k |-> n + j, event |-> es[j]]
      BY <3>1, <1>3
    <3>3. r[i - 1] = [c |-> c, k |-> n + (j - 1), event |-> es[j - 1]] /\ r[i - 1] # Nothing
      BY <3>1, <1>3, <1>4
    <3>4. Row(t, r, i - 1) = r[i - 1]
      BY <3>1 DEF Row
    <3>5. /\ r[i].c = c /\ r[i].k = n + j
          /\ r[i - 1].c = c /\ r[i - 1].k = n + (j - 1)
      BY <3>2, <3>3
    <3>6. (n + (j - 1)) + 1 = n + j
      BY <3>1
    <3> QED BY <3>3, <3>4, <3>5, <3>6 DEF Follows
  <2> QED BY <2>1, <2>2, <2>3, <1>2
<1>7. Counts(Row(t, r, Len(r)), n + Len(es), c)
  <2>1. CASE Len(es) = 0
    BY <2>1, <1>2, <1>5
  <2>2. CASE Len(es) # 0
    <3>1. Len(es) \in 1..Len(es) /\ Len(r) # 0
      BY <2>2, <1>2
    <3>2. Row(t, r, Len(r)) = r[Len(q) + Len(es)]
      BY <3>1, <1>2 DEF Row
    <3>3. /\ r[Len(q) + Len(es)] # Nothing
          /\ r[Len(q) + Len(es)].c = c /\ r[Len(q) + Len(es)].k = n + Len(es)
      <4>1. r[Len(q) + Len(es)] = [c |-> c, k |-> n + Len(es), event |-> es[Len(es)]]
        BY <3>1, <1>3
      <4> QED BY <4>1, <3>1, <1>4
    <3> DEFINE last == Row(t, r, Len(r))
               m == n + Len(es)
    <3>4. last # Nothing /\ last.c = c /\ last.k = m
      BY <3>2, <3>3
    <3> HIDE DEF last, m
    <3>5. Counts(last, m, c)
      BY <3>4 DEF Counts
    <3> QED BY <3>5 DEF last, m
  <2> QED BY <2>1, <2>2
<1> QED BY <1>1, <1>2, <1>6, <1>7 DEF InOrder, r, new

\* The server writes one line more.
LEMMA MoreOnTheWay ==
    ASSUME NEW lines \in Seq(Script), NEW l \in Script, NEW c \in Nat, NEW s \in Seq(Cell),
           NEW n, NEW m, UpTo(lines, c, s, n, m)
    PROVE  UpTo(Append(lines, l), c, s \o PiecesOf(c, Len(lines) + 1), n, m)
<1> DEFINE more == Append(lines, l)
           k == Len(lines)
<1>1. PICK p \in 0..k : /\ IsRest(c, s, p, k)
                       /\ n = Len(EventsUpTo(lines, p))
                       /\ m = MotdEnded(lines, p + 1)
  BY DEF UpTo
<1>2. k \in Nat /\ p \in Nat /\ p <= k /\ p \in 0..k + 1
  BY <1>1
<1>3. Len(more) = k + 1 /\ \A i \in 1..k : more[i] = lines[i]
  BY AppendProperties
<1> HIDE DEF more, k
<1>4. IsRest(c, s \o PiecesOf(c, k + 1), p, k + 1)
  BY <1>1, <1>2, RestGrows
<1>5. \A i \in 1..p : lines[i] = more[i]
  BY <1>2, <1>3
<1>6. EventsUpTo(lines, p) = EventsUpTo(more, p)
  BY <1>2, <1>5, EventsSame
<1>7. MotdEnded(lines, p + 1) = MotdEnded(more, p + 1)
  BY <1>2, <1>5 DEF MotdEnded
<1> QED BY <1>1, <1>2, <1>3, <1>4, <1>6, <1>7 DEF UpTo, more, k

\* The first line in the buffer is one that was written, and its events come next.
LEMMA NextLine ==
    ASSUME NEW lines \in Seq(Script), NEW c \in Nat, NEW a \in Seq(Cell), NEW b \in Seq(Cell),
           NEW n, NEW m, UpTo(lines, c, a \o b, n, m), FindCrlf(a) > 0
    PROVE  \E p \in 1..Len(lines) :
             LET es == EventsOf(lines[p], m)
             IN  /\ Take(a, FindCrlf(a)) = PiecesOf(c, p)
                 /\ es \in Seq(Events)
                 /\ \A i \in 1..Len(es) : /\ n + i \in DOMAIN EventsSoFar(lines)
                                        /\ es[i] = EventsSoFar(lines)[n + i]
                 /\ UpTo(lines, c, Drop(a, FindCrlf(a)) \o b, n + Len(es),
                         m \/ EndsMotd(lines[p]))
<1> DEFINE k == Len(lines)
<1>1. PICK p \in 0..k : /\ IsRest(c, a \o b, p, k)
                       /\ n = Len(EventsUpTo(lines, p))
                       /\ m = MotdEnded(lines, p + 1)
  BY DEF UpTo
<1>2. k \in Nat /\ p \in Nat /\ p <= k
  BY <1>1
<1>3. /\ p < k
      /\ Take(a, FindCrlf(a)) = PiecesOf(c, p + 1)
      /\ IsRest(c, Drop(a, FindCrlf(a)) \o b, p + 1, k)
  BY <1>1, <1>2, FirstIsNext
<1> DEFINE es == EventsOf(lines[p + 1], m)
           before == EventsUpTo(lines, p)
           after == EventsUpTo(lines, p + 1)
           all == EventsUpTo(lines, k)
<1>4. p + 1 \in 1..k /\ p + 1 \in 0..k /\ k \in 0..k
  BY <1>2, <1>3
<1>5. es \in Seq(Events)
  <2>1. lines[p + 1] \in Script /\ m \in BOOLEAN
    BY <1>1, <1>4 DEF MotdEnded
  <2> QED BY <2>1, LineEvents
<1>6. before \in Seq(Events) /\ after \in Seq(Events) /\ all \in Seq(Events)
  BY <1>1, <1>4, EventsTyped
<1>7. after = before \o es
  BY <1>1, <1>2, EventsNext
<1>8. BeginsWith(all, after)
  BY <1>4, EventsPrefix
<1>9. n = Len(before)
  BY <1>1
<1>10. EventsSoFar(lines) = all
  BY DEF EventsSoFar
<1> HIDE DEF es, before, after, all
<1>11. /\ Len(after) = n + Len(es)
       /\ \A i \in 1..Len(es) : after[n + i] = es[i]
  <2>1. Len(after) = Len(before) + Len(es)
    BY <1>5, <1>6, <1>7, ConcatProperties
  <2>2. \A i \in 1..Len(es) : after[Len(before) + i] = es[i]
    BY <1>5, <1>6, <1>7
  <2> QED BY <2>1, <2>2, <1>9
<1>12. \A i \in 1..Len(es) : n + i \in DOMAIN all /\ es[i] = all[n + i]
  <2> SUFFICES ASSUME NEW i \in 1..Len(es)
               PROVE  n + i \in DOMAIN all /\ es[i] = all[n + i]
    OBVIOUS
  <2>1. n \in Nat /\ Len(es) \in Nat /\ Len(after) \in Nat /\ Len(all) \in Nat
    BY <1>5, <1>6, <1>9
  <2>2. n + i \in 1..Len(after) /\ after[n + i] = es[i]
    BY <2>1, <1>11
  <2>3. n + i \in 1..Len(all) /\ all[n + i] = after[n + i]
    BY <2>1, <2>2, <1>8 DEF BeginsWith
  <2> QED BY <2>2, <2>3, <1>6
<1>13. MotdEnded(lines, (p + 1) + 1) = (m \/ EndsMotd(lines[p + 1]))
  <2>1. \A j : j \in 1..(p + 1 + 1) - 1 <=> j \in 1..(p + 1) - 1 \/ j = p + 1
    BY <1>2
  <2> QED BY <2>1, <1>1 DEF MotdEnded
<1>14. UpTo(lines, c, Drop(a, FindCrlf(a)) \o b, n + Len(es), m \/ EndsMotd(lines[p + 1]))
  BY <1>3, <1>4, <1>11, <1>13 DEF UpTo, after
<1> QED BY <1>3, <1>4, <1>5, <1>10, <1>12, <1>14 DEF es

-----------------------------------------------------------------------------
(* The steps.                                                              *)

LEMMA FeedInit == Init => FeedInv
<1> SUFFICES ASSUME Init PROVE FeedInv
  OBVIOUS
<1>1. /\ state = "INIT" /\ conn = 0 /\ inbuf = <<>> /\ queue = <<>> /\ taken = 0
      /\ told = Nothing /\ pc = "start"
  BY DEF Init, SessionInit
<1>2. queue \in Seq(Event) /\ Len(queue) = 0
  BY <1>1, EmptySeq
<1>3. InOrder(told, queue) /\ Counts(Row(told, queue, Len(queue)), taken, conn)
  BY <1>1, <1>2 DEF InOrder, Counts, Row
<1> QED BY <1>1, <1>2, <1>3 DEF FeedInv, Living

\* A step that makes no event, tells none, and leaves the stream to the client as
\* it is, while the session lives.
LEMMA FeedKept ==
    ASSUME FeedInv, UNCHANGED <<wrote, conn, queue, taken, told>>,
           Living' => Living /\ motd' = motd /\ inbuf' \o s2c' = inbuf \o s2c,
           pc' = "start" => pc = "start" /\ inbuf' = inbuf,
           pc' = "lines" => Connected'
    PROVE  FeedInv'
BY DEF FeedInv

\* A new connection begins with nothing on its way.
LEMMA ConnectFed ==
    ASSUME Typed, FeedInv, Connect, inbuf = <<>>, UNCHANGED told,
           pc' \notin {"start", "lines"}
    PROVE  FeedInv'
<1>1. /\ conn' = conn + 1 /\ motd' = FALSE /\ wrote' = Append(wrote, <<>>) /\ s2c' = <<>>
      /\ inbuf' = <<>> /\ taken' = 0 /\ queue' = queue
  BY DEF Connect
<1>2. conn \in Nat /\ Len(wrote) = conn /\ wrote \in Seq(Seq(Script))
  BY IrcAssumption DEF Typed, Lived
<1>3. /\ wrote' \in Seq(Seq(Script)) /\ Len(wrote') = conn'
      /\ \A c \in 1..conn : wrote'[c] = wrote[c]
      /\ wrote'[conn'] = <<>>
  <2>1. <<>> \in Seq(Script)
    OBVIOUS
  <2> QED BY <2>1, <1>1, <1>2, AppendProperties
<1>4. \A i \in 1..Len(queue') : IsEventOf(wrote', queue'[i])
  <2>1. \A c \in DOMAIN wrote : /\ c \in DOMAIN wrote'
                               /\ wrote[c] \in Seq(Script) /\ Len(wrote[c]) <= Len(wrote'[c])
                               /\ \A i \in 1..Len(wrote[c]) : wrote'[c][i] = wrote[c][i]
    <3> SUFFICES ASSUME NEW c \in DOMAIN wrote
                 PROVE  /\ c \in DOMAIN wrote' /\ wrote[c] \in Seq(Script) /\ wrote'[c] = wrote[c]
      OBVIOUS
    <3>1. c \in 1..conn
      BY <1>2
    <3> QED BY <3>1, <1>1, <1>2, <1>3
  <2>2. \A e : IsEventOf(wrote, e) => IsEventOf(wrote', e)
    BY <2>1, <1>3, EventStays
  <2> QED BY <2>2, <1>1 DEF FeedInv
<1>5. Counts(Row(told, queue, Len(queue)), 0, conn + 1)
  <2> DEFINE last == Row(told, queue, Len(queue))
  <2>1. Counts(last, taken, conn) /\ last \in Event \cup {Nothing}
    <3>1. Len(queue) = 0 \/ Len(queue) \in 1..Len(queue)
      BY DEF FeedInv
    <3> QED BY <3>1 DEF FeedInv, Row
  <2> HIDE DEF last
  <2>2. last # Nothing => last.c \in Nat
    BY <2>1 DEF Event
  <2> QED BY <2>1, <2>2, <1>2 DEF Counts, last
<1>6. UpTo(wrote'[conn'], conn', inbuf' \o s2c', taken', motd')
  <2>1. inbuf' \o s2c' = <<>>
    BY <1>1
  <2>2. IsRest(conn', <<>>, 0, 0)
    BY IrcAssumption DEF IsRest
  <2>3. Len(EventsUpTo(<<>>, 0)) = 0 /\ ~MotdEnded(<<>>, 0 + 1)
    BY EventsStart DEF MotdEnded
  <2>4. UpTo(<<>>, conn', <<>>, 0, FALSE)
    BY <2>2, <2>3 DEF UpTo
  <2> QED BY <2>1, <2>4, <1>1, <1>3
<1>7. InOrder(told', queue') /\ Counts(Row(told', queue', Len(queue')), taken', conn')
  BY <1>1, <1>5 DEF FeedInv
<1> QED BY <1>1, <1>4, <1>6, <1>7 DEF FeedInv

\* The server writes a line on a living connection.
LEMMA WritesFed ==
    ASSUME Typed, FeedInv, NEW l \in Script, ServerWrites(l),
           UNCHANGED <<state, conn, motd, inbuf, queue, taken, pc, told>>
    PROVE  /\ FeedInv'
           /\ wrote # <<>> /\ wrote' = [wrote EXCEPT ![Len(wrote)] = Append(@, l)]
<1> DEFINE lines == wrote[conn]
<1>1. /\ Connected /\ wrote' = [wrote EXCEPT ![conn] = Append(@, l)]
      /\ s2c' = s2c \o PiecesOf(conn, Len(lines) + 1)
  BY DEF ServerWrites
<1>2. /\ conn \in Nat /\ wrote \in Seq(Seq(Script)) /\ Len(wrote) = conn /\ conn > 0
      /\ conn \in DOMAIN wrote /\ lines \in Seq(Script)
  BY <1>1, IrcAssumption DEF Typed, Lived, Connected
<1>3. /\ wrote' \in Seq(Seq(Script)) /\ DOMAIN wrote' = DOMAIN wrote
      /\ wrote'[conn] = Append(lines, l)
      /\ \A c \in DOMAIN wrote : c # conn => wrote'[c] = wrote[c]
  <2>1. Append(lines, l) \in Seq(Script)
    BY <1>2, AppendProperties
  <2> QED BY <2>1, <1>1, <1>2, ExceptSeq
<1>4. \A i \in 1..Len(queue') : IsEventOf(wrote', queue'[i])
  <2>1. \A c \in DOMAIN wrote : /\ c \in DOMAIN wrote'
                               /\ wrote[c] \in Seq(Script) /\ Len(wrote[c]) <= Len(wrote'[c])
                               /\ \A i \in 1..Len(wrote[c]) : wrote'[c][i] = wrote[c][i]
    <3> SUFFICES ASSUME NEW c \in DOMAIN wrote
                 PROVE  /\ c \in DOMAIN wrote'
                        /\ wrote[c] \in Seq(Script) /\ Len(wrote[c]) <= Len(wrote'[c])
                        /\ \A i \in 1..Len(wrote[c]) : wrote'[c][i] = wrote[c][i]
      OBVIOUS
    <3>1. CASE c = conn
      <4>1. /\ Len(Append(lines, l)) = Len(lines) + 1
            /\ \A i \in 1..Len(lines) : Append(lines, l)[i] = lines[i]
        BY <1>2, AppendProperties
      <4> QED BY <3>1, <4>1, <1>2, <1>3
    <3>2. CASE c # conn
      <4>1. wrote'[c] = wrote[c] /\ wrote[c] \in Seq(Script) /\ c \in DOMAIN wrote'
        BY <3>2, <1>2, <1>3
      <4> QED BY <4>1
    <3> QED BY <3>1, <3>2
  <2>2. \A e : IsEventOf(wrote, e) => IsEventOf(wrote', e)
    BY <2>1, <1>3, EventStays
  <2> QED BY <2>2 DEF FeedInv
<1>5. UpTo(wrote'[conn'], conn', inbuf' \o s2c', taken', motd')
  <2> DEFINE s == inbuf \o s2c
             q == PiecesOf(conn, Len(lines) + 1)
  <2>1. inbuf \in Seq(Cell) /\ s2c \in Seq(Cell) /\ q \in Seq(Cell) /\ s \in Seq(Cell)
    <3>1. inbuf \in Seq(Cell) /\ s2c \in Seq(Cell)
      BY DEF Typed, Buffered
    <3>2. Len(lines) + 1 \in Nat
      BY <1>2
    <3> QED BY <3>1, <3>2, <1>2, PiecesAreCells, ConcatProperties
  <2>2. UpTo(lines, conn, s, taken, motd)
    BY <1>1 DEF FeedInv, Living, Connected
  <2>3. UpTo(Append(lines, l), conn, s \o q, taken, motd)
    <3> HIDE DEF s, lines
    <3> QED BY <2>1, <2>2, <1>2, MoreOnTheWay
  <2>4. inbuf \o (s2c \o q) = s \o q
    <3> HIDE DEF q
    <3> QED BY <2>1, ConcatAssociative
  <2> QED BY <2>3, <2>4, <1>1, <1>3
<1>6. FeedInv'
  BY <1>1, <1>4, <1>5 DEF FeedInv, Connected
<1>7. wrote # <<>>
  BY <1>2
<1> QED BY <1>1, <1>2, <1>6, <1>7

\* The event that is handled is one that may be told next.
LEMMA HandlesFed ==
    ASSUME Typed, FeedInv, Handles
    PROVE  FeedInv' /\ IsEventOf(wrote, told') /\ Follows(told, told') /\ told' \in Event
<1>1. /\ queue # <<>> /\ told' = Head(queue) /\ queue' = Tail(queue)
      /\ UNCHANGED <<wrote, conn, taken, state, motd, inbuf, s2c, pc>>
  BY DEF Handles, sockVars
<1>2. queue \in Seq(Event) /\ InOrder(told, queue)
  BY DEF FeedInv
<1>3. /\ Head(queue) = queue[1] /\ Tail(queue) \in Seq(Event)
      /\ Len(Tail(queue)) = Len(queue) - 1
      /\ \A i \in 1..Len(Tail(queue)) : Tail(queue)[i] = queue[i + 1]
      /\ Follows(told, queue[1])
      /\ InOrder(queue[1], Tail(queue))
      /\ Row(queue[1], Tail(queue), Len(Tail(queue))) = Row(told, queue, Len(queue))
  BY <1>1, <1>2, HandledInOrder
<1>4. 1 \in 1..Len(queue) /\ queue[1] \in Event
  BY <1>1, <1>2
<1>5. \A i \in 1..Len(queue') : IsEventOf(wrote', queue'[i])
  <2> SUFFICES ASSUME NEW i \in 1..Len(Tail(queue))
               PROVE  IsEventOf(wrote, Tail(queue)[i])
    BY <1>1
  <2>1. i + 1 \in 1..Len(queue)
    BY <1>2, <1>3
  <2> QED BY <2>1, <1>3 DEF FeedInv
<1>6. /\ told' = queue[1] /\ queue' \in Seq(Event)
      /\ InOrder(told', queue') /\ Row(told', queue', Len(queue')) = Row(told, queue, Len(queue))
  BY <1>1, <1>3
<1>7. Living' => Living /\ inbuf' \o s2c' = inbuf \o s2c
  BY <1>1 DEF Living
<1>8. FeedInv'
  BY <1>1, <1>4, <1>5, <1>6, <1>7 DEF FeedInv, Connected
<1> QED BY <1>3, <1>4, <1>6, <1>8 DEF FeedInv

\* A line that is handled was written whole, and its events wait behind the others.
LEMMA ProcessesFed ==
    ASSUME Typed, FeedInv, ProcessesLine
    PROVE  FeedInv' /\ UNCHANGED <<wrote, told>>
<1> DEFINE lines == wrote[conn]
           end == FindCrlf(inbuf)
           line == Take(inbuf, end)
           s == Drop(inbuf, end) \o s2c
<1>1. /\ pc = "lines" /\ end > 0 /\ Processes
      /\ UNCHANGED <<pc, ready, told, other, state, conn, s2c, closed, wrote, heard>>
  BY DEF ProcessesLine, Processes, sockVars
<1>2. /\ Connected /\ UpTo(lines, conn, inbuf \o s2c, taken, motd)
      /\ queue \in Seq(Event) /\ taken \in Nat /\ InOrder(told, queue)
      /\ Counts(Row(told, queue, Len(queue)), taken, conn)
  BY <1>1 DEF FeedInv, Living, Connected
<1>3. /\ conn \in Nat /\ conn \in DOMAIN wrote /\ lines \in Seq(Script)
      /\ inbuf \in Seq(Cell) /\ s2c \in Seq(Cell)
  BY <1>2, IrcAssumption DEF Typed, Lived, Buffered, Connected
<1>4. PICK p \in 1..Len(lines) :
        LET es == EventsOf(lines[p], motd)
        IN  /\ line = PiecesOf(conn, p)
            /\ es \in Seq(Events)
            /\ \A i \in 1..Len(es) : /\ taken + i \in DOMAIN EventsSoFar(lines)
                                   /\ es[i] = EventsSoFar(lines)[taken + i]
            /\ UpTo(lines, conn, s, taken + Len(es), motd \/ EndsMotd(lines[p]))
  <2> HIDE DEF lines
  <2> QED BY <1>1, <1>2, <1>3, NextLine
<1> DEFINE es == EventsOf(lines[p], motd)
<1>5. IsWhole(line) /\ Received(line) = lines[p]
  <2>1. 1 \in 1..Pieces
    BY IrcAssumption
  <2>2. line[1] = Piece(conn, p, 1)
    BY <2>1, <1>4 DEF PiecesOf
  <2>3. line[1].c = conn /\ line[1].i = p
    BY <2>2 DEF Piece
  <2> QED BY <2>3, <1>4 DEF IsWhole, Received
<1>6. /\ inbuf' = Drop(inbuf, end) /\ motd' = (motd \/ EndsMotd(lines[p]))
      /\ queue' = queue \o EventsMade(conn, taken, es) /\ taken' = taken + Len(es)
  <2>1. Queued(es) = EventsMade(conn, taken, es)
    BY DEF Queued, EventsMade
  <2> HIDE DEF lines
  <2>2. Queues(es) /\ motd' = (motd \/ EndsMotd(lines[p])) /\ inbuf' = Drop(inbuf, end)
    BY <1>1, <1>5 DEF Processes
  <2> QED BY <2>1, <2>2 DEF Queues
<1> DEFINE new == EventsMade(conn, taken, es)
<1>7. /\ new \in Seq(Event) /\ Len(new) = Len(es)
      /\ queue \o new \in Seq(Event)
      /\ InOrder(told, queue \o new)
      /\ Counts(Row(told, queue \o new, Len(queue \o new)), taken + Len(es), conn)
  <2> HIDE DEF es
  <2> QED BY <1>2, <1>3, <1>4, MadeInOrder DEF es
<1>8. \A i \in 1..Len(new) : IsEventOf(wrote, new[i])
  <2> SUFFICES ASSUME NEW i \in 1..Len(es) PROVE IsEventOf(wrote, new[i])
    BY <1>7
  <2>1. new[i] = [c |-> conn, k |-> taken + i, event |-> es[i]]
    BY <1>4 DEF EventsMade
  <2>2. taken + i \in DOMAIN EventsSoFar(lines) /\ es[i] = EventsSoFar(lines)[taken + i]
    BY <1>4
  <2> HIDE DEF new, es
  <2> QED BY <2>1, <2>2, <1>3 DEF IsEventOf
<1>9. \A i \in 1..Len(queue \o new) : IsEventOf(wrote, (queue \o new)[i])
  <2> SUFFICES ASSUME NEW i \in 1..Len(queue \o new)
               PROVE  IsEventOf(wrote, (queue \o new)[i])
    OBVIOUS
  <2> HIDE DEF new
  <2>1. /\ Len(queue \o new) = Len(queue) + Len(new)
        /\ (queue \o new)[i] = IF i <= Len(queue) THEN queue[i] ELSE new[i - Len(queue)]
    BY <1>2, <1>7, ConcatProperties
  <2>2. CASE i <= Len(queue)
    <3>1. i \in 1..Len(queue)
      BY <2>2
    <3> QED BY <2>1, <2>2, <3>1 DEF FeedInv
  <2>3. CASE ~(i <= Len(queue))
    <3>1. i - Len(queue) \in 1..Len(new)
      BY <2>1, <2>3, <1>2, <1>7
    <3> QED BY <2>1, <2>3, <3>1, <1>8
  <2> QED BY <2>2, <2>3
<1>10. UpTo(wrote'[conn'], conn', inbuf' \o s2c', taken', motd')
  BY <1>1, <1>4, <1>6
<1>11. /\ queue' \in Seq(Event) /\ taken' \in Nat
       /\ \A i \in 1..Len(queue') : IsEventOf(wrote', queue'[i])
       /\ InOrder(told', queue') /\ Counts(Row(told', queue', Len(queue')), taken', conn')
  <2>1. taken + Len(es) \in Nat
    BY <1>2, <1>4
  <2> HIDE DEF es
  <2>2. queue' = queue \o new /\ taken' = taken + Len(es)
        /\ told' = told /\ conn' = conn /\ wrote' = wrote
    BY <1>1, <1>6
  <2> HIDE DEF new
  <2> QED BY <2>1, <2>2, <1>7, <1>9
<1>12. pc' # "start" /\ Connected' /\ told' = told
  BY <1>1, <1>2 DEF Connected
<1> QED BY <1>1, <1>10, <1>11, <1>12 DEF FeedInv

\* What a step does to what was written and told: a connection is made, a line is
\* written, an event is told that comes next, or nothing.
Advances ==
    \/ wrote' = Append(wrote, <<>>) /\ UNCHANGED told
    \/ /\ wrote # <<>>
       /\ \E l \in Script : wrote' = [wrote EXCEPT ![Len(wrote)] = Append(@, l)]
       /\ UNCHANGED told
    \/ IsEventOf(wrote, told') /\ Follows(told, told') /\ told' \in Event /\ UNCHANGED wrote
    \/ UNCHANGED <<wrote, told>>

LEMMA FeedNext ==
    ASSUME Typed, FeedInv, [Next]_vars, Again # "any"
    PROVE  FeedInv' /\ Advances
<1> USE DEF sessionVars
<1>1. CASE UNCHANGED vars
  BY <1>1, FeedKept DEF vars, Living, Connected, FeedInv, Advances
<1>2. CASE Starts \/ Returns
  <2>1. Connect /\ UNCHANGED told /\ pc' \in {"loop", "ecore"}
    BY <1>2 DEF Starts, Returns
  <2>2. inbuf = <<>>
    BY <1>2, AgainAssumption DEF Starts, Returns, Quiet, FeedInv
  <2> QED BY <2>1, <2>2, ConnectFed DEF Connect, Advances
<1>3. CASE LoopEnds \/ Selects \/ ConnectSlow \/ ReadsNothing \/ LinesEnd \/ WritesNothing
           \/ IterationEnds
  <2>1. UNCHANGED <<wrote, conn, queue, taken, told, state, motd, inbuf, s2c>>
    BY <1>3 DEF LoopEnds, Selects, ConnectSlow, ReadsNothing, LinesEnd, WritesNothing,
                IterationEnds
  <2>2. pc' \in {"done", "process", "write", "ecore", "loop"}
    BY <1>3 DEF LoopEnds, Selects, ConnectSlow, ReadsNothing, LinesEnd, WritesNothing,
                IterationEnds
  <2> QED BY <2>1, <2>2, FeedKept DEF Living, Advances
<1>4. CASE ConnectEnds
  <2>1. UNCHANGED <<wrote, conn, queue, taken, told, motd, inbuf, s2c>> /\ Living
    BY <1>4 DEF ConnectEnds, Lost, Made, sockVars, feedVars, Living
  <2>2. pc' \in {"done", "PASS", "NICK"}
    BY <1>4, Places DEF ConnectEnds
  <2> QED BY <2>1, <2>2, FeedKept DEF Advances
<1>5. CASE Reads
  <2>1. CASE Lost /\ pc' = "done"
    <3>1. UNCHANGED <<wrote, conn, queue, taken, told>> /\ ~Living'
      BY <1>5, <2>1 DEF Reads, Lost, sockVars, feedVars, Living
    <3> QED BY <2>1, <3>1, FeedKept DEF Advances
  <2>2. ASSUME NEW n \in 1..Len(s2c), Receives(n), pc' = "lines"
        PROVE  FeedInv' /\ Advances
    <3>1. UNCHANGED <<state, wrote, conn, queue, taken, told, motd>> /\ Connected
      BY <1>5, <2>2 DEF Reads, Receives, feedVars
    <3>2. inbuf' = inbuf \o Take(s2c, n) /\ s2c' = Drop(s2c, n)
      BY <2>2 DEF Receives
    <3>3. (inbuf \o Take(s2c, n)) \o Drop(s2c, n) = inbuf \o s2c
      <4>1. inbuf \in Seq(Cell) /\ s2c \in Seq(Cell) /\ n \in 0..Len(s2c)
        BY DEF Typed, Buffered
      <4> QED BY <4>1, MovesOver
    <3>4. Connected' /\ Living /\ inbuf' \o s2c' = inbuf \o s2c
      BY <3>1, <3>2, <3>3 DEF Connected, Living
    <3> QED BY <2>2, <3>1, <3>4, FeedKept DEF Advances
  <2> QED BY <1>5, <2>1, <2>2 DEF Reads
<1>6. CASE ProcessesLine
  BY <1>6, ProcessesFed DEF Advances
<1>7. CASE Writes
  <2>1. UNCHANGED <<wrote, conn, queue, taken, told, motd, inbuf, s2c>>
    BY <1>7 DEF Writes, Lost, Sends, sockVars, feedVars
  <2>2. Living' => Living
    BY <1>7 DEF Writes, Lost, Sends, Living
  <2>3. pc' \in {"done", "ecore"}
    BY <1>7 DEF Writes
  <2> QED BY <2>1, <2>2, <2>3, FeedKept DEF Advances
<1>8. CASE Leaves
  <2>1. UNCHANGED <<wrote, conn, queue, taken, told>> /\ ~Living' /\ pc' = "ecore"
    BY <1>8 DEF Leaves, Disconnect, feedVars, Living
  <2> QED BY <2>1, FeedKept DEF Advances
<1>9. CASE Handles
  BY <1>9, HandlesFed DEF Handles, sockVars, Advances
<1>10. ASSUME NEW c \in Commands, Says(c) \/ OtherChecks(c)
       PROVE  FeedInv' /\ Advances
  <2>1. UNCHANGED <<wrote, conn, queue, taken, told, motd, inbuf, s2c, state, pc>>
    BY <1>10 DEF Says, OtherChecks, sockVars
  <2> QED BY <2>1, FeedKept DEF Living, Connected, FeedInv, Advances
<1>11. CASE OtherSays
  <2>1. UNCHANGED <<wrote, conn, queue, taken, told, motd, inbuf, s2c, state, pc>>
    BY <1>11 DEF OtherSays, sockVars
  <2> QED BY <2>1, FeedKept DEF Living, Connected, FeedInv, Advances
<1>12. CASE Server
  <2>1. UNCHANGED <<state, conn, motd, inbuf, queue, taken, pc, told>>
    BY <1>12 DEF Server
  <2>2. CASE ServerCloses
    <3>1. UNCHANGED <<wrote, s2c>>
      BY <2>2 DEF ServerCloses
    <3> QED BY <2>1, <3>1, FeedKept DEF Living, Connected, FeedInv, Advances
  <2>3. ASSUME NEW l \in Script, ServerWrites(l)
        PROVE  FeedInv' /\ Advances
    BY <2>1, <2>3, WritesFed DEF Advances
  <2> QED BY <1>12, <2>2, <2>3 DEF Server
<1>13. CASE SendsRegistration
  <2>1. UNCHANGED <<wrote, conn, queue, taken, told, motd, inbuf, s2c, state>>
    BY <1>13 DEF SendsRegistration, Registers, sockVars, feedVars
  <2>2. pc' \in {"NICK", "USER", "ecore"}
    BY <1>13, Places DEF SendsRegistration
  <2> QED BY <2>1, <2>2, FeedKept DEF Living, Advances
<1> QED BY <1>1, <1>2, <1>3, <1>4, <1>5, <1>6, <1>7, <1>8, <1>9, <1>10, <1>11, <1>12, <1>13
        DEF Next, IrcRun, Application

\* Both modules mean the same by the events of lines.
LEMMA SameEvents ==
    ASSUME NEW lines, NEW n
    PROVE  Feed!EventsUpTo(lines, n) = EventsUpTo(lines, n)
BY DEF Feed!EventsUpTo, EventsUpTo, Feed!EventsOf, EventsOf, Feed!EndsMotd, EndsMotd,
       Feed!Numbers, Numbers, Feed!NumericEvents, NumericEvents, Feed!NickEvents, NickEvents,
       Feed!ChannelEvents, ChannelEvents, Feed!MessageEvents, MessageEvents,
       Feed!NoticeEvents, NoticeEvents, Feed!TextEvents, TextEvents, Feed!CtcpEvents,
       CtcpEvents, Feed!PlainNotice, PlainNotice, Feed!UnknownEvents, UnknownEvents, Feed!IsPing, IsPing, Feed!One, One, Feed!When, When

\* A step of the client is a step of the feed.
LEMMA StepIsFeeds ==
    ASSUME Typed, FeedInv, Advances
    PROVE  [Feed!Next]_<<wrote, told>>
<1>1. CASE wrote' = Append(wrote, <<>>) /\ UNCHANGED told
  BY <1>1 DEF Feed!Next, Feed!Connects
<1>2. CASE /\ wrote # <<>>
           /\ \E l \in Script : wrote' = [wrote EXCEPT ![Len(wrote)] = Append(@, l)]
           /\ UNCHANGED told
  BY <1>2 DEF Feed!Next, Feed!Writes
<1>3. CASE IsEventOf(wrote, told') /\ Follows(told, told') /\ told' \in Event /\ UNCHANGED wrote
  <2> DEFINE c == told'.c
  <2>1. c \in DOMAIN wrote
    BY <1>3 DEF IsEventOf
  <2>2. Feed!EventsUpTo(wrote[c], Len(wrote[c])) = EventsSoFar(wrote[c])
    BY SameEvents DEF EventsSoFar
  <2>3. told # Nothing => told.c <= c
    BY <1>3 DEF Follows
  <2>4. Feed!Coming(c) = told'.k
    BY <1>3 DEF Feed!Coming, Follows
  <2>5. told' = [c |-> c, k |-> told'.k, event |-> told'.event]
    BY <1>3 DEF Event
  <2>6. told'.k \in DOMAIN EventsSoFar(wrote[c]) /\ told'.event = EventsSoFar(wrote[c])[told'.k]
    BY <1>3 DEF IsEventOf
  <2>7. Feed!Tells
    BY <2>1, <2>2, <2>3, <2>4, <2>5, <2>6, <1>3 DEF Feed!Tells
  <2> QED BY <2>7 DEF Feed!Next
<1>4. CASE UNCHANGED <<wrote, told>>
  BY <1>4
<1> QED BY <1>1, <1>2, <1>3, <1>4 DEF Advances

\* For every script, every fragmentation of the stream and every number of
\* connections, if the application reconnects when nothing of the connection before
\* is left, what it is told are the events of the lines that the server wrote, whole,
\* in their order, each once: the client implements IrcFeed.
THEOREM ToldAsWritten ==
    ASSUME Again # "any"
    PROVE  FairSpec => ImplementsFeed
<1>1. Init => Typed /\ FeedInv
  BY TypedInit, FeedInit
<1>2. Typed /\ FeedInv /\ [Next]_vars => Typed' /\ FeedInv' /\ [Feed!Next]_<<wrote, told>>
  BY TypedNext, FeedNext, StepIsFeeds
<1>3. Init => Feed!Init
  BY DEF Init, SessionInit, Feed!Init
<1> QED BY <1>1, <1>2, <1>3, PTL DEF FairSpec, ImplementsFeed, Feed!Spec

-----------------------------------------------------------------------------
(* What the server hears.  The property is inductive once it is known that *)
(* a connection starts with nothing in the buffer and with no command of   *)
(* the other thread on its way, that no event of it is told before it is   *)
(* registered, and how much of the registration was sent at each place.    *)

Stream == IsStream(conn, heard \o outbuf, Len(said))
First == \A i \in DOMAIN Registration : i <= Len(said) /\ said[i] = Registration[i]

\* The connection is new: irc_run has not come to read from it.
New == state = "CONNECTING" \/ pc \in Registering

Fresh ==
    /\ told # Nothing => told.c <= conn
    /\ New => ~ToldOfThis /\ \A i \in 1..Len(queue) : queue[i].c < conn

\* What was sent of the registration before each place.
Before(place) ==
    IF place = "PASS" THEN <<>>
    ELSE IF place = "NICK" THEN (IF Password THEN <<"PASS">> ELSE <<>>)
    ELSE IF Password THEN <<"PASS", "NICK">> ELSE <<"NICK">>

Orderly ==
    /\ pc = "start" => state = "INIT" /\ outbuf = <<>> /\ other = "idle"
    /\ state = "CONNECTING" =>
         outbuf = <<>> /\ said = <<>> /\ heard = <<>> /\ other = "idle"
    /\ pc \in {"lines", "write"} \cup Registering => Connected
    /\ pc = "PASS" => Password
    /\ pc \in Registering /\ ~early => other = "idle" /\ said = Before(pc)
    /\ HeardWhole

LEMMA FreshInit == Init => Fresh
BY Places DEF Init, SessionInit, Fresh, New

\* No event of a connection is made before lines of it are read.
LEMMA FreshNext ==
    ASSUME Typed, FeedInv, Fresh, [Next]_vars
    PROVE  Fresh'
<1> USE Places DEF sessionVars, ToldOfThis, New
<1>1. CASE UNCHANGED vars
  BY <1>1 DEF vars, Fresh
<1>2. CASE Starts \/ Returns
  <2>1. conn' = conn + 1 /\ UNCHANGED <<told, queue>> /\ conn \in Nat
    BY <1>2, IrcAssumption DEF Starts, Returns, Connect, Typed, Lived
  <2>2. \A i \in 1..Len(queue) : queue[i].c \in Nat /\ queue[i].c <= conn
    BY DEF FeedInv, Typed, Lived, IsEventOf
  <2>3. told # Nothing => told.c \in Nat /\ told.c <= conn
    BY DEF FeedInv, Event, Fresh
  <2> QED BY <2>1, <2>2, <2>3 DEF Fresh
<1>3. CASE LoopEnds \/ Selects \/ ConnectSlow \/ ReadsNothing \/ LinesEnd \/ WritesNothing
           \/ IterationEnds
  <2>1. UNCHANGED <<told, conn, queue, state>>
    BY <1>3 DEF LoopEnds, Selects, ConnectSlow, ReadsNothing, LinesEnd, WritesNothing,
                IterationEnds
  <2>2. pc' \in {"done", "process", "write", "ecore", "loop"}
    BY <1>3 DEF LoopEnds, Selects, ConnectSlow, ReadsNothing, LinesEnd, WritesNothing,
                IterationEnds
  <2> QED BY <2>1, <2>2 DEF Fresh
<1>4. CASE ConnectEnds
  BY <1>4 DEF ConnectEnds, Lost, Made, feedVars, Fresh
<1>5. CASE SendsRegistration
  BY <1>5 DEF SendsRegistration, Registers, feedVars, Fresh
<1>6. CASE Reads
  BY <1>6 DEF Reads, Lost, Receives, Connected, feedVars, Fresh
<1>7. CASE ProcessesLine
  BY <1>7 DEF ProcessesLine, Processes, FeedInv, Connected, Fresh
<1>8. CASE Writes
  BY <1>8 DEF Writes, Lost, Sends, feedVars, Fresh
<1>9. CASE Leaves
  BY <1>9 DEF Leaves, Disconnect, feedVars, Fresh
<1>10. CASE Handles
  <2>1. /\ queue # <<>> /\ told' = Head(queue) /\ queue' = Tail(queue)
        /\ UNCHANGED <<conn, state, pc>>
    BY <1>10 DEF Handles
  <2>2. queue \in Seq(Event) /\ \A i \in 1..Len(queue) : queue[i].c \in 1..conn
    BY DEF FeedInv, Typed, Lived, IsEventOf
  <2>3. /\ Head(queue) = queue[1] /\ 1 \in 1..Len(queue)
        /\ \A i \in 1..Len(Tail(queue)) : i + 1 \in 1..Len(queue) /\ Tail(queue)[i] = queue[i + 1]
    BY <2>1, <2>2
  <2>4. told'.c \in 1..conn
    BY <2>1, <2>2, <2>3
  <2>5. New => told'.c < conn /\ \A i \in 1..Len(queue') : queue'[i].c < conn
    BY <2>1, <2>3 DEF Fresh
  <2> QED BY <2>1, <2>4, <2>5 DEF Fresh
<1>11. ASSUME NEW c \in Commands, Says(c) \/ OtherChecks(c)
       PROVE  Fresh'
  BY <1>11 DEF Says, OtherChecks, Fresh
<1>12. CASE OtherSays
  BY <1>12 DEF OtherSays, Fresh
<1>13. CASE Server
  BY <1>13 DEF Server, Fresh
<1> QED BY <1>1, <1>2, <1>3, <1>4, <1>5, <1>6, <1>7, <1>8, <1>9, <1>10, <1>11, <1>12, <1>13
        DEF Next, IrcRun, Application

LEMMA RegistrationSeq == Registration \in Seq(Spoken) /\ Len(Registration) \in {2, 3}
<1>1. "PASS" \in Spoken /\ "NICK" \in Spoken /\ "USER" \in Spoken
  BY DEF Spoken
<1> QED BY <1>1 DEF Registration

\* Appending to a sequence, whatever it is written as.
LEMMA AppendIs ==
    ASSUME NEW S, NEW s \in Seq(S), NEW e \in S, NEW t \in Seq(S),
           Len(t) = Len(s) + 1, \A i \in 1..Len(s) : t[i] = s[i], t[Len(s) + 1] = e
    PROVE  Append(s, e) = t
<1> DEFINE a == Append(s, e)
<1>1. /\ a \in Seq(S) /\ Len(a) = Len(s) + 1
      /\ \A i \in 1..Len(s) : a[i] = s[i]
      /\ a[Len(s) + 1] = e
  BY AppendProperties
<1> HIDE DEF a
<1>2. \A i \in 1..Len(a) : a[i] = t[i]
  <2>1. \A i \in 1..Len(a) : i \in 1..Len(s) \/ i = Len(s) + 1
    BY <1>1
  <2> QED BY <1>1, <2>1
<1>3. a = t
  BY <1>1, <1>2, SeqEqual
<1> QED BY <1>3 DEF a

LEMMA PairIs ==
  ASSUME NEW S, NEW a \in S, NEW b \in S PROVE Append(<<a>>, b) = <<a, b>>
<1> DEFINE s == <<a>>
           t == <<a, b>>
<1>1. s \in Seq(S) /\ Len(s) = 1 /\ s[1] = a
  OBVIOUS
<1>2. t \in Seq(S) /\ Len(t) = 2 /\ t[1] = a /\ t[2] = b
  OBVIOUS
<1> HIDE DEF s, t
<1>3. Len(t) = Len(s) + 1 /\ t[Len(s) + 1] = b
  BY <1>1, <1>2
<1>4. \A i \in 1..Len(s) : t[i] = s[i]
  BY <1>1, <1>2
<1>5. Append(s, b) = t
  BY <1>1, <1>2, <1>3, <1>4, AppendIs
<1> QED BY <1>5 DEF s, t

LEMMA TripleIs ==
  ASSUME NEW S, NEW a \in S, NEW b \in S, NEW c \in S PROVE Append(<<a, b>>, c) = <<a, b, c>>
<1> DEFINE s == <<a, b>>
           t == <<a, b, c>>
<1>1. s \in Seq(S) /\ Len(s) = 2 /\ s[1] = a /\ s[2] = b
  OBVIOUS
<1>2. t \in Seq(S) /\ Len(t) = 3 /\ t[1] = a /\ t[2] = b /\ t[3] = c
  OBVIOUS
<1> HIDE DEF s, t
<1>3. Len(t) = Len(s) + 1 /\ t[Len(s) + 1] = c
  BY <1>1, <1>2
<1>4. \A i \in 1..Len(s) : t[i] = s[i]
  BY <1>1, <1>2
<1>5. Append(s, c) = t
  BY <1>1, <1>2, <1>3, <1>4, AppendIs
<1> QED BY <1>5 DEF s, t

\* The line sent at a place is the next of the registration.
LEMMA RegistrationStep ==
    ASSUME NEW place \in Registering, place = "PASS" => Password
    PROVE  /\ Len(Before(place)) \in Nat /\ Len(Before(place)) + 1 <= Len(Registration)
           /\ Append(Before(place), place) =
                IF place = "USER" THEN Registration ELSE Before(After[place])
<1>1. CASE place = "PASS"
  <2>1. After[place] = "NICK" /\ Password
    BY <1>1, Places
  <2>2. /\ Before(place) = <<>> /\ Before("NICK") = <<"PASS">>
        /\ Registration = <<"PASS", "NICK", "USER">>
    BY <1>1, <2>1 DEF Before, Registration
  <2> QED BY <1>1, <2>1, <2>2
<1>2. CASE place = "NICK"
  <2>1. After[place] = "USER"
    BY <1>2, Places
  <2>2. CASE Password
    <3>1. /\ Before(place) = <<"PASS">> /\ Before("USER") = <<"PASS", "NICK">>
          /\ Registration = <<"PASS", "NICK", "USER">>
      BY <1>2, <2>2 DEF Before, Registration
    <3>2. Append(<<"PASS">>, "NICK") = <<"PASS", "NICK">>
      <4>1. "PASS" \in Spoken /\ "NICK" \in Spoken /\ "USER" \in Spoken
        BY DEF Spoken
      <4> QED BY <4>1, PairIs, Zenon
    <3>3. Append(Before(place), place) = Before(After[place]) /\ place # "USER"
      BY <1>2, <2>1, <3>1, <3>2
    <3>4. Len(Before(place)) \in Nat /\ Len(Before(place)) + 1 <= Len(Registration)
      BY <3>1
    <3> QED BY <3>3, <3>4
  <2>3. CASE ~Password
    <3>1. /\ Before(place) = <<>> /\ Before("USER") = <<"NICK">>
          /\ Registration = <<"NICK", "USER">>
      BY <1>2, <2>3 DEF Before, Registration
    <3>2. Append(<<>>, "NICK") = <<"NICK">>
      OBVIOUS
    <3>3. Append(Before(place), place) = Before(After[place]) /\ place # "USER"
      BY <1>2, <2>1, <3>1, <3>2
    <3>4. Len(Before(place)) \in Nat /\ Len(Before(place)) + 1 <= Len(Registration)
      BY <3>1
    <3> QED BY <3>3, <3>4
  <2> QED BY <2>2, <2>3
<1>3. CASE place = "USER"
  <2>1. CASE Password
    <3>1. Before(place) = <<"PASS", "NICK">> /\ Registration = <<"PASS", "NICK", "USER">>
      BY <1>3, <2>1 DEF Before, Registration
    <3>2. Append(<<"PASS", "NICK">>, "USER") = <<"PASS", "NICK", "USER">>
      <4>1. "PASS" \in Spoken /\ "NICK" \in Spoken /\ "USER" \in Spoken
        BY DEF Spoken
      <4> QED BY <4>1, TripleIs, Zenon
    <3>3. Append(Before(place), place) = Registration
      BY <1>3, <3>1, <3>2
    <3>4. Len(Before(place)) \in Nat /\ Len(Before(place)) + 1 <= Len(Registration)
      BY <3>1
    <3> QED BY <1>3, <3>3, <3>4
  <2>2. CASE ~Password
    <3>1. Before(place) = <<"NICK">> /\ Registration = <<"NICK", "USER">>
      BY <1>3, <2>2 DEF Before, Registration
    <3>2. Append(<<"NICK">>, "USER") = <<"NICK", "USER">>
      <4>1. "PASS" \in Spoken /\ "NICK" \in Spoken /\ "USER" \in Spoken
        BY DEF Spoken
      <4> QED BY <4>1, PairIs, Zenon
    <3>3. Append(Before(place), place) = Registration
      BY <1>3, <3>1, <3>2
    <3>4. Len(Before(place)) \in Nat /\ Len(Before(place)) + 1 <= Len(Registration)
      BY <3>1
    <3> QED BY <1>3, <3>3, <3>4
  <2> QED BY <2>1, <2>2
<1> QED BY <1>1, <1>2, <1>3, Places

\* A command that is stored comes after the others, whole.
LEMMA StoredHeard ==
    ASSUME Typed, Stream, NEW c \in Spoken, SetOut(Stored(Out, c)), UNCHANGED <<conn, heard>>
    PROVE  Stream' /\ (First => First')
<1>1. Out = OutOf(outbuf, said)
  BY DEF Out, OutOf
<1>2. /\ conn \in Nat /\ heard \in Seq(Cell) /\ outbuf \in Seq(Cell) /\ said \in Seq(Spoken)
  BY IrcAssumption DEF Typed, Buffered, Lived
<1>3. /\ IsStream(conn, heard \o Stored(Out, c).buf, Len(Stored(Out, c).said))
      /\ Len(said) <= Len(Stored(Out, c).said)
      /\ \A i \in 1..Len(said) : Stored(Out, c).said[i] = said[i]
  BY <1>1, <1>2, StoredIsStream DEF Stream
<1>4. outbuf' = Stored(Out, c).buf /\ said' = Stored(Out, c).said /\ conn' = conn /\ heard' = heard
  BY DEF SetOut
<1>5. said' \in Seq(Spoken)
  BY SaysBuffered DEF Typed
<1>6. Stream'
  BY <1>3, <1>4 DEF Stream
<1>7. ASSUME First PROVE First'
  <2> SUFFICES ASSUME NEW i \in DOMAIN Registration
               PROVE  i <= Len(said') /\ said'[i] = Registration[i]
    BY DEF First, Registration
  <2>1. i \in 1..Len(said) /\ said[i] = Registration[i]
    BY <1>2, <1>7, RegistrationSeq DEF First
  <2> QED BY <2>1, <1>2, <1>3, <1>4, <1>5
<1> QED BY <1>6, <1>7

\* A step that stores a command when the connection is registered, or an early one,
\* keeps what the server hears whole.
LEMMA SaysHeard ==
    ASSUME Typed, HeardWhole, Connected, NEW c \in Spoken, SetOut(Stored(Out, c)),
           UNCHANGED <<conn, heard, pc, early>>
    PROVE  HeardWhole'
BY StoredHeard DEF HeardWhole, Stream, First

\* What is sent moves from the buffer to the server.
LEMMA SendsHeard ==
    ASSUME Typed, HeardWhole, NEW n \in 1..Len(outbuf), Sends(n),
           pc \notin Registering, UNCHANGED early
    PROVE  HeardWhole'
<1>1. heard \in Seq(Cell) /\ outbuf \in Seq(Cell) /\ n \in 0..Len(outbuf)
  BY DEF Typed, Buffered
<1>2. (heard \o Take(outbuf, n)) \o Drop(outbuf, n) = heard \o outbuf
  BY <1>1, MovesOver
<1>3. heard' \o outbuf' = heard \o outbuf /\ UNCHANGED <<said, conn, state>>
  BY <1>2 DEF Sends
<1> QED BY <1>3 DEF HeardWhole, Connected

\* While a line of the registration has to be sent, there is room for it.
LEMMA RoomToRegister ==
    ASSUME Typed, Stream, Len(said) + 1 <= Len(Registration),
           OutCap >= Len(Registration) * Pieces
    PROVE  Len(outbuf) + Pieces <= OutCap
<1> DEFINE n == Len(said)
           l == Len(Registration)
<1>1. /\ n \in Nat /\ l \in Nat /\ Pieces \in Nat /\ OutCap \in Nat
      /\ Len(outbuf) \in Nat /\ Len(heard) \in Nat
  BY IrcAssumption, RegistrationSeq DEF Typed, Buffered
<1>2. Len(heard) + Len(outbuf) = n * Pieces
  <2>1. Len(heard \o outbuf) = n * Pieces
    BY DEF Stream, IsStream
  <2>2. Len(heard \o outbuf) = Len(heard) + Len(outbuf)
    BY ConcatProperties DEF Typed, Buffered
  <2> QED BY <2>1, <2>2
<1> HIDE DEF n, l
<1>3. n + 1 <= l /\ OutCap >= l * Pieces
  BY DEF n, l
<1>4. PICK d \in Nat : l = n + 1 + d
  <2>1. l - (n + 1) \in Nat /\ l = n + 1 + (l - (n + 1))
    BY <1>1, <1>3
  <2> QED BY <2>1
<1>5. l * Pieces = n * Pieces + Pieces + d * Pieces /\ d * Pieces >= 0 /\ n * Pieces \in Nat
  BY <1>1, <1>4
<1> QED BY <1>1, <1>2, <1>3, <1>5

LEMMA RegistersHeard ==
    ASSUME Typed, Orderly, SendsRegistration, OutCap >= Len(Registration) * Pieces
    PROVE  Orderly'
<1>1. /\ pc \in Registering /\ pc' = After[pc] /\ SetOut(Stored(Out, pc))
      /\ UNCHANGED <<state, conn, heard, other, early>>
      /\ Connected /\ (pc = "PASS" => Password) /\ Stream
  BY DEF SendsRegistration, Registers, Orderly, HeardWhole, Stream
<1>2. pc \in Spoken /\ pc' \in {"NICK", "USER", "ecore"} /\ (pc' = "ecore" <=> pc = "USER")
  BY <1>1, Places DEF Spoken
<1>3. Stream'
  BY <1>1, <1>2, StoredHeard
<1>4. ASSUME ~early
      PROVE  /\ pc' \in Registering => said' = Before(pc')
             /\ pc' \notin Registering => said' = Registration
  <2>1. said = Before(pc)
    BY <1>1, <1>4 DEF Orderly
  <2>2. Len(said) + 1 <= Len(Registration)
    BY <1>1, <2>1, RegistrationStep
  <2>3. Len(outbuf) + Pieces <= OutCap
    BY <1>1, <2>2, RoomToRegister
  <2>4. ~(Len(outbuf) + Pieces > OutCap)
    BY <2>3, IrcAssumption DEF Typed, Buffered
  <2>5. said' = Append(said, pc)
    BY <1>1, <2>4 DEF SetOut, Stored, Out
  <2> QED BY <1>1, <1>2, <2>1, <2>5, RegistrationStep, Places
<1>5. HeardWhole'
  <2>1. ASSUME ~early, pc' \notin Registering
        PROVE  First'
    <3>1. said' = Registration
      BY <1>4, <2>1
    <3> QED BY <3>1, RegistrationSeq DEF First, Registration
  <2> QED BY <1>1, <1>3, <2>1 DEF HeardWhole, Stream, First
<1> QED BY <1>1, <1>2, <1>4, <1>5 DEF Orderly, Connected

LEMMA OrderlyInit == Init => Orderly
BY Places DEF Init, SessionInit, Orderly, HeardWhole, Connected

\* An application that reconnects when nothing of the connection before is left
\* keeps the streams in order, and so do the server and irc_run.
LEMMA OrderlyNext ==
    ASSUME Typed, Fresh, Orderly, [Next]_vars, Again # "any",
           OutCap >= Len(Registration) * Pieces
    PROVE  Orderly'
<1> USE Places DEF sessionVars, Connected
<1>1. CASE UNCHANGED vars
  BY <1>1 DEF vars, Orderly, HeardWhole
<1>2. CASE Starts
  BY <1>2 DEF Starts, Connect, Orderly, HeardWhole
<1>3. CASE LoopEnds
  BY <1>3 DEF LoopEnds, Orderly, HeardWhole
<1>4. CASE Selects
  BY <1>4 DEF Selects, Orderly, HeardWhole
<1>5. CASE ConnectEnds
  <2>1. CASE Lost /\ pc' = "done"
    BY <1>5, <2>1 DEF ConnectEnds, Lost, Orderly, HeardWhole
  <2>2. CASE Made /\ pc' = Head(Registration)
    <3>1. /\ outbuf' = <<>> /\ said' = <<>> /\ heard' = <<>> /\ other' = "idle"
          /\ state' = "CONNECTED" /\ UNCHANGED conn
      BY <1>5, <2>2 DEF ConnectEnds, Made, Orderly, outVars
    <3>2. pc' = IF Password THEN "PASS" ELSE "NICK"
      BY <2>2 DEF Registration
    <3>3. IsStream(conn', heard' \o outbuf', Len(said'))
      <4>1. heard' \o outbuf' = <<>> /\ Len(said') = 0
        BY <3>1
      <4> QED BY <4>1, IrcAssumption DEF IsStream
    <3>4. HeardWhole'
      BY <3>2, <3>3 DEF HeardWhole
    <3> QED BY <3>1, <3>2, <3>4 DEF Orderly, Before
  <2> QED BY <1>5, <2>1, <2>2 DEF ConnectEnds
<1>6. CASE ConnectSlow
  BY <1>6 DEF ConnectSlow, Orderly, HeardWhole
<1>7. CASE Reads
  <2>1. CASE Lost /\ pc' = "done"
    BY <1>7, <2>1 DEF Reads, Lost, Orderly, HeardWhole
  <2>2. ASSUME NEW n \in 1..Len(s2c), Receives(n)
        PROVE  Orderly'
    BY <1>7, <2>2 DEF Reads, Receives, Orderly, HeardWhole, outVars
  <2> QED BY <1>7, <2>1, <2>2 DEF Reads
<1>8. CASE ReadsNothing
  BY <1>8 DEF ReadsNothing, Orderly, HeardWhole
<1>9. CASE ProcessesLine
  <2>1. /\ pc = "lines" /\ Connected /\ HeardWhole
        /\ UNCHANGED <<state, conn, heard, pc, other, early>>
    BY <1>9 DEF ProcessesLine, Processes, Orderly
  <2>2. HeardWhole'
    <3>1. CASE UNCHANGED outVars
      BY <2>1, <3>1 DEF HeardWhole, outVars
    <3>2. CASE SetOut(Stored(Out, "PONG"))
      <4>1. "PONG" \in Spoken
        BY DEF Spoken
      <4> QED BY <2>1, <3>2, <4>1, SaysHeard
    <3>3. CASE SetOut(Out)
      BY <2>1, <3>3 DEF HeardWhole, SetOut, Out
    <3>4. UNCHANGED outVars \/ SetOut(Stored(Out, "PONG")) \/ SetOut(Out)
      BY <1>9 DEF ProcessesLine, Processes
    <3> QED BY <3>1, <3>2, <3>3, <3>4
  <2> QED BY <2>1, <2>2 DEF Orderly
<1>10. CASE LinesEnd
  BY <1>10 DEF LinesEnd, Orderly, HeardWhole
<1>11. CASE Writes
  <2>1. CASE Lost /\ pc' = "done"
    BY <1>11, <2>1 DEF Writes, Lost, Orderly, HeardWhole
  <2>2. ASSUME NEW n \in 1..Len(outbuf), Sends(n), pc' = "ecore"
        PROVE  Orderly'
    <3>1. HeardWhole'
      BY <1>11, <2>2, SendsHeard DEF Writes, Orderly
    <3> QED BY <1>11, <2>2, <3>1 DEF Writes, Sends, Orderly
  <2> QED BY <1>11, <2>1, <2>2 DEF Writes
<1>12. CASE WritesNothing
  BY <1>12 DEF WritesNothing, Orderly, HeardWhole
<1>13. ASSUME NEW c \in Commands, Says(c)
       PROVE  Orderly'
  <2>1. HeardWhole'
    BY <1>13, LineIsSpoken, SaysHeard DEF Says, Orderly
  <2> QED BY <1>13, <2>1 DEF Says, Orderly
<1>14. CASE Leaves
  BY <1>14 DEF Leaves, Disconnect, Orderly, HeardWhole
<1>15. CASE Returns
  BY <1>15, AgainAssumption DEF Returns, Quiet, Connect, Orderly, HeardWhole
<1>16. CASE Handles
  BY <1>16 DEF Handles, Orderly, HeardWhole, outVars
<1>17. CASE IterationEnds
  BY <1>17 DEF IterationEnds, Orderly, HeardWhole
<1>18. ASSUME NEW c \in Commands, OtherChecks(c)
       PROVE  Orderly'
  BY <1>18 DEF OtherChecks, Orderly, HeardWhole, Fresh, New
<1>19. CASE OtherSays
  <2>1. other \in Commands /\ state # "CONNECTING" /\ pc # "start"
    BY <1>19 DEF OtherSays, Orderly, Typed, Running
  <2>2. HeardWhole'
    <3>1. CASE Connected
      BY <1>19, <2>1, <3>1, LineIsSpoken, SaysHeard DEF OtherSays, Orderly
    <3>2. CASE ~Connected
      BY <1>19, <3>2 DEF OtherSays, HeardWhole
    <3> QED BY <3>1, <3>2
  <2> QED BY <1>19, <2>1, <2>2 DEF OtherSays, Orderly
<1>20. CASE Server
  BY <1>20 DEF Server, Orderly, HeardWhole, outVars
<1>21. CASE SendsRegistration
  BY <1>21, RegistersHeard
<1> QED BY <1>1, <1>2, <1>3, <1>4, <1>5, <1>6, <1>7, <1>8, <1>9, <1>10, <1>11, <1>12, <1>13,
           <1>14, <1>15, <1>16, <1>17, <1>18, <1>19, <1>20, <1>21
        DEF Next, IrcRun, Application

\* For every script, every fragmentation of the stream and every number of
\* connections, if the registration fits into outgoing_buf and the application
\* reconnects when nothing of the connection before is left, the server hears every
\* command that was taken, whole and in order, and the registration before all
\* others if the other thread sends only when an event of the connection was told.
THEOREM CommandsHeardWhole ==
    ASSUME Again # "any", OutCap >= Len(Registration) * Pieces
    PROVE  FairSpec => []HeardWhole
<1>1. Init => Typed /\ FeedInv /\ Fresh /\ Orderly
  BY TypedInit, FeedInit, FreshInit, OrderlyInit
<1>2. Typed /\ FeedInv /\ Fresh /\ Orderly /\ [Next]_vars => Typed' /\ FeedInv' /\ Fresh' /\ Orderly'
  BY TypedNext, FeedNext, FreshNext, OrderlyNext
<1>3. Orderly => HeardWhole
  BY DEF Orderly
<1> QED BY <1>1, <1>2, <1>3, PTL DEF FairSpec
=============================================================================
