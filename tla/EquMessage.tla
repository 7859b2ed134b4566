----------------------------- MODULE EquMessage -----------------------------
(***************************************************************************)
(* The Equanime wire protocol (equanime/src/include/equ_common.h and       *)
(* equanime/src/common/equ_message.c): message names and types, the two    *)
(* headers, and which bodies the codec knows.                              *)
(*                                                                         *)
(* A byte stream is a sequence of cells.  A cell is one unit of one        *)
(* message or reply: the record [m, at] says which message it belongs to   *)
(* and its place in it, so a reader that loses its place in the stream is  *)
(* visible as a run of cells that is not Cells(m) of any m.                *)
(***************************************************************************)
EXTENDS Naturals, Sequences

CONSTANTS
    Conns,        \* the connections, one per Equanime struct of a client
    None,         \* NULL
    HdrLen,       \* cells of a header (both headers are three words)
    BodyLen       \* cells of an encoded body

ASSUME LenAssumption == HdrLen \in Nat \ {0} /\ BodyLen \in Nat \ {0}

-----------------------------------------------------------------------------
(* Names and types.  The low bit of a type says that a reply is expected.  *)

HOSTS_GET        == 0
CONTROLLERS_GET  == 2
LAYERS_GET       == 4
LAYER_CAPS_GET   == 6
LAYER_STATUS_GET == 8
SURFACE_GET      == 10

RequestNames == {HOSTS_GET, CONTROLLERS_GET, LAYERS_GET, LAYER_CAPS_GET,
                 LAYER_STATUS_GET, SURFACE_GET}

\* Mutants: the wrong bit tested; nothing shifted; a reply one cell too long.
ReplyHasOtherBit(type)  == type % 2 = 0
ShiftNothing(buf, k)    == buf
ReplyLenPlusOne(r)      == HdrLen + BodyLen + 1

TypeOf(name)      == 2 * name + 1       \* every request type of the enum has EQU_MSG_REPLY
NameGet(type)     == type \div 2
ReplyHas(type)    == type % 2 = 1
ReplyNameGet(type) == NameGet(type) + 1

RequestTypes == {TypeOf(name) : name \in RequestNames}

\* Names equ_message_init registers a data descriptor for.
Described == 0..10

-----------------------------------------------------------------------------
(* Errors.  A word nobody wrote that is read as an error (the daemon's     *)
(* automatic variable err is unset on one path) is EQU_ERR_NONE or some    *)
(* other number: Unset.                                                    *)

NONE   == "EQU_ERR_NONE"
NEXIST == "EQU_ERR_NEXIST"
Unset  == {NONE, "unset"}
Errors == {NEXIST} \cup Unset

-----------------------------------------------------------------------------
(* Messages and replies.  src and req are not on the wire: src is the      *)
(* connection a message was written to, req the request the daemon was     *)
(* answering when it wrote a reply (None when it was answering bytes that  *)
(* are no header).  The wire has id.  id is a process-wide counter whose   *)
(* wrap at 2^32 the bounded runs do not reach.  size is TRUE when a body   *)
(* follows the header.                                                     *)

Message == [src : Conns, id : Nat, type : RequestTypes]

Reply == [req : Message \cup {None}, id : Nat, error : Errors, size : BOOLEAN]

MessageLen == HdrLen + BodyLen
ReplyLen(r) == IF r.size THEN HdrLen + BodyLen ELSE HdrLen

MessageCells(m) == [i \in 1..MessageLen |-> [m |-> m, at |-> i]]
ReplyCells(r)   == [i \in 1..ReplyLen(r) |-> [m |-> r, at |-> i]]

\* A byte nobody wrote, in a buffer whose length was not reduced.
Junk == [m |-> None, at |-> 0]

MessageCell == [m : Message, at : 1..MessageLen] \cup {Junk}
ReplyCell   == [m : Reply, at : 1..(HdrLen + BodyLen)] \cup {Junk}

-----------------------------------------------------------------------------
(* Reading a stream.                                                       *)

\* The first n cells of a buffer.
Take(buf, n) == SubSeq(buf, 1, n)

\* What is left after the first n cells.
Drop(buf, n) == SubSeq(buf, n + 1, Len(buf))

\* The k cells served leave a buffer: freed when they were all of it, otherwise
\* the rest moves into a new block.  The length beside the buffer is not
\* reduced, so as many bytes nobody wrote now end it.
Shift(buf, k) ==
    IF Len(buf) > k THEN Drop(buf, k) \o [i \in 1..k |-> Junk] ELSE << >>

\* The buffer begins with a whole header, so the bytes read as one are one.
StartsWithHeader(buf) ==
    \A i \in 1..HdrLen : buf[i] = [m |-> buf[1].m, at |-> i]

\* The bytes after the header are exactly the body that header announced:
\* anything else makes eet_data_descriptor_decode return NULL.
BodyFollows(buf, n) ==
    \A i \in HdrLen + 1..n : buf[i] = [m |-> buf[1].m, at |-> i]

\* equ_message_decode of the body of the request that heads buf.
Decodes(buf) ==
    /\ NameGet(buf[1].m.type) \in Described
    /\ BodyFollows(buf, MessageLen)

\* The prefixes of a stream the next read may return: any when the stream is
\* fragmented, whole messages (one or several) when it is not.
Reads(stream, fragmented) ==
    {n \in 1..Len(stream) :
        \/ fragmented
        \/ n = Len(stream)
        \/ stream[n + 1].at = 1}
=============================================================================
