---------------------------- MODULE EquTransport ----------------------------
(***************************************************************************)
(* The two directions of every Ecore_Con connection, shared by the client  *)
(* library and the daemon.  Ecore_Con is not part of the repository: what  *)
(* is modelled is what its callers rely on, a reliable ordered byte stream *)
(* that may be cut anywhere, and events that arrive in stream order.       *)
(***************************************************************************)
EXTENDS EquMessage

CONSTANTS
    SplitRequests,   \* the stream to the daemon may be cut inside a message
    Longest,         \* bound on the cells of one stream
    SplitReplies     \* the stream to the clients may be cut inside a reply

VARIABLES
    c2s,             \* c2s[c]: cells on their way to the daemon
    s2c              \* s2c[c]: cells on their way to the client

transport == <<c2s, s2c>>

TransportTypeOK ==
    /\ c2s \in [Conns -> Seq(MessageCell)]
    /\ s2c \in [Conns -> Seq(ReplyCell)]

\* One end of the connections in S goes away: of each stream it wrote, a prefix
\* was already handed to the kernel and will arrive, the rest is lost.
Cut(streams, S, fragmented, longest) ==
    {[c \in Conns |-> IF c \in S THEN Take(streams[c], k[c]) ELSE streams[c]] :
        k \in {f \in [S -> 0..longest] :
                 \A c \in S : f[c] \in {0} \cup Reads(streams[c], fragmented)}}

TransportInit ==
    /\ c2s = [c \in Conns |-> << >>]
    /\ s2c = [c \in Conns |-> << >>]
=============================================================================
