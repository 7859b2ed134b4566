----------------------------- MODULE EquServer ------------------------------
(***************************************************************************)
(* The daemon's side of the protocol: equanime/src/server/equ_server.c     *)
(* (the Ecore_Con event handlers) and the dispatch of                      *)
(* equanime/src/server/lib/equ_client.c.  One buffer, _equd.buffer, serves *)
(* every connection.  What the registry answers to a look-up is a choice.  *)
(***************************************************************************)
EXTENDS EquTransport

CONSTANTS
    ServerMayExit    \* the daemon may go away at any moment

VARIABLES
    equd,        \* _equd.buffer: << >> when it is NULL
    attached,    \* connections with an Equ_Client attached (client data set)
    up           \* the daemon runs

server == <<equd, attached, up>>

ServerTypeOK ==
    /\ equd \in Seq(MessageCell)
    /\ attached \in SUBSET Conns
    /\ up \in BOOLEAN

ServerInit ==
    /\ equd = << >>
    /\ attached = {}
    /\ up = TRUE

-----------------------------------------------------------------------------
(* equ_client_process: the error and whether a reply body was made.        *)

Outcome(error, made) == [error |-> error, size |-> made]

\* The names the switch has a case for; all but the first look something up
\* by an id the client sent, which may not exist.
Handled == {HOSTS_GET, CONTROLLERS_GET, LAYERS_GET, LAYER_CAPS_GET, LAYER_STATUS_GET}
Lookups == Handled \ {HOSTS_GET}

\* Mutants: a look-up that fails reports no error; one that fails has a body.
ProcessHidesError(name) ==
    {Outcome(NONE, name \in Handled)}
      \cup {Outcome(NONE, FALSE) : x \in Lookups \cap {name}}
ProcessKeepsBody(name) ==
    {Outcome(NONE, name \in Handled)}
      \cup {Outcome(NEXIST, TRUE) : x \in Lookups \cap {name}}

Process(name) ==
    {Outcome(NONE, name \in Handled)}
      \cup {Outcome(NEXIST, FALSE) : x \in Lookups \cap {name}}

\* A body that does not decode skips equ_client_process: err stays unset.
Answers(buf) ==
    IF Decodes(buf)
    THEN Process(NameGet(buf[1].m.type))
    ELSE {Outcome(e, FALSE) : e \in Unset}

\* Mutants: the id, or the error, is not copied into the reply; one cell too
\* many is waited for; bytes kept from before are forgotten.
ReplyWithoutId(m, a)    == [req |-> m, id |-> 0, error |-> a.error, size |-> a.size]
ReplyWithoutError(m, a) == [req |-> m, id |-> m.id, error |-> NONE, size |-> a.size]
CompleteStrict(buf) == Len(buf) > MessageLen
ReceivedOnly(c, n)  == Take(c2s[c], n)

\* The reply that leaves: req is what is being answered, not on the wire.
ReplyTo(m, a) == [req |-> m, id |-> m.id, error |-> a.error, size |-> a.size]

\* All the bytes the header announces have arrived.
Complete(buf) == Len(buf) >= MessageLen

-----------------------------------------------------------------------------
(* Event handlers.                                                         *)

ClientAdd(c) ==
    /\ up
    /\ c \notin attached
    /\ attached' = attached \cup {c}
    /\ UNCHANGED <<equd, up, transport>>

\* The struct is freed; bytes of c that wait in the buffer stay there.
ClientDel(c) ==
    /\ up
    /\ c \in attached
    /\ c2s[c] = << >>
    /\ attached' = attached \ {c}
    /\ UNCHANGED <<equd, up, transport>>

\* The arrival of n cells from c, and the buffer they make.
Arrives(c, n) ==
    /\ up
    /\ c \in attached
    /\ n \in Reads(c2s[c], SplitRequests)
    /\ c2s' = [c2s EXCEPT ![c] = Drop(@, n)]
    /\ UNCHANGED <<attached, up>>

Received(c, n) == equd \o Take(c2s[c], n)

\* Less than a header, or less than the body the header announces.
DataPartial(c, n) ==
    /\ Arrives(c, n)
    /\ equd' = Received(c, n)
    /\ \/ Len(Received(c, n)) < HdrLen
       \/ /\ Len(Received(c, n)) >= HdrLen
          /\ StartsWithHeader(Received(c, n))
          /\ ~Complete(Received(c, n))
    /\ UNCHANGED s2c

\* One message is served, and only one: what follows it waits for more data.
\* The reply goes to the connection whose data arrived last.
DataMessage(c, n) ==
    /\ Arrives(c, n)
    /\ Len(Received(c, n)) >= HdrLen
    /\ StartsWithHeader(Received(c, n))
    /\ Complete(Received(c, n))
    /\ equd' = Shift(Received(c, n), MessageLen)
    /\ LET m == Received(c, n)[1].m IN
       \E a \in Answers(Received(c, n)) :
          s2c' = IF ReplyHas(m.type)
                 THEN [s2c EXCEPT ![c] = @ \o ReplyCells(ReplyTo(m, a))]
                 ELSE s2c

\* The bytes read as a header are not one: their size field is any number.
\* Either more than has arrived, or k, and then nothing decodes and the type
\* decides whether a reply with some id leaves.
DataGarbage(c, n) ==
    /\ Arrives(c, n)
    /\ Len(Received(c, n)) >= HdrLen
    /\ ~StartsWithHeader(Received(c, n))
    /\ \/ equd' = Received(c, n) /\ UNCHANGED s2c
       \/ \E k \in HdrLen..Len(Received(c, n)) :
             /\ equd' = Shift(Received(c, n), k)
             /\ \/ UNCHANGED s2c
                \/ \E e \in Unset :
                      s2c' = [s2c EXCEPT ![c] = @ \o
                                ReplyCells([req |-> None, id |-> 0,
                                            error |-> e, size |-> FALSE])]

ClientData(c) ==
    \E n \in 1..Len(c2s[c]) :
        DataPartial(c, n) \/ DataMessage(c, n) \/ DataGarbage(c, n)

\* The daemon goes away, and with it everything that was on its way to it.
ServerExit ==
    /\ ServerMayExit
    /\ up
    /\ up' = FALSE
    /\ equd' = << >>
    /\ attached' = {}
    /\ c2s' = [c \in Conns |-> << >>]
    /\ s2c' \in Cut(s2c, Conns, SplitReplies, Longest)
=============================================================================
