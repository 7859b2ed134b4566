------------------------------ MODULE IrcLines ------------------------------
(***************************************************************************)
(* What the lines of an IRC server become: the callback that libircclient  *)
(* chooses (eirc/src/lib/libircclient.c) and the Ecore event that eirc     *)
(* makes of it (eirc/src/lib/eirc.c), which drops the callbacks that come  *)
(* with another number of parameters than it expects.  A line is a record: *)
(*   cmd   the command, or the number as a string                          *)
(*   n     how many parameters it has                                      *)
(*   mine  whether the first parameter is the nick of the session          *)
(*   ctcp  "no", or what the last parameter is as a CTCP message           *)
(* And the lines that the commands of the library become.                  *)
(***************************************************************************)
EXTENDS Naturals, Sequences

\* The events that eirc makes.
Events == {"NICK", "QUIT", "JOIN", "PART", "UMODE", "MODE", "TOPIC", "KICK", "INVITE",
           "CTCP_ACTION", "CTCP_REQ", "CTCP_REP", "PRIVMSG", "CHANNEL", "NOTICE",
           "CONNECT", "RPL_WELCOME", "NUMERIC", "UNKNOWN"}

\* The lines that the parser can read: it steps over the end of a line that has no
\* parameter, and takes the length of the second one of a NOTICE.
Readable(l) == l.n > 0 /\ (l.cmd = "NOTICE" => l.n > 1)

One(event) == <<event>>
When(count, n, event) == IF count = n THEN <<event>> ELSE <<>>

\* Events on the people of a channel.
NickEvents(l) ==
    CASE l.cmd = "NICK" -> When(l.n, 1, "NICK")
      [] l.cmd = "QUIT" -> When(l.n, 1, "QUIT")
      [] l.cmd = "JOIN" -> When(l.n, 1, "JOIN")
      [] l.cmd = "PART" -> When(l.n, 2, "PART")

\* Events on a channel; a MODE of the session's own nick is cut to its argument.
ChannelEvents(l) ==
    CASE l.cmd = "MODE" /\ l.mine /\ l.n > 0 -> One("UMODE")
      [] l.cmd = "MODE" /\ ~(l.mine /\ l.n > 0) -> When(l.n, 3, "MODE")
      [] l.cmd = "TOPIC"  -> When(l.n, 2, "TOPIC")
      [] l.cmd = "KICK"   -> When(l.n, 3, "KICK")
      [] l.cmd = "INVITE" -> When(l.n, 2, "INVITE")

\* What someone says to the session or to a channel.
TextEvents(l) == When(l.n, 2, IF l.mine THEN "PRIVMSG" ELSE "CHANNEL")

\* A CTCP request is told with one parameter.
CtcpEvents(l) == One(IF l.ctcp = "ACTION" THEN "CTCP_ACTION" ELSE "CTCP_REQ")

\* A message is text or a CTCP request.  A DCC request makes a session of its own
\* (module Dcc) and no event.
MessageEvents(l) ==
    CASE l.n < 2 -> <<>>
      [] l.n >= 2 /\ l.ctcp = "DCC" -> <<>>
      [] l.n >= 2 /\ l.ctcp \in {"ACTION", "other"} -> CtcpEvents(l)
      [] l.n >= 2 /\ l.ctcp = "no" -> TextEvents(l)

PlainNotice(l) == When(l.n, 2, "NOTICE")

\* A notice, or the reply to a CTCP request.
NoticeEvents(l) == IF l.ctcp # "no" THEN One("CTCP_REP") ELSE PlainNotice(l)

\* Any other line.
UnknownEvents(l) == When(l.n, 0, "UNKNOWN")

EndsMotd(l) == l.cmd \in {"376", "422"}
Numbers == {"001", "372", "376", "422", "433"}

\* A reply with a number; the first end of the message of the day says that the
\* session is connected.
NumericEvents(l, motd) ==
    (IF EndsMotd(l) /\ ~motd THEN One("CONNECT") ELSE <<>>) \o
    One(IF l.cmd = "001" THEN "RPL_WELCOME" ELSE "NUMERIC")

IsPing(l) == l.cmd = "PING" /\ l.n > 0

\* The events of a line, in their order; motd says that the message of the day
\* has ended before.
EventsOf(l, motd) ==
    CASE l.cmd \in Numbers -> NumericEvents(l, motd)
      [] l.cmd \in {"NICK", "QUIT", "JOIN", "PART"} -> NickEvents(l)
      [] l.cmd \in {"MODE", "TOPIC", "KICK", "INVITE"} -> ChannelEvents(l)
      [] l.cmd = "PRIVMSG" -> MessageEvents(l)
      [] l.cmd = "NOTICE" -> NoticeEvents(l)
      [] IsPing(l) \/ l.cmd = "KILL" -> <<>>
      [] OTHER -> UnknownEvents(l)

\* The events of the first k lines of a connection.
EventsUpTo(lines, k) ==
    LET Motd(i) == \E j \in 1..i - 1 : EndsMotd(lines[j])
        f[i \in 0..k] == IF i = 0 THEN <<>> ELSE f[i - 1] \o EventsOf(lines[i], Motd(i))
    IN  f[k]

-----------------------------------------------------------------------------
(* Commands.                                                               *)

\* What eirc_command_* asks of irc_cmd_*: the names differ for a CTCP reply.
LibraryCommand(c) == IF c = "ctcp_reply" THEN "ctcp_request" ELSE c

\* The command of the line that irc_cmd_* writes, and its variants.
CtcpVerb(c) == IF c = "ctcp_request" THEN "PRIVMSG" ELSE "NOTICE"
ModeVerb == "MODE"
TextVerb(c) == IF c = "notice" THEN "NOTICE" ELSE "PRIVMSG"

Verb(c) ==
    CASE c \in {"ctcp_request", "ctcp_reply"} -> CtcpVerb(c)
      [] c \in {"channel_mode", "user_mode"} -> ModeVerb
      [] c \in {"msg", "notice", "me"} -> TextVerb(c)
      [] OTHER -> c

Line(c) == Verb(LibraryCommand(c))
=============================================================================
