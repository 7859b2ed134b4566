------------------------------- MODULE MCIrc --------------------------------
(* Instances of Irc: what the server writes and what the application sends. *)
EXTENDS Irc

Text(cmd, n) == [cmd |-> cmd, n |-> n, mine |-> FALSE, ctcp |-> "no"]

\* A line that makes two events the first time and one later, and a line that is
\* answered and makes none.
TwoLines == {Text("376", 2), Text("PING", 1)}

\* Someone leaves a channel, with a reason and without.
Parting == {Text("PART", 2), Text("PART", 1)}
=============================================================================
