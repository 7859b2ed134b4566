------------------------------- MODULE MCDcc -------------------------------
(***************************************************************************)
(* Instances of Dcc for TLC.                                               *)
(***************************************************************************)
EXTENDS Dcc

CONSTANTS lp, ua, none

OnlyLoop == {lp}
Both     == {lp, ua}
One      == {ua}

Chat  == {"CHAT"}
Asked == {"CHAT", "RECVFILE"}
Made  == {"CHAT", "SENDFILE"}
=============================================================================
