------------------------------- MODULE MCEobj -------------------------------
(***************************************************************************)
(* An instance of Eobj for TLC: Eobj_Object and one class below it, whose  *)
(* signal "clicked" has a default handler or not.                          *)
(***************************************************************************)
EXTENDS Eobj

CONSTANTS root, widget

TwoClasses == {root, widget}

OwnSignals == [c \in TwoClasses |-> IF c = root THEN <<"destroyed">> ELSE <<"clicked">>]
=============================================================================
