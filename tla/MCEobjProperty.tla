--------------------------- MODULE MCEobjProperty ---------------------------
(***************************************************************************)
(* An instance of EobjProperty for TLC: Eobj_Object and two classes of the *)
(* application, that derive from it or one from the other.                 *)
(***************************************************************************)
EXTENDS EobjProperty

CONSTANTS root, box, label

ThreeClasses == {root, box, label}

OwnSignals == [c \in ThreeClasses |->
    IF c = root THEN <<"destroyed">>
    ELSE IF c = box THEN <<"moved">> ELSE <<"clicked">>]

SignalNames == {"destroyed", "clicked", "moved", "late"}

PropertyTypes == [p \in {"name", "size"} |-> IF p = "name" THEN "STRING" ELSE "INT"]

DefaultOf == [c \in ThreeClasses |->
    [p \in {"name", "size"} |-> IF p = "name" THEN None
                                ELSE IF c = box THEN 1 ELSE 2]]

\* The getter of label has no case for the name that label may declare anew.
AnswersOf == (ThreeClasses \X {"name", "size"}) \ {<<label, "name">>}

ValuesOf == [t \in {"INT", "STRING"} |-> IF t = "INT" THEN 0..2 ELSE {None, "a"}]
=============================================================================
