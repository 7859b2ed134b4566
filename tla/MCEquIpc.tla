------------------------------ MODULE MCEquIpc ------------------------------
(***************************************************************************)
(* Instances of EquIpc for TLC.                                            *)
(***************************************************************************)
EXTENDS EquIpc

CONSTANTS a, b, pa, pb

\* Two client processes with a connection each.
TwoProcs == [c \in {a, b} |-> IF c = a THEN pa ELSE pb]
TwoFirst == [p \in {pa, pb} |-> IF p = pa THEN a ELSE b]

\* One process with one connection.
OneProc  == [c \in {a} |-> pa]
OneFirst == [p \in {pa} |-> a]

\* One process that called equ_new twice.
SharedProc  == [c \in {a, b} |-> pa]
SharedFirst == [p \in {pa} |-> a]

Both     == {HOSTS_GET, LAYERS_GET}
Ids      == {CONTROLLERS_GET, LAYER_CAPS_GET}
OneKind  == {LAYERS_GET}
Surfaces == {HOSTS_GET, SURFACE_GET}
=============================================================================
