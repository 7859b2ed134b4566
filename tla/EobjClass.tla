----------------------------- MODULE EobjClass -----------------------------
(***************************************************************************)
(* The classes of eobj (OLD/eobj/src/lib/eobj_class.c), the signals they   *)
(* declare, and what an object takes from its class when it is made: its   *)
(* type and an array with one list of callbacks for each signal the class  *)
(* has at that moment.                                                     *)
(***************************************************************************)
EXTENDS Integers, Sequences

CONSTANTS
    Classes, Root,   \* the classes of the application, and Eobj_Object
    Objects,         \* the objects that are ever made
    Signals,         \* names of signals
    Own,             \* Own[c]: the signals in the description of class c
    None,
    Late             \* the application extends classes that are already in use

Elements(s) == {s[i] : i \in DOMAIN s}

ASSUME EobjAssumption ==
    /\ Root \in Classes
    /\ None \notin Classes
    /\ Own \in [Classes -> Seq(Signals)]
    /\ \A c \in Classes : \A i, j \in DOMAIN Own[c] : Own[c][i] = Own[c][j] => i = j
    /\ \A c, d \in Classes : c # d => Elements(Own[c]) \cap Elements(Own[d]) = {}
    /\ Late \in BOOLEAN

Unset == -1

VARIABLES
    made,      \* the classes that exist
    chain,     \* chain[c]: class->hierarchy, the parent first
    signals,   \* signals[c]: class->signals, the signal of code 0 first
    code,      \* code[s]: the code of a signal as its creator keeps it
    type,      \* type[o]: object->type, None while o is not allocated
    slots      \* slots[o]: the length of object->signal_callbacks

classVars == <<made, chain, signals, code>>
typeVars  == <<type, slots>>

ClassInit ==
    /\ made = {}
    /\ chain = [c \in Classes |-> <<>>]
    /\ signals = [c \in Classes |-> <<>>]
    /\ code = [s \in Signals |-> Unset]
    /\ type = [o \in Objects |-> None]
    /\ slots = [o \in Objects |-> 0]

Allocated == {o \in Objects : type[o] # None}

InheritsFrom(c, p) == c = p \/ p \in Elements(chain[c])

\* Nothing that exists was made from class c.
Unused(c) ==
    /\ \A d \in made : c \notin Elements(chain[d])
    /\ \A o \in Allocated : ~InheritsFrom(type[o], c)

\* Mutants: the signals of the parent are not copied; a code counts only the
\* class's own signals; the objects are given the lists of the root class.
InheritedNone(p) == <<>>
DescribedFromZero(c, p) ==
    [s \in Signals |->
        IF s \in Elements(Own[c])
        THEN (CHOOSE i \in DOMAIN Own[c] : Own[c][i] = s) - 1
        ELSE code[s]]
ListsOfRoot(c) == Len(signals[Root])

\* What a class has of its parent.
Inherited(p) == IF p = None THEN <<>> ELSE signals[p]

\* The codes once the signals in the description of c are made.
Described(c, p) ==
    [s \in Signals |->
        IF s \in Elements(Own[c])
        THEN Len(Inherited(p)) + (CHOOSE i \in DOMAIN Own[c] : Own[c][i] = s) - 1
        ELSE code[s]]

\* Mutant: a class without parent has NULL in its hierarchy.
ClassNewBelowNone(c, p) ==
    /\ c \notin made
    /\ IF c = Root THEN p = None ELSE p \in made
    /\ made' = made \cup {c}
    /\ chain' = [chain EXCEPT ![c] = <<p>> \o IF p = None THEN <<>> ELSE chain[p]]
    /\ signals' = [signals EXCEPT ![c] = Inherited(p) \o Own[c]]
    /\ code' = Described(c, p)
    /\ UNCHANGED typeVars

\* eobj_class_new, which Eobj_Object alone calls without a parent.
ClassNew(c, p) ==
    /\ c \notin made
    /\ IF c = Root THEN p = None ELSE p \in made
    /\ made' = made \cup {c}
    /\ chain' = [chain EXCEPT ![c] = IF p = None THEN <<>> ELSE <<p>> \o chain[p]]
    /\ signals' = [signals EXCEPT ![c] = Inherited(p) \o Own[c]]
    /\ code' = Described(c, p)
    /\ UNCHANGED typeVars

\* eobj_class_delete, of a class of which nothing is left (its documentation
\* asks for that).  Eobj_Object stays: eobj_object_class_get keeps its address.
ClassDelete(c) ==
    /\ c \in made \ {Root}
    /\ Unused(c)
    /\ made' = made \ {c}
    /\ UNCHANGED <<chain, signals, code, typeVars>>

\* eobj_signal_new.
SignalNew(c, s) ==
    /\ c \in made
    /\ Late \/ Unused(c)
    /\ code[s] = Unset
    /\ \A d \in Classes : s \notin Elements(Own[d])
    /\ signals' = [signals EXCEPT ![c] = Append(@, s)]
    /\ code' = [code EXCEPT ![s] = Len(signals[c])]
    /\ UNCHANGED <<made, chain, typeVars>>

Lists(c) == Len(signals[c])

\* What eobj_object_new and eobj_class_object_construct give to an object; the
\* constructors run from the last element of the chain to the class itself.
Construct(o, c) ==
    /\ o \notin Allocated
    /\ c \in made
    /\ type' = [type EXCEPT ![o] = c]
    /\ slots' = [slots EXCEPT ![o] = Lists(c)]

Deallocate(o) ==
    /\ type' = [type EXCEPT ![o] = None]
    /\ slots' = [slots EXCEPT ![o] = 0]

-----------------------------------------------------------------------------
(* Properties.                                                             *)

ClassTypeOK ==
    /\ made \in SUBSET Classes
    /\ chain \in [Classes -> Seq(Classes)]
    /\ signals \in [Classes -> Seq(Signals)]
    /\ code \in [Signals -> Int]
    /\ type \in [Objects -> Classes \cup {None}]
    /\ slots \in [Objects -> Nat]

\* A code means the same signal in a class and in every class made from it: the
\* code a class keeps for a signal of its own finds it in the objects of its
\* subclasses ("each object inherits the signals from its parent classes",
\* eobj_object.c 870).
CodesAreInherited ==
    \A c \in made : \A p \in Elements(chain[c]) \cup {c} :
        \A i \in DOMAIN signals[p] :
            i \in DOMAIN signals[c] /\ signals[c][i] = signals[p][i]

\* The code the application keeps for a signal is its place in the class that
\* declared it, and so in every object that has it.
CodesAreCurrent ==
    \A c \in made : \A s \in Elements(Own[c]) :
        /\ code[s] + 1 \in DOMAIN signals[c]
        /\ signals[c][code[s] + 1] = s

\* Every signal of an object's class has a list of callbacks in the object: a
\* connection, an emission or the destructors never reach beyond the array.
ListsForAllSignals ==
    \A o \in Allocated : type[o] \in made /\ slots[o] = Len(signals[type[o]])
=============================================================================
