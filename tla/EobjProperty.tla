---------------------------- MODULE EobjProperty ----------------------------
(***************************************************************************)
(* The properties of eobj (OLD/eobj/src/lib/eobj_property.c and the calls  *)
(* on properties of eobj_class.c and eobj_object.c): classes declare       *)
(* properties by name, a name is looked up from the class of the object    *)
(* towards the root, and values travel in a container that says their      *)
(* type.  The setters and getters of a class are the application's: here   *)
(* they keep a copy of the value in one field for each property the class  *)
(* declares, the way those of Eobj_Object keep its name, and a getter may  *)
(* have no case for a property.  Every class has both: without a           *)
(* property_get the call takes the location of the value for the next name *)
(* (eobj_object.c:698).                                                    *)
(***************************************************************************)
EXTENDS EobjClass

CONSTANTS
    Props,         \* names of properties
    PropType,      \* the type each is declared with
    Default,       \* Default[c][p]: the default value that class c declares
    Constructed,   \* the properties with EOBJ_PROPERTY_CONSTRUCT
    Values,        \* Values[t]: the values of type t
    Answers        \* the classes and properties for which the getter has a case

Kinds == {"INT", "STRING"}         \* the types of which the properties are
Zero(t) == IF t = "INT" THEN 0 ELSE None

ASSUME PropertyAssumption ==
    /\ PropType \in [Props -> Kinds]
    /\ Constructed \subseteq Props
    /\ \A t \in Kinds : Zero(t) \in Values[t]
    /\ \A c \in Classes, p \in Props : Default[c][p] \in Values[PropType[p]]
    /\ Answers \subseteq Classes \X Props

VARIABLES
    props,     \* props[c]: the names in class->properties_hash
    field,     \* field[o][c, p]: what the setter of class c keeps for p in o
    asked,     \* asked[o][p]: the value that o should have for p
    got        \* what the last call that reads left with its caller

propVars == <<props, field, asked, got>>

AllZero == [cp \in Classes \X Props |-> Zero(PropType[cp[2]])]

PropertyInit ==
    /\ ClassInit
    /\ props = [c \in Classes |-> {}]
    /\ field = [o \in Objects |-> AllZero]
    /\ asked = [o \in Objects |-> [p \in Props |-> Zero(PropType[p])]]
    /\ got = <<>>

-----------------------------------------------------------------------------
(* Values in their containers.                                             *)

Fresh == [type |-> "NONE", v |-> None]      \* eobj_property_value_new

\* eobj_property_value_set_valist and the setter it chooses: what was in the
\* container is cleared first.
ValueSet(box, t, v) == IF t \in Kinds THEN [type |-> t, v |-> v] ELSE box

\* eobj_property_value_get and the getter it chooses.  A string that is not NULL
\* is not copied: what is handed out is the block the container owns.
ValueGet(box, t) == IF box.type = t THEN box.v ELSE Zero(t)
OwnsString(box) == box.type = "STRING" /\ box.v # None

-----------------------------------------------------------------------------
(* Declaring and finding.                                                  *)

\* eobj_class_property_add.
PropertyAdd(c, p) ==
    /\ c \in made
    /\ Late \/ Unused(c)
    /\ p \notin props[c]
    /\ props' = [props EXCEPT ![c] = @ \cup {p}]
    /\ got' = <<>>
    /\ UNCHANGED <<classVars, typeVars, field, asked>>

\* The class and those it inherits from, nearest first.
Line(c) == <<c>> \o chain[c]

\* eobj_class_property_find.
Owner(c, p) ==
    LET at == {i \in DOMAIN Line(c) : p \in props[Line(c)[i]]}
    IN  IF at = {} THEN None ELSE Line(c)[CHOOSE i \in at : \A j \in at : i <= j]

\* Mutant: the default is set in the class of the object only.
DefaultsOfClass(c) == {cp \in {c} \X Constructed : cp[2] \in props[cp[1]]}

\* The fields that eobj_class_object_construct sets to their default values.
Defaults(c) == {cp \in Elements(Line(c)) \X Constructed : cp[2] \in props[cp[1]]}

-----------------------------------------------------------------------------
(* Calls on objects.                                                       *)

\* eobj_object_new: the fields are those of a constructed object.
ObjectNew(o, c) ==
    /\ Construct(o, c)
    /\ field' = [field EXCEPT ![o] =
            [cp \in Classes \X Props |->
                IF cp \in Defaults(c)
                THEN ValueGet(ValueSet(Fresh, PropType[cp[2]], Default[cp[1]][cp[2]]), PropType[cp[2]])
                ELSE AllZero[cp]]]
    /\ asked' = [asked EXCEPT ![o] =
            [p \in Props |-> IF p \in Constructed /\ Owner(c, p) # None
                             THEN Default[Owner(c, p)][p] ELSE Zero(PropType[p])]]
    /\ got' = <<>>
    /\ UNCHANGED <<classVars, props>>

\* The object is freed, some time after it was destroyed.
ObjectFree(o) ==
    /\ o \in Allocated
    /\ Deallocate(o)
    /\ field' = [field EXCEPT ![o] = AllZero]
    /\ asked' = [asked EXCEPT ![o] = [p \in Props |-> Zero(PropType[p])]]
    /\ got' = <<>>
    /\ UNCHANGED <<classVars, props>>

\* What the setter of the owner does with a container.
Setter(o, c, p, box) == [field EXCEPT ![o][<<c, p>>] = ValueGet(box, PropType[p])]

\* eobj_object_properties_set with one name and value.
PropertiesSet(o, p, v) ==
    /\ o \in Allocated
    /\ LET c == Owner(type[o], p)
       IN  /\ c # None
           /\ field' = Setter(o, c, p, ValueSet(Fresh, PropType[p], v))
    /\ asked' = [asked EXCEPT ![o][p] = v]
    /\ got' = <<>>
    /\ UNCHANGED <<classVars, typeVars, props>>

\* eobj_object_property_reset.
PropertyReset(o, p) ==
    /\ o \in Allocated
    /\ LET c == Owner(type[o], p)
       IN  /\ c # None
           /\ field' = Setter(o, c, p, ValueSet(Fresh, PropType[p], Default[c][p]))
           /\ asked' = [asked EXCEPT ![o][p] = Default[c][p]]
    /\ got' = <<>>
    /\ UNCHANGED <<classVars, typeVars, props>>

\* The getter of the owner fills the container, or leaves it as it is.
Getter(o, c, p, box) ==
    IF <<c, p>> \in Answers THEN ValueSet(box, PropType[p], field[o][<<c, p>>]) ELSE box

\* What is left at the location given for a name, once the call has returned: its
\* value, whether the getter told it, and whether it is a string that was freed,
\* by the next getter or with the container.  An empty container leaves nothing.
Left(o, c, p, box) ==
    IF box.type = "NONE" THEN <<>>
    ELSE <<[o |-> o, p |-> p, v |-> ValueGet(box, box.type),
            told |-> <<c, p>> \in Answers, freed |-> OwnsString(box)]>>

\* eobj_object_properties_get of two names: one container serves both and is
\* deleted at the end, and the first name that is not found ends the call.
PropertiesGet(o, p, q) ==
    LET c == Owner(type[o], p)
        d == Owner(type[o], q)
        first == Getter(o, c, p, Fresh)
        second == Getter(o, d, q, first)
    IN  /\ o \in Allocated
        /\ c # None
        /\ got' = Left(o, c, p, first) \o (IF d = None THEN <<>> ELSE Left(o, d, q, second))
        /\ UNCHANGED <<classVars, typeVars, props, field, asked>>

-----------------------------------------------------------------------------

vars == <<classVars, typeVars, propVars>>

Keeping == UNCHANGED <<props, field, asked>> /\ got' = <<>>

Next ==
    \/ \E c \in Classes, p \in Classes \cup {None} : ClassNew(c, p) /\ Keeping
    \/ \E c \in Classes : /\ ClassDelete(c)
                          /\ props' = [props EXCEPT ![c] = {}]
                          /\ got' = <<>>
                          /\ UNCHANGED <<field, asked>>
    \/ \E c \in Classes, s \in Signals : SignalNew(c, s) /\ Keeping
    \/ \E c \in Classes, p \in Props : PropertyAdd(c, p)
    \/ \E o \in Objects, c \in Classes : ObjectNew(o, c)
    \/ \E o \in Objects : ObjectFree(o)
    \/ \E o \in Objects, p \in Props : PropertyReset(o, p) \/ \E v \in Values[PropType[p]] : PropertiesSet(o, p, v)
    \/ \E o \in Objects, p, q \in Props : PropertiesGet(o, p, q)

Spec == PropertyInit /\ [][Next]_vars

\* A property reads as it was last asked for under that name, by a setter or a
\* default, whichever class of the line keeps it and whatever the container held
\* for the name before; but a string that is not NULL is gone when the call returns
\* (eobj_object.c:713), and nothing else is.  A getter without a case tells nothing.
ReadsWhatWasSet ==
    \A i \in DOMAIN got :
        LET r == got[i]
        IN  r.told => /\ ~r.freed => r.v = asked[r.o][r.p]
                      /\ r.freed <=> PropType[r.p] = "STRING" /\ asked[r.o][r.p] # None
=============================================================================
