----------------------------- MODULE EobjObject -----------------------------
(***************************************************************************)
(* The life of objects (OLD/eobj/src/lib/eobj_object.c): names and the     *)
(* table that finds an object by its name, callbacks on a change of name,  *)
(* weak pointers, destruction, the purge of the main loop and the shutdown.*)
(* An object is destroyed by marking it and freed by the next purge; both  *)
(* call back the application, which may call any of this again.            *)
(***************************************************************************)
EXTENDS EobjSignal

CONSTANTS
    Names,         \* names that the application gives
    Locations,     \* pointers of the application that it registers as weak
    MaxNotes,      \* bound on the name callbacks of an object
    Destroyed      \* the signal of Eobj_Object

ASSUME ObjectAssumption ==
    /\ MaxNodes \in Nat /\ MaxNotes \in Nat
    /\ None \notin Objects /\ None \notin Names
    /\ Destroyed \in Elements(Own[Root])
    /\ \A s \in Signals : \E c \in Classes : s \in Elements(Own[c])

VARIABLES
    name,      \* name[o]: object->name
    hash,      \* hash[n]: the entries of the name table for n, the newest first
    notes,     \* notes[o]: how many callbacks wait for a change of o's name
    objs,      \* the list of all objects
    loc,       \* loc[l]: the object a location points to
    reg,       \* reg[o]: the locations in object->weak_pointers
    told       \* told[o]: how many times "destroyed" was emitted for o

nameVars == <<name, hash, notes>>
weakVars == <<loc, reg>>
lifeVars == <<dead, objs, told>>

ObjectInit ==
    /\ name = [o \in Objects |-> None]
    /\ hash = [n \in Names |-> <<>>]
    /\ notes = [o \in Objects |-> 0]
    /\ objs = <<>>
    /\ loc = [l \in Locations |-> None]
    /\ reg = [o \in Objects |-> {}]
    /\ told = [o \in Objects |-> 0]

Head_(s) == IF s = <<>> THEN None ELSE s[1]

\* eobj_object_new: the constructors of Eobj_Object leave it without name, and
\* last in the list of objects.
New(o, c) ==
    /\ Construct(o, c)
    /\ calls' = [calls EXCEPT ![o] = [i \in 1..Lists(c) |-> <<>>]]
    /\ objs' = Append(objs, o)
    /\ told' = [told EXCEPT ![o] = 0]
    /\ UNCHANGED <<stack, blocked, used, dead, fault, nameVars, weakVars>>

-----------------------------------------------------------------------------
(* Names.                                                                  *)

\* eobj_object_notification_callback_add, for "name".
NoteAdd(o) ==
    /\ o \in Allocated
    /\ notes[o] < MaxNotes
    /\ notes' = [notes EXCEPT ![o] = @ + 1]
    /\ UNCHANGED <<stack, fault, typeVars, signalVars, lifeVars, name, hash, weakVars>>

\* eobj_object_notify
Notifying(o) == IF notes[o] = 0 THEN <<>> ELSE <<[k |-> "notify", o |-> o, at |-> 1]>>

\* Mutant: the entry of the table stays when the name goes.
KeepsEntry(o, below) ==
    IF o \in dead \/ name[o] = None
    THEN stack' = below /\ UNCHANGED <<name, hash>>
    ELSE /\ name' = [name EXCEPT ![o] = None]
         /\ UNCHANGED hash
         /\ stack' = Notifying(o) \o below

\* eobj_object_name_set with NULL; below is the stack it is called on.
ClearName(o, below) ==
    IF o \in dead \/ name[o] = None
    THEN stack' = below /\ UNCHANGED <<name, hash>>
    ELSE /\ name' = [name EXCEPT ![o] = None]
         /\ hash' = [hash EXCEPT ![name[o]] = Without(@, o)]
         /\ stack' = Notifying(o) \o below

\* The end of eobj_object_name_set: a name that o had keeps its entry.
TakeName(o, n, below) ==
    /\ name' = [name EXCEPT ![o] = n]
    /\ hash' = [hash EXCEPT ![n] = <<o>> \o @]
    /\ stack' = Notifying(o) \o below

Naming(o, n) == [k |-> "naming", o |-> o, n |-> n]

\* eobj_object_name_set.  An object that has the name loses it first, and its
\* callbacks run before o takes it.
NameSet(o, n) ==
    /\ o \in Allocated \ dead
    /\ name[o] # n
    /\ LET other == Head_(hash[n])
       IN  IF n = None THEN ClearName(o, stack) /\ UNCHANGED fault
           ELSE IF other = None THEN TakeName(o, n, stack) /\ UNCHANGED fault
           ELSE /\ fault' = Touches(other)
                /\ IF other = o \/ Gone(other) THEN UNCHANGED <<stack, name, hash>>
                   ELSE ClearName(other, <<Naming(o, n)>> \o stack)
    /\ UNCHANGED <<typeVars, signalVars, lifeVars, notes, weakVars>>

\* The other object's callbacks returned; nothing is looked at again.
NamingEnds ==
    /\ At("naming")
    /\ TakeName(Top.o, Top.n, Rest)
    /\ fault' = Touches(Top.o)
    /\ UNCHANGED <<typeVars, signalVars, lifeVars, notes, weakVars>>

\* One round of the loop of eobj_object_notify.
NotifyStep ==
    /\ At("notify")
    /\ fault' = Touches(Top.o)
    /\ stack' = IF Top.at > notes[Top.o] THEN Rest
                ELSE <<User("name", Top.o), [Top EXCEPT !.at = @ + 1]>> \o Rest
    /\ UNCHANGED <<typeVars, signalVars, lifeVars, nameVars, weakVars>>

\* eobj_object_name_find: EOBJ_OBJECT reads the type of what it found.
NameFind(n) ==
    /\ hash[n] # <<>>
    /\ fault' = Touches(Head_(hash[n]))
    /\ UNCHANGED <<stack, typeVars, signalVars, lifeVars, nameVars, weakVars>>

-----------------------------------------------------------------------------
(* Weak pointers.                                                          *)

\* The application points a location at o and calls eobj_object_weak_pointer_add.
WeakAdd(o, l) ==
    /\ o \in Allocated
    /\ loc[l] # o
    /\ loc' = [loc EXCEPT ![l] = o]
    /\ reg' = [reg EXCEPT ![o] = IF o \in dead THEN @ ELSE @ \cup {l}]
    /\ UNCHANGED <<stack, fault, typeVars, signalVars, lifeVars, nameVars>>

\* eobj_object_weak_pointer_remove, of a location that is used no more.
WeakRemove(o, l) ==
    /\ o \in Allocated
    /\ l \in reg[o]
    /\ loc' = [loc EXCEPT ![l] = IF @ = o THEN None ELSE @]
    /\ reg' = [reg EXCEPT ![o] = @ \ {l}]
    /\ UNCHANGED <<stack, fault, typeVars, signalVars, lifeVars, nameVars>>

\* The emissions of o that are under way and registered lose their pointer.
Severed(s, o) ==
    [i \in DOMAIN s |->
        IF s[i].k = "emit" /\ s[i].o = o /\ s[i].reg THEN [s[i] EXCEPT !.ptr = FALSE] ELSE s[i]]

-----------------------------------------------------------------------------
(* Destruction.                                                            *)

Destroying(o) == [k |-> "destroy", o |-> o]

\* Mutant: an object that is destroyed already is destroyed again.
DestroyAgain(o) ==
    /\ o \in Allocated
    /\ ClearName(o, <<Destroying(o)>> \o stack)
    /\ UNCHANGED <<fault, typeVars, signalVars, lifeVars, notes, weakVars>>

\* eobj_object_destroy, up to the return of eobj_object_name_set.
Destroy(o) ==
    /\ o \in Allocated \ dead
    /\ ClearName(o, <<Destroying(o)>> \o stack)
    /\ UNCHANGED <<fault, typeVars, signalVars, lifeVars, notes, weakVars>>

\* Mutant: weak pointers are left as they are.
KeepsPointers(o) == UNCHANGED weakVars

\* Every location that is registered is set to NULL.
ClearPointers(o) ==
    /\ loc' = [l \in Locations |-> IF l \in reg[o] THEN None ELSE loc[l]]
    /\ reg' = [reg EXCEPT ![o] = {}]

\* The rest of eobj_object_destroy: the object is marked and says so.
DestroyEnds ==
    /\ At("destroy")
    /\ LET o == Top.o
       IN  /\ ClearPointers(o)
           /\ dead' = dead \cup {o}
           /\ told' = [told EXCEPT ![o] = @ + 1]
           /\ stack' = <<[Emission(o, Destroyed) EXCEPT !.reg = FALSE, !.late = TRUE]>> \o Severed(Rest, o)
           /\ fault' = Touches(o)
    /\ UNCHANGED <<typeVars, signalVars, objs, nameVars>>

\* _eobj_object_free begins.
Freeing(o) == [k |-> "free", o |-> o, at |-> 0]

\* It destroys an object that was not (at the shutdown) ...
FreeDestroys ==
    /\ At("free")
    /\ Top.o \notin dead
    /\ fault' = Touches(Top.o)
    /\ ClearName(Top.o, <<Destroying(Top.o)>> \o stack)
    /\ UNCHANGED <<typeVars, signalVars, lifeVars, notes, weakVars>>

\* ... calls the destructors of the classes below Eobj_Object ...
FreeCalls ==
    /\ At("free")
    /\ Top.o \in dead
    /\ Top.at < Len(chain[type[Top.o]])
    /\ stack' = <<User("destructor", Top.o), [Top EXCEPT !.at = @ + 1]>> \o Rest
    /\ UNCHANGED <<fault, typeVars, signalVars, lifeVars, nameVars, weakVars>>

\* Mutant: the object stays in the list of objects.
FreeStaysListed ==
    /\ At("free")
    /\ Top.o \in dead
    /\ Top.at >= Len(chain[type[Top.o]])
    /\ Deallocate(Top.o)
    /\ calls' = [calls EXCEPT ![Top.o] = <<>>]
    /\ name' = [name EXCEPT ![Top.o] = None]
    /\ dead' = dead \ {Top.o}
    /\ stack' = Rest
    /\ UNCHANGED <<fault, blocked, used, hash, notes, objs, weakVars, told>>

\* ... then the destructor of Eobj_Object frees what it keeps (eobj_object.c:108-118),
\* and the callbacks (eobj_class.c:238-253) and the object go, which leaves the
\* list.  The free_cb of the data of an object is taken to call nothing of eobj.
FreeEnds ==
    /\ At("free")
    /\ Top.o \in dead
    /\ Top.at >= Len(chain[type[Top.o]])
    /\ LET o == Top.o
       IN  /\ Deallocate(o)
           /\ calls' = [calls EXCEPT ![o] = <<>>]
           /\ blocked' = blocked \ UNION {Elements(calls[o][i]) : i \in DOMAIN calls[o]}
           /\ name' = [name EXCEPT ![o] = None]
           /\ notes' = [notes EXCEPT ![o] = 0]
           /\ reg' = [reg EXCEPT ![o] = {}]
           /\ dead' = dead \ {o}
           /\ objs' = Without(objs, o)
           /\ stack' = Rest
    /\ UNCHANGED <<fault, used, hash, loc, told>>

\* eobj_object_purge, which the main loop calls at the start of each round.
Purge ==
    /\ stack' = <<[k |-> "purge", next |-> Head_(objs)]>> \o stack
    /\ UNCHANGED <<fault, typeVars, signalVars, lifeVars, nameVars, weakVars>>

\* Mutant: the element after the one that is freed is not noted down.
PurgeLosesNext ==
    /\ At("purge")
    /\ Top.next # None
    /\ stack' = (IF Top.next \in dead THEN <<Freeing(Top.next)>> ELSE <<>>) \o
                <<[Top EXCEPT !.next = None]>> \o Rest
    /\ UNCHANGED <<fault, typeVars, signalVars, lifeVars, nameVars, weakVars>>

Successor(o) ==
    LET at == {i \in DOMAIN objs : objs[i] = o /\ i < Len(objs)}
    IN  IF at = {} THEN None ELSE objs[(CHOOSE i \in at : TRUE) + 1]

\* Mutant: the element after the one that is freed is read from it afterwards.
PurgeReadsAfter ==
    /\ At("purge")
    /\ Top.next # None
    /\ fault' = Touches(Top.next)
    /\ stack' = IF Top.next \in dead THEN <<Freeing(Top.next)>> \o stack
                ELSE <<[Top EXCEPT !.next = Successor(Top.next)]>> \o Rest
    /\ UNCHANGED <<typeVars, signalVars, lifeVars, nameVars, weakVars>>

\* One object of the purge: the one after it is noted down first.
PurgeStep ==
    /\ At("purge")
    /\ Top.next # None
    /\ fault' = Touches(Top.next)
    /\ stack' = (IF Top.next \in dead THEN <<Freeing(Top.next)>> ELSE <<>>) \o
                <<[Top EXCEPT !.next = Successor(Top.next)]>> \o Rest
    /\ UNCHANGED <<typeVars, signalVars, lifeVars, nameVars, weakVars>>

PurgeEnds ==
    /\ At("purge")
    /\ Top.next = None
    /\ stack' = Rest
    /\ UNCHANGED <<fault, typeVars, signalVars, lifeVars, nameVars, weakVars>>

\* eobj_object_shutdown: it frees the first object until none is left.
Shutdown ==
    /\ stack' = <<[k |-> "shutdown"]>> \o stack
    /\ UNCHANGED <<fault, typeVars, signalVars, lifeVars, nameVars, weakVars>>

ShutdownStep ==
    /\ At("shutdown")
    /\ IF objs = <<>> THEN stack' = Rest /\ hash' = [n \in Names |-> <<>>]
       ELSE stack' = <<Freeing(objs[1])>> \o stack /\ UNCHANGED hash
    /\ UNCHANGED <<fault, typeVars, signalVars, lifeVars, name, notes, weakVars>>
=============================================================================
