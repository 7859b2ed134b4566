-------------------------------- MODULE Eobj --------------------------------
(***************************************************************************)
(* eobj as a whole: an application of one thread that calls the library    *)
(* from its main loop and from the callbacks the library makes, down to    *)
(* MaxDepth of them inside one another.  The library is safe only with an    *)
(* application that refrains from some calls, which its documentation does *)
(* not name: Rules says which of those the application keeps to.           *)
(*   "keep next"       it does not disconnect the callback that follows    *)
(*                     the running one in an emission under way            *)
(*   "no nested loop"  it does not run the main loop, or the shutdown, from*)
(*                     a callback                                          *)
(*   "unnamed first"   it takes the name of an object away before it gives *)
(*                     it another                                          *)
(*   "quiet names"     it neither names nor destroys objects while a       *)
(*                     callback on a change of name runs                   *)
(*   "weak on living"  it does not register a weak pointer to an object    *)
(*                     that was destroyed                                  *)
(***************************************************************************)
EXTENDS EobjObject

AllRules == {"keep next", "no nested loop", "unnamed first", "quiet names", "weak on living"}

ASSUME RulesAssumption == Rules \subseteq AllRules

vars == <<classVars, typeVars, signalVars, lifeVars, nameVars, weakVars, stack, fault>>

Codes == UNION {DOMAIN signals[c] : c \in Classes}

\* The classes of the application, each made from Eobj_Object, exist before any
\* object does.
Settled ==
    /\ made = Classes
    /\ chain = [c \in Classes |-> IF c = Root THEN <<>> ELSE <<Root>>]
    /\ signals = [c \in Classes |-> IF c = Root THEN Own[Root] ELSE Own[Root] \o Own[c]]
    /\ code = [s \in Signals |->
                 (CHOOSE i \in Codes :
                    \E c \in Classes : i \in DOMAIN signals[c] /\ signals[c][i] = s) - 1]
    /\ type = [o \in Objects |-> None]
    /\ slots = [o \in Objects |-> 0]

Init == Settled /\ SignalInit /\ ObjectInit

-----------------------------------------------------------------------------
(* What the application refrains from.                                     *)

Keeps(rule) == rule \in Rules

Within(why) == \E i \in DOMAIN stack : stack[i].k = "user" /\ stack[i].why = why

\* The callbacks that emissions under way will look at next.
Coming == {stack[i].next : i \in {j \in DOMAIN stack : stack[j].k = "emit"}}

MayFree(o, s, gone) == Keeps("keep next") => gone \cap Coming = {}
MayLoop == Keeps("no nested loop") => stack = <<>>
MayName(o, n) ==
    /\ Keeps("unnamed first") /\ n # None => name[o] = None
    /\ Keeps("quiet names") /\ n # None => ~Within("name")
MayDestroy == Keeps("quiet names") => ~Within("name")
MayWatch(o) == Keeps("weak on living") => o \notin dead

-----------------------------------------------------------------------------
(* Steps.                                                                  *)

\* Steps that only change lists of callbacks.
Listing ==
    /\ \E o \in Allocated, s \in Signals :
        \/ \E after \in BOOLEAN : Connect(o, s, after)
        \/ \E n \in Nodes : MayFree(o, s, {n}) /\ Disconnect(o, s, n)
        \/ Has(o, s) /\ MayFree(o, s, Elements(ListOf(o, s))) /\ DisconnectAll(o, s)
        \/ \E n \in Nodes : Block(o, s, n)
        \/ \E n \in Nodes : Unblock(o, s, n)
    /\ UNCHANGED <<typeVars, lifeVars, nameVars, weakVars, stack, fault>>

Emits ==
    /\ \E o \in Allocated, s \in Signals \ {Destroyed} : Emit(o, s)
    /\ UNCHANGED <<typeVars, signalVars, lifeVars, nameVars, weakVars, fault>>

\* The application runs, in the main loop or in a callback, and calls eobj.
Application ==
    /\ MayCall
    /\ \/ Listing
       \/ Emits
       \/ \E o \in Objects, c \in Classes : New(o, c)
       \/ \E o \in Objects : NoteAdd(o)
       \/ \E o \in Objects, n \in Names \cup {None} : MayName(o, n) /\ NameSet(o, n)
       \/ \E n \in Names : NameFind(n)
       \/ \E o \in Objects, l \in Locations : MayWatch(o) /\ WeakAdd(o, l)
       \/ \E o \in Objects, l \in Locations : WeakRemove(o, l)
       \/ \E o \in Objects : MayDestroy /\ Destroy(o)
       \/ MayLoop /\ Shutdown
    /\ UNCHANGED classVars

\* The main loop begins a round.
Round == MayCall /\ MayLoop /\ Purge /\ UNCHANGED classVars

\* A callback of the application returns, at a depth of d callbacks.
ReturnsAt(d) ==
    /\ fault = "none"
    /\ Depth = d
    /\ \E more \in BOOLEAN : Returns(more)
    /\ UNCHANGED <<classVars, typeVars, lifeVars, nameVars, weakVars>>

Emission_ ==
    /\ EmissionReads \/ EmissionCalls \/ EmissionEnds
    /\ UNCHANGED <<typeVars, lifeVars, nameVars, weakVars>>

\* The library goes on with the call on top of the stack.
Library ==
    /\ fault = "none"
    /\ \/ Emission_
       \/ NamingEnds \/ NotifyStep
       \/ DestroyEnds
       \/ FreeDestroys \/ FreeCalls \/ FreeEnds
       \/ PurgeStep \/ PurgeEnds
       \/ ShutdownStep
    /\ UNCHANGED classVars

Depths == 1..MaxDepth

Next == Application \/ Round \/ Library \/ \E d \in Depths : ReturnsAt(d)

\* The library runs when it is called, the main loop comes round, and the
\* callbacks of the application return.
Fairness ==
    /\ WF_vars(Library)
    /\ SF_vars(Round)
    /\ \A d \in Depths : SF_vars(ReturnsAt(d))

Spec == Init /\ [][Next]_vars /\ Fairness

-----------------------------------------------------------------------------
(* Properties.                                                             *)

TypeOK ==
    /\ ClassTypeOK
    /\ calls \in [Objects -> Seq(Seq(Nodes))]
    /\ blocked \subseteq Nodes /\ used \in 0..MaxNodes
    /\ dead \subseteq Allocated
    /\ name \in [Objects -> Names \cup {None}]
    /\ hash \in [Names -> Seq(Objects)]
    /\ notes \in [Objects -> 0..MaxNotes]
    /\ objs \in Seq(Objects) /\ Elements(objs) = Allocated
    /\ loc \in [Locations -> Objects \cup {None}]
    /\ reg \in [Objects -> SUBSET Locations]
    /\ told \in [Objects -> Nat]

\* No call of the library, whatever the callbacks it makes call, goes through an
\* object or a callback that was freed: the emission walks its list while the
\* callbacks edit it, the purge walks the objects while destructors add some.
NoFault == fault = "none"

\* The table of names finds the object that has the name, and no other: what
\* eobj_object_name_find promises ("the object called name", eobj_object.c 369).
NamesAgree ==
    \A n \in Names :
        /\ \A i \in DOMAIN hash[n] : hash[n][i] \in Allocated \ dead
        /\ Elements(hash[n]) = {o \in Objects : name[o] = n}
        /\ Len(hash[n]) <= 1

\* A weak pointer of the application is NULL before its object is freed
\* ("automatically set to NULL when the object is destroyed", eobj_object.c 488).
WeakSafe == \A l \in Locations : loc[l] # None => ~Gone(loc[l])

\* An emission learns that its object was destroyed by whichever callback, and
\* only then: it never reads the lists of an object that is freed, and calls no
\* callback after those of "destroyed".
EmissionKnows ==
    \A i \in DOMAIN stack : stack[i].k = "emit" =>
        /\ ~Gone(stack[i].o)
        /\ ~stack[i].late => (stack[i].ptr <=> stack[i].o \notin dead)

\* An object says "destroyed" once, and its destructors run after every callback
\* of that signal has returned ("before all the destructors of the object are
\* called", eobj_object.c 900).
SaysDestroyedOnce ==
    \A o \in Allocated :
        /\ told[o] <= 1
        /\ o \in dead => told[o] = 1
        /\ \A i \in DOMAIN stack : stack[i].k = "free" /\ stack[i].o = o /\ stack[i].at > 0 =>
             \A j \in DOMAIN stack : ~(stack[j].k = "emit" /\ stack[j].o = o /\ stack[j].s = Destroyed)

\* Every object that was destroyed is freed by and by.
DestroyedIsFreed == \A o \in Objects : o \in dead ~> o \notin dead

-----------------------------------------------------------------------------
(* Why the safety properties hold, with an application that keeps to all   *)
(* the rules: what a frame of the stack says of the object it is about,    *)
(* and which frames may be above which.                                    *)

Loops   == {"purge", "shutdown"}
Pending == {"naming", "destroy"}

Frame ==
    [k : {"user"}, why : {"signal", "handler", "name", "destructor"}, o : Objects]
      \cup [k : {"emit"}, o : Objects, s : Signals, ptr : BOOLEAN, reg : BOOLEAN,
            late : BOOLEAN, next : Nodes \cup {Nil, Unread}, keep : BOOLEAN]
      \cup [k : {"naming"}, o : Objects, n : Names]
      \cup [k : {"notify"}, o : Objects, at : Nat]
      \cup [k : {"destroy"}, o : Objects]
      \cup [k : {"free"}, o : Objects, at : Nat]
      \cup [k : {"purge"}, next : Objects \cup {None}]
      \cup [k : {"shutdown"}]

\* A frame is about an object that exists; an emission will find its lists and
\* its next callback; an object that waits for its name has none, nor has
\* another that name; one that waits for its destruction has no name.
Sound(f) ==
    /\ f \in Frame
    /\ f.k \notin Loops => f.o \in Allocated
    /\ f.k = "emit" =>
         /\ Has(f.o, f.s)
         /\ f.next \in Nodes => f.next \in Connected
         /\ ~f.late => f.reg
         /\ f.reg => (f.ptr <=> f.o \notin dead)
    /\ f.k \in Pending => f.o \notin dead /\ name[f.o] = None
    /\ f.k = "naming" => hash[f.n] = <<>>
    /\ f.k = "free" /\ f.at > 0 => f.o \in dead
    /\ f.k = "purge" => f.next \in Allocated \cup {None}

\* The loops that free objects are at the bottom, below nothing but an object
\* they free; one object at most waits for its name or its destruction, for the
\* callbacks on a change of name.
Shape(s) ==
    /\ \A i \in DOMAIN s : s[i].k \in Loops => i = Len(s)
    /\ \A i \in DOMAIN s : s[i].k = "free" =>
         /\ i + 1 = Len(s) /\ s[i + 1].k \in Loops
         /\ s[i + 1].k = "purge" => s[i + 1].next # s[i].o
    /\ \A i \in DOMAIN s \ {1} : s[i].k \in Pending => s[i - 1].k = "notify"
    /\ \A i \in DOMAIN s \ {1} : s[i].k = "notify" => s[i - 1].k = "user" /\ s[i - 1].why = "name"
    /\ \A i, j \in DOMAIN s : s[i].k \in Pending /\ s[j].k \in Pending => i = j
    /\ \A i, j \in DOMAIN s :
         s[i].k = "free" /\ s[i].at > 0 /\ s[j].k = "emit" /\ s[j].s = Destroyed =>
           s[i].o # s[j].o

\* What is in the tables agrees with the objects that exist.
Store ==
    /\ \A i, j \in DOMAIN objs : objs[i] = objs[j] => i = j
    /\ \A o \in Allocated :
         /\ Len(calls[o]) = Lists(type[o])
         /\ told[o] = IF o \in dead THEN 1 ELSE 0
    /\ \A l \in Locations : loc[l] # None =>
         loc[l] \in Allocated \ dead /\ l \in reg[loc[l]]

\* All of it together is inductive: between any two steps of the library the
\* frames of the calls under way fit the objects, the names, the lists of
\* callbacks and the weak pointers, however deep a callback calls eobj again.
SafeInv ==
    /\ TypeOK /\ NoFault /\ NamesAgree /\ Store
    /\ stack \in Seq(Frame) /\ Shape(stack)
    /\ \A f \in Elements(stack) : Sound(f)
=============================================================================
