----------------------------- MODULE EobjSignal -----------------------------
(***************************************************************************)
(* The signals of objects (OLD/eobj/src/lib/eobj_signal.c and the lists of *)
(* callbacks of eobj_object.c).  eobj has no threads: what interleaves are *)
(* the callbacks, which call the library again while it walks a list.  So  *)
(* the stack of calls under way is part of the state, and a frame keeps    *)
(* what the local variables of its function hold across a callback.        *)
(***************************************************************************)
EXTENDS EobjClass

CONSTANTS
    MaxNodes,     \* bound on the callbacks that are ever connected
    MaxDepth,     \* bound on the callbacks inside one another that call eobj
    Handled,      \* signals with a default handler in the object
    Rules         \* what the application refrains from (see Eobj)

Nodes == 1..MaxNodes
Nil == 0                 \* the end of a list
Unread == -1             \* the head of the list was not read yet

VARIABLES
    stack,      \* the calls under way, the innermost first
    calls,      \* calls[o]: one list of connected callbacks for each signal
    blocked,    \* the callbacks that are blocked
    used,       \* how many callbacks were ever connected
    dead,       \* the objects with destroy_me
    fault       \* "none", or what undefined behaviour was met

signalVars == <<calls, blocked, used>>

SignalInit ==
    /\ stack = <<>>
    /\ calls = [o \in Objects |-> <<>>]
    /\ blocked = {}
    /\ used = 0
    /\ dead = {}
    /\ fault = "none"

-----------------------------------------------------------------------------
(* The stack.                                                              *)

\* The application runs: the library called it back (why: "signal", "handler",
\* "name" or "destructor"), or it is in its main loop.
User(why, o) == [k |-> "user", why |-> why, o |-> o]
Top == IF stack = <<>> THEN User("main", None) ELSE stack[1]
Rest == Tail(stack)
At(kind) == Top.k = kind
Running == fault = "none" /\ At("user")
Depth == Len(SelectSeq(stack, LAMBDA f : f.k = "user"))
MayCall == Running /\ Depth < MaxDepth

Gone(o) == type[o] = None
Touches(o) == IF Gone(o) THEN "freed object" ELSE "none"

-----------------------------------------------------------------------------
(* Lists of callbacks.                                                     *)

Has(o, s) == code[s] + 1 \in DOMAIN calls[o]
ListOf(o, s) == calls[o][code[s] + 1]
Connected == UNION {UNION {Elements(calls[o][i]) : i \in DOMAIN calls[o]} : o \in Allocated}

\* eina_list_next
Next_(list, n) ==
    LET at == {i \in DOMAIN list : list[i] = n /\ i < Len(list)}
    IN  IF at = {} THEN Nil ELSE list[(CHOOSE i \in at : TRUE) + 1]

\* eina_list_remove_list, eina_list_remove and eina_hash_del: the element goes.
Without(s, x) ==
    LET at == CHOOSE i \in DOMAIN s : s[i] = x
    IN  IF x \in Elements(s)
        THEN [i \in 1..Len(s) - 1 |-> IF i < at THEN s[i] ELSE s[i + 1]] ELSE s

First(list) == IF list = <<>> THEN Nil ELSE list[1]

\* eobj_signal_connect and its variants: the new callback is called before
\* those that are connected, or after them.
Connect(o, s, after) ==
    /\ used < MaxNodes
    /\ Has(o, s)
    /\ used' = used + 1
    /\ calls' = [calls EXCEPT ![o][code[s] + 1] =
                    IF after THEN Append(@, used + 1) ELSE <<used + 1>> \o @]
    /\ UNCHANGED blocked

\* eobj_signal_disconnect and its variants: the callback is found by its address
\* or by function and data; it and its element of the list are freed at once.
Disconnect(o, s, n) ==
    /\ Has(o, s)
    /\ n \in Elements(ListOf(o, s))
    /\ calls' = [calls EXCEPT ![o][code[s] + 1] = Without(@, n)]
    /\ blocked' = blocked \ {n}
    /\ UNCHANGED used

\* eobj_signal_disconnect_all
DisconnectAll(o, s) ==
    /\ Has(o, s)
    /\ calls' = [calls EXCEPT ![o][code[s] + 1] = <<>>]
    /\ blocked' = blocked \ Elements(ListOf(o, s))
    /\ UNCHANGED used

\* eobj_signal_block and its variants.
Block(o, s, n) ==
    /\ Has(o, s)
    /\ n \in Elements(ListOf(o, s)) \ blocked
    /\ blocked' = blocked \cup {n}
    /\ UNCHANGED <<calls, used>>

\* eobj_signal_unblock and its variants.
Unblock(o, s, n) ==
    /\ Has(o, s)
    /\ n \in Elements(ListOf(o, s)) \cap blocked
    /\ blocked' = blocked \ {n}
    /\ UNCHANGED <<calls, used>>

-----------------------------------------------------------------------------
(* Emission.                                                               *)

\* Mutant: the emission is not told when its object is destroyed.
Unregistered(o, s) ==
    [k |-> "emit", o |-> o, s |-> s, ptr |-> TRUE, reg |-> FALSE, late |-> o \in dead,
     next |-> Unread, keep |-> TRUE]

\* A call of eobj_signal_emit_valist: ptr says that object_ptr is not NULL, reg
\* that it was registered as a weak pointer, which an object that was destroyed
\* does not take, and late that the object was destroyed before the call.
Emission(o, s) ==
    [k |-> "emit", o |-> o, s |-> s, ptr |-> TRUE, reg |-> o \notin dead, late |-> o \in dead,
     next |-> Unread, keep |-> TRUE]

\* The class of the object has a signal of that code.
HasSignal(o, s) == \E i \in DOMAIN signals[type[o]] : i = code[s] + 1

\* eobj_signal_emit and eobj_signal_emit_by_name, up to the default handler.
Emit(o, s) ==
    /\ HasSignal(o, s)
    /\ stack' = (IF s \in Handled THEN <<User("handler", o), Emission(o, s)>>
                 ELSE <<Emission(o, s)>>) \o stack

\* The list is read after the handler returned.
EmissionReads ==
    /\ At("emit")
    /\ Top.next = Unread
    /\ fault' = IF Top.ptr THEN Touches(Top.o) ELSE fault
    /\ stack' = IF Top.ptr /\ Top.keep /\ ~Gone(Top.o)
                THEN <<[Top EXCEPT !.next = First(ListOf(Top.o, Top.s))]>> \o Rest
                ELSE <<[Top EXCEPT !.next = Nil]>> \o Rest
    /\ UNCHANGED signalVars

Proceeds == Top.keep /\ Top.ptr /\ Top.next # Nil

\* The next callback is called unless it is blocked; the one after it is noted
\* down first.
EmissionCalls ==
    /\ At("emit")
    /\ Top.next # Unread
    /\ Proceeds
    /\ IF Top.next \in Connected
       THEN /\ stack' = (IF Top.next \in blocked THEN <<>> ELSE <<User("signal", Top.o)>>) \o
                        <<[Top EXCEPT !.next = Next_(ListOf(Top.o, Top.s), Top.next)]>> \o Rest
            /\ UNCHANGED fault
       ELSE /\ fault' = "freed callback"
            /\ UNCHANGED stack
    /\ UNCHANGED signalVars

\* The emission ends and takes its weak pointer back.
EmissionEnds ==
    /\ At("emit")
    /\ Top.next # Unread
    /\ ~Proceeds
    /\ stack' = Rest
    /\ fault' = IF Top.ptr THEN Touches(Top.o) ELSE fault
    /\ UNCHANGED signalVars

\* The marshaller writes what the callback returned.
Returned(frame, more) == IF frame.k = "emit" THEN [frame EXCEPT !.keep = more] ELSE frame

\* A callback returns to the library.
Returns(more) ==
    /\ At("user")
    /\ stack # <<>>
    /\ Top.why \in {"name", "destructor"} => more
    /\ stack' = [i \in 1..Len(stack) - 1 |->
                    IF i = 1 THEN Returned(stack[2], more) ELSE stack[i + 1]]
    /\ UNCHANGED <<signalVars, fault>>
=============================================================================
