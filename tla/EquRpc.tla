------------------------------- MODULE EquRpc -------------------------------
(***************************************************************************)
(* What the client library promises its caller: a call returns once, with  *)
(* the daemon's answer to that very call.  No stream, no buffer, no id.    *)
(***************************************************************************)
EXTENDS Naturals

CONSTANTS Procs, None,
          Calls,        \* what can be asked
          Answer(_)     \* Answer(m): the answers the daemon may give to m

VARIABLES
    call,      \* call[p]: the call p waits in, or None
    answer,    \* answer[p]: the daemon's answer to it, or None
    result     \* result[p]: the last call that returned to p and its answer

vars == <<call, answer, result>>

Init ==
    /\ call = [p \in Procs |-> None]
    /\ answer = [p \in Procs |-> None]
    /\ result = [p \in Procs |-> None]

Ask(p, m) ==
    /\ call[p] = None
    /\ call' = [call EXCEPT ![p] = m]
    /\ UNCHANGED <<answer, result>>

Reply(p) ==
    /\ call[p] # None
    /\ answer[p] = None
    /\ \E a \in Answer(call[p]) : answer' = [answer EXCEPT ![p] = a]
    /\ UNCHANGED <<call, result>>

Return(p) ==
    /\ call[p] # None
    /\ answer[p] # None
    /\ result' = [result EXCEPT ![p] = [call |-> call[p], answer |-> answer[p]]]
    /\ call' = [call EXCEPT ![p] = None]
    /\ answer' = [answer EXCEPT ![p] = None]

\* The caller goes away; its call ends without a result.
Abandon(p) ==
    /\ call[p] # None
    /\ call' = [call EXCEPT ![p] = None]
    /\ answer' = [answer EXCEPT ![p] = None]
    /\ UNCHANGED result

Next ==
    \E p \in Procs :
        (\E m \in Calls : Ask(p, m)) \/ Reply(p) \/ Return(p) \/ Abandon(p)

Fairness == \A p \in Procs : WF_vars(Reply(p)) /\ WF_vars(Return(p))

Spec == Init /\ [][Next]_vars /\ Fairness
=============================================================================
