------------------------------ MODULE Executor ------------------------------
(***************************************************************************)
(* What a worker pool promises its owner, without threads, locks or a      *)
(* queue: every closure submitted is executed exactly once, and closing    *)
(* returns only after all of them were.                                    *)
(***************************************************************************)
EXTENDS Integers

CONSTANT Funcs

VARIABLES
    submitted,  (* the closures handed over                *)
    executions, (* how often each closure was executed     *)
    phase       (* "open", "closing", "closed" or "down"   *)

vars == <<submitted, executions, phase>>

Init ==
    /\ submitted = {}
    /\ executions = [f \in Funcs |-> 0]
    /\ phase = "open"

Submit(f) ==
    /\ phase = "open" /\ f \notin submitted
    /\ submitted' = submitted \cup {f}
    /\ UNCHANGED <<executions, phase>>

Execute(f) ==
    /\ phase \in {"open", "closing"}
    /\ f \in submitted /\ executions[f] = 0
    /\ executions' = [executions EXCEPT ![f] = 1]
    /\ UNCHANGED <<submitted, phase>>

Close ==
    /\ phase = "open"
    /\ phase' = "closing"
    /\ UNCHANGED <<submitted, executions>>

Closed ==
    /\ phase = "closing"
    /\ \A f \in submitted : executions[f] = 1
    /\ phase' = "closed"
    /\ UNCHANGED <<submitted, executions>>

(* The pool was never built, or an exception ended the process.            *)
Fail ==
    /\ phase \in {"open", "closing"}
    /\ phase' = "down"
    /\ UNCHANGED <<submitted, executions>>

Next ==
    \/ \E f \in Funcs : Submit(f) \/ Execute(f)
    \/ Close \/ Closed \/ Fail

Spec == Init /\ [][Next]_vars
=============================================================================
