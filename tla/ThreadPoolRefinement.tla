------------------------ MODULE ThreadPoolRefinement ------------------------
(* ThreadPool implements Executor.  The closing phase begins when the      *)
(* destructor sets done_ and ends when threads_ has been joined.           *)
EXTENDS ThreadPool

PhaseOf ==
    CASE ~alive \/ opc \in {"unwind", "unwound"} -> "down"
      [] alive /\ opc = "join" -> "closing"
      [] alive /\ opc = "gone" -> "closed"
      [] OTHER -> "open"

Promise == INSTANCE Executor
    WITH submitted <- Added, executions <- calls, phase <- PhaseOf

(* Every behaviour of the pool is one of the executor: closures run        *)
(* exactly once, none after the destructor returned, and the destructor    *)
(* returns only after all have run (add, thread_main, ~ThreadPool).        *)
ImplementsExecutor == Promise!Spec
=============================================================================
