---------------------------- MODULE MCThreadPool ----------------------------
(* TLC instance of ThreadPool and of its refinement of Executor.           *)
EXTENDS ThreadPoolRefinement
=============================================================================
