----------------------------- MODULE DoxyPrograms -----------------------------
(***************************************************************************)
(* The programs of docs/doxygen: swig_doc.py (or another client of         *)
(* doxyxml) on a directory, or compoundsuper.py on a document.  One run    *)
(* starts one of them.                                                     *)
(***************************************************************************)
EXTENDS SwigDoc, CompoundMain

vars == <<swigVars, mainVars>>

Init == (SwigInit /\ MainIdle) \/ (MainInit /\ SwigIdle)

Next ==
    \/ SwigNext /\ UNCHANGED mainVars
    \/ MainNext /\ UNCHANGED swigVars

Spec == Init /\ [][Next]_vars
==============================================================================
