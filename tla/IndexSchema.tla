----------------------------- MODULE IndexSchema -----------------------------
(***************************************************************************)
(* indexsuper.py: the classes of doxygen's index.xml.                      *)
(***************************************************************************)
EXTENDS SchemaRows

DoxygenType ==
    Unguarded({"version"},
    Children(<<"version">>, <<Many("compound", "CompoundType")>>))

CompoundType ==
    Unguarded({"kind", "refid"},
    Children(<<"kind", "refid">>,
    <<Str("name"), Many("member", "MemberType")>>))

MemberType ==
    Unguarded({"kind", "refid"},
    Children(<<"kind", "refid">>, <<Str("name")>>))

(* The classes by name.  *)
Schema ==
   [DoxygenType |-> DoxygenType, CompoundType |-> CompoundType, MemberType |->
    MemberType]
==============================================================================
