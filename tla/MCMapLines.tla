----------------------------- MODULE MCMapLines -----------------------------
(* TLC instance of MapLines: every stream of at most MaxLen bytes.         *)
EXTENDS MapLines

CONSTANT MaxLen
AllInputs == UNION {[1..n -> {"c", "nl"}] : n \in 0..MaxLen}
=============================================================================
