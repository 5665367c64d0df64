------------------------------- MODULE MCDsax -------------------------------
(* TLC instance of Dsax: one user types any three of the bytes that need   *)
(* care or look like a code, the other two bytes that grow on the line.    *)
EXTENDS Dsax

Typings == {<<a, b, c>> : a, b, c \in {XON, ESC, ESC_ESC}} \cup {<<XOFF, "a", ESC_XON>>}
AllInputs == {[e \in Ends |-> IF e = 1 THEN s ELSE <<XOFF, ESC>>] : s \in Typings}
=============================================================================
