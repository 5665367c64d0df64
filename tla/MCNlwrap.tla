------------------------------ MODULE MCNlwrap ------------------------------
(* TLC instance of Nlwrap.                                                 *)
EXTENDS Nlwrap

ThreeBytes == <<"a", "CR", "CR">>
FiveBytes == <<"a", "CR", "b", "CR", "c">>
=============================================================================
