----------------------------- MODULE MCTunAx25 ------------------------------
(* TLC instance of TunAx25.                                                *)
EXTENDS TunAx25

(* A packet of plain bytes, and one of nothing but bytes that need care.   *)
SomePackets == {<<"aa">>, <<FEND, FESC, TFEND>>}
OnePacket == {<<FESC, "aa">>}
SomeAndEmpty == {<<"aa">>, <<FESC, FEND>>, << >>}
NoPackets == {}

(* A frame with an escape that is none, and one cut inside an escape.      *)
BadFrames == {<<FEND, Data0, FESC, "aa", FEND>>, <<FEND, Data0, FESC, FEND>>}
NoGarbage == {}
=============================================================================
