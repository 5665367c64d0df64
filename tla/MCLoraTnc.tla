----------------------------- MODULE MCLoraTnc ------------------------------
(* TLC instance of LoraTnc.                                                *)
EXTENDS LoraTnc

OnePacket == {<<FESC, "aa">>}
(* A packet of plain bytes, and one of nothing but bytes that need care.   *)
SomePackets == {<<"aa">>, <<FEND, FESC>>}

(* Bytes between two frames, a frame with an escape that is none, and one  *)
(* cut inside an escape.                                                   *)
BadFrames == {<<"bb">>, <<FEND, "bb", FESC, "bb", FEND>>,
              <<FEND, "bb", FESC, FEND>>}
=============================================================================
