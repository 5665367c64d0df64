-------------------------------- MODULE Kiss --------------------------------
(***************************************************************************)
(* KISS framing as modem/tun/src/queue.cc writes and reads it.  A byte is  *)
(* a string: the four special bytes, "00" for the zero of the command      *)
(* byte, and any other string for a byte without a meaning of its own.     *)
(***************************************************************************)
EXTENDS Integers, Sequences, SequencesExt

FEND == "FEND"
FESC == "FESC"
TFEND == "TFEND"
TFESC == "TFESC"
Data0 == "00"

-----------------------------------------------------------------------------
(* KISSQueue::enqueue.                                                     *)

Escape(b) ==
    CASE b = FESC -> <<FESC, TFESC>>
      [] b = FEND -> <<FESC, TFEND>>
      [] OTHER -> <<b>>

EscapeStep(t, b) == t \o Escape(b)
Escaped(packet) == FoldLeft(EscapeStep, << >>, packet)

Framed(packet) == <<FEND, Data0>> \o Escaped(packet) \o <<FEND>>

-----------------------------------------------------------------------------
(* KISSIngress::read, the loop over unparsed_.  packet, fail and the       *)
(* position are locals of one call and start afresh in each; what is left  *)
(* in unparsed_ is parsed again.  "esc": the previous byte was FESC.       *)
(* "skip": the loop's i++ follows an erase and i = 0, so that the first    *)
(* byte that remains is never looked at in this call.                      *)

ParseStart == [packet |-> << >>, fail |-> FALSE, esc |-> FALSE, skip |-> FALSE,
               kept |-> << >>, out |-> << >>]

(* erase up to and including the byte at i, and i = 0.                     *)
Erased(s) == [s EXCEPT !.kept = << >>, !.skip = TRUE]

UnescapeSwapped(s, b) ==
    CASE b = TFEND -> [s EXCEPT !.esc = FALSE, !.packet = Append(@, FESC)]
      [] b = TFESC -> [s EXCEPT !.esc = FALSE, !.packet = Append(@, FEND)]
      [] OTHER -> [s EXCEPT !.esc = FALSE, !.packet = << >>, !.fail = TRUE]

Unescape(s, b) ==
    CASE b = TFEND -> [s EXCEPT !.esc = FALSE, !.packet = Append(@, FEND)]
      [] b = TFESC -> [s EXCEPT !.esc = FALSE, !.packet = Append(@, FESC)]
      [] OTHER -> [s EXCEPT !.esc = FALSE, !.packet = << >>, !.fail = TRUE]

Emitted(s) ==
    IF s.packet = << >> THEN s
    ELSE [s EXCEPT !.out = Append(@, s.packet), !.packet = << >>]

ParseByte(t, b) ==
    LET s == [t EXCEPT !.kept = Append(@, b)] IN
    CASE s.skip -> [s EXCEPT !.skip = FALSE]
      [] s.fail /\ ~s.skip ->
            IF b = FEND THEN Erased([s EXCEPT !.fail = FALSE]) ELSE s
      [] s.esc /\ ~s.fail /\ ~s.skip -> Unescape(s, b)
      [] b = FESC /\ ~s.esc /\ ~s.fail /\ ~s.skip -> [s EXCEPT !.esc = TRUE]
      [] b = FEND /\ ~s.esc /\ ~s.fail /\ ~s.skip -> Erased(Emitted(s))
      [] OTHER -> [s EXCEPT !.packet = Append(@, b)]

(* The packets one call enqueues, and what it leaves in unparsed_.         *)
Parse(unparsed) == FoldLeft(ParseByte, ParseStart, unparsed)

-----------------------------------------------------------------------------
(* The other end of the pty, written from the KISS protocol and not from   *)
(* this code: frames are what stands between FENDs, empty ones are         *)
(* ignored, the first byte is the command, a frame with a bad escape is    *)
(* dropped.                                                                *)
PeerStart == [frame |-> << >>, esc |-> FALSE, bad |-> FALSE, out |-> << >>]

PeerEnd(s) ==
    [frame |-> << >>, esc |-> FALSE, bad |-> FALSE,
     out |-> IF s.bad \/ s.esc \/ Len(s.frame) < 2 THEN s.out
             ELSE Append(s.out, Tail(s.frame))]

PeerByte(s, b) ==
    CASE b = FEND -> PeerEnd(s)
      [] b # FEND /\ s.esc ->
            IF b \in {TFEND, TFESC}
            THEN [s EXCEPT !.esc = FALSE,
                           !.frame = Append(@, IF b = TFEND THEN FEND ELSE FESC)]
            ELSE [s EXCEPT !.esc = FALSE, !.bad = TRUE]
      [] b = FESC /\ ~s.esc -> [s EXCEPT !.esc = TRUE]
      [] OTHER -> [s EXCEPT !.frame = Append(@, b)]

PeerDecode(bytes) == FoldLeft(PeerByte, PeerStart, bytes).out
=============================================================================
