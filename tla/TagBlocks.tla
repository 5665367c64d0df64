----------------------------- MODULE TagBlocks -----------------------------
(***************************************************************************)
(* The blocks of gr-habets that cut packets out of a stream by its tags:   *)
(* packetize_burst (a tag TRUE at the first sample, FALSE at the last),    *)
(* tagged_stream_to_large_pdu_f and prototype_tagged_stream_to_vector (a   *)
(* tag with the length at the first sample).                               *)
(*                                                                         *)
(* One call of work() sees the samples win and the tags in it, a set of    *)
(* [at, key, value] with at counted from the start of win.  It gives the   *)
(* new state d of the block and how many samples it ate:                   *)
(*   buf    buffer_                                                        *)
(*   len    current_length_                                                *)
(*   out    the PDUs or vectors published so far                           *)
(* c.len is the packet_len of prototype_tagged_stream_to_vector.           *)
(***************************************************************************)
EXTENDS Positions, SequencesExt

Keyed(tags, key) == {t \in tags : t.key = key}
Earliest(tags) == CHOOSE t \in tags : \A u \in tags : t.at <= u.at

-----------------------------------------------------------------------------
(* packetize_burst                                                         *)

StartEatsAll(d, win, t) ==
    [d |-> [d EXCEPT !.buf = Append(@, win[t.at + 1])], ate |-> Len(win)]

(* Only the first sample: the rest of win is seen again by the next call.  *)
Start(d, win, t) ==
    [d |-> [d EXCEPT !.buf = Append(@, win[t.at + 1])], ate |-> t.at + 1]

(* An end without a beginning publishes an empty PDU.                      *)
End(d, win, t) ==
    LET ate == t.at + 1
        packet == IF d.buf = << >> THEN << >> ELSE d.buf \o SubSeq(win, 1, ate)
    IN  [d |-> [d EXCEPT !.buf = << >>, !.out = Append(@, packet)], ate |-> ate]

Middle(d, win) ==
    [d |-> [d EXCEPT !.buf = IF @ = << >> THEN @ ELSE @ \o win], ate |-> Len(win)]

PacketizeBurst(d, win, tags) ==
    LET mine == Keyed(tags, "burst")
        t == Earliest(mine)
    IN  IF mine = {} THEN Middle(d, win)
        ELSE IF t.value THEN Start(d, win, t)
        ELSE End(d, win, t)

-----------------------------------------------------------------------------
(* tagged_stream_to_large_pdu_f                                            *)

ToReadTooMuch(d, win) == Min({Len(win), d.len})

ToRead(d, win) == Min({Len(win), d.len - Len(d.buf)})

(* What is left of win behind the packet's end is eaten with it, and       *)
(* outside a packet each call publishes an empty PDU.                      *)
ReadOn(d, win) ==
    LET buf == d.buf \o SubSeq(win, 1, ToRead(d, win))
    IN  [d |-> IF Len(buf) = d.len
               THEN [d EXCEPT !.buf = << >>, !.len = 0, !.out = Append(@, buf)]
               ELSE [d EXCEPT !.buf = buf],
         ate |-> Len(win)]

(* Outside a packet: eat up to the first tag that is not at the very       *)
(* start, even when there is one at the start; else read on.               *)
LargePdu(d, win, tags) ==
    LET mine == IF d.len = 0 THEN Keyed(tags, "length") ELSE {}
        later == {t \in mine : t.at # 0}
        t == Earliest(IF later = {} THEN mine ELSE later)
    IN  IF later # {}
        THEN [d |-> [d EXCEPT !.len = t.value], ate |-> t.at]
        ELSE ReadOn(IF mine = {} THEN d ELSE [d EXCEPT !.len = t.value], win)

-----------------------------------------------------------------------------
(* prototype_tagged_stream_to_vector                                       *)

Forecast(c) == 10 * c.len

(* Skip to the first tag of the right length; when there already, put out  *)
(* the packet but eat its first sample only.                               *)
ToVector(c, d, win, tags) ==
    LET mine == {t \in Keyed(tags, "length") : t.value = c.len}
        t == Earliest(mine)
    IN  IF mine = {} THEN [d |-> d, ate |-> Len(win)]
        ELSE IF t.at # 0 THEN [d |-> d, ate |-> t.at]
        ELSE [d |-> [d EXCEPT !.out = Append(@, SubSeq(win, 1, c.len))], ate |-> 1]

-----------------------------------------------------------------------------
(* What the blocks are for, for the stream s and its tags, at an absolute  *)
(* position counted from 0.                                                *)

StartsAt(tags) == {t.at : t \in {u \in Keyed(tags, "burst") : u.value}}
EndsAt(tags) == {t.at : t \in {u \in Keyed(tags, "burst") : ~u.value}}

(* A start is followed by an end before the next start.                    *)
TakeTurns(tags) ==
    /\ StartsAt(tags) \cap EndsAt(tags) = {}
    /\ \A p, q \in StartsAt(tags) : p < q => \E e \in EndsAt(tags) : p < e /\ e < q

(* Where the burst begins that ends at e, if it does: at a start behind    *)
(* the last end.                                                           *)
BeginsAt(tags, e) ==
    {p \in StartsAt(tags) : p < e /\ \A q \in EndsAt(tags) : q < e => q < p}

Burst(s, tags, e) ==
    IF BeginsAt(tags, e) = {} THEN << >> ELSE SubSeq(s, Min(BeginsAt(tags, e)) + 1, e + 1)

(* Every end tag is a packet that begins at the start tag before it.       *)
BurstPackets(s, tags) ==
    LET ends == InOrder(EndsAt(tags)) IN [i \in DOMAIN ends |-> Burst(s, tags, ends[i])]

(* The packets announced by length tags do not overlap.                    *)
Apart(tags) ==
    \A t, u \in Keyed(tags, "length") :
        t.value > 0 /\ (t # u => t.at + t.value <= u.at \/ u.at + u.value <= t.at)

(* The packet announced at p.                                              *)
Announced(s, tags, p) ==
    LET t == CHOOSE u \in tags : u.at = p IN SubSeq(s, p + 1, p + t.value)

(* The packets announced by a length tag that lie within s.                *)
LengthPackets(s, tags) ==
    LET whole == {t \in Keyed(tags, "length") : t.at + t.value <= Len(s)}
        at == InOrder({t.at : t \in whole})
    IN  [i \in DOMAIN at |-> Announced(s, whole, at[i])]

(* The packets of length c.len, tagged so.                                 *)
VectorPackets(c, s, tags) ==
    LengthPackets(s, {t \in Keyed(tags, "length") : t.value = c.len})
=============================================================================
