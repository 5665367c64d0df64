--------------------------- MODULE SymbolDecoders ---------------------------
(***************************************************************************)
(* The symbol decoders of gr-habets, pn_decode_f, ook_decode_b and         *)
(* pn_decode_identity_b, one sample at a time.  A float sample is -1, 0    *)
(* (nearer to zero than epsilon) or 1, an on/off sample 0 or 1, a sample   *)
(* of pn_decode_identity_b the sign of the byte.                           *)
(*                                                                         *)
(* d is the state of a decoder:                                            *)
(*   bits    current_bits_, self.packet                                    *)
(*   silent  current_nulls_, current_zeroes_                               *)
(*   next    next_expected_: samples to go to the next bit, -1 outside     *)
(*   last    last_bit_ as a sample (0: none yet), last_                    *)
(*   out     the PDUs published so far                                     *)
(* c holds the constructor's arguments: sps (omega), offset, nulls         *)
(* (zeroes), prefix (a list of bits).                                      *)
(***************************************************************************)
EXTENDS Positions, SequencesExt

Reset(d) == [d EXCEPT !.bits = << >>, !.silent = 0, !.next = -1, !.last = 0]

(* One more sample passed.                                                 *)
CountDown(n) == IF n > 0 THEN n - 1 ELSE n

-----------------------------------------------------------------------------
(* pn_decode_f: positive is 1, negative 0, silence ends the packet.        *)

PnEdgeOnlyFirst(d, s) == d.next < 0 /\ s # 0

PnEdge(d, s) ==
    /\ d.next # 0 /\ s # 0
    /\ d.next < 0 \/ d.last = -s

PnSample(c, d, s) ==
    LET next == CountDown(IF PnEdge(d, s) THEN c.offset + 1 ELSE d.next)
        take == next = 0 /\ s # 0
        bits == IF take THEN Append(d.bits, IF s > 0 THEN 1 ELSE 0) ELSE d.bits
        silent == IF s = 0 THEN d.silent + 1 ELSE 0
    IN  IF silent = c.nulls /\ bits # << >>
        THEN Reset([d EXCEPT !.out = Append(@, bits)])
        ELSE [d EXCEPT !.bits = bits, !.silent = silent,
                       !.next = IF take THEN c.sps ELSE next,
                       !.last = IF s = 0 THEN @ ELSE s]

-----------------------------------------------------------------------------
(* ook_decode_b: on is 1, off is 0, so a packet's own zeroes look like the *)
(* silence after it; a packet goes out in bytes, without trailing zeroes.  *)

Rtrim(bits) == SubSeq(bits, 1, Max({0} \cup {i \in DOMAIN bits : bits[i] = 1}))

(* The bits of the bytes: the last byte is filled up with zeroes.          *)
BitsToBytes(bits) ==
    [i \in 1..(8 * ((Len(bits) + 7) \div 8)) |-> IF i <= Len(bits) THEN bits[i] ELSE 0]

OokSample(c, d, s) ==
    LET next == CountDown(IF s = 1 /\ d.last = 0 THEN c.offset + 1 ELSE d.next)
        take == next = 0
        bits == IF take THEN Append(d.bits, s) ELSE d.bits
        silent == IF s = 0 THEN d.silent + 1 ELSE 0
        packet == Rtrim(bits)
    IN  IF silent = c.nulls /\ bits # << >>
        THEN [Reset([d EXCEPT !.out = IF packet = << >> THEN @
                                      ELSE Append(@, BitsToBytes(packet))])
              EXCEPT !.last = s]
        ELSE [d EXCEPT !.bits = bits, !.silent = silent,
                       !.next = IF take THEN c.sps ELSE next, !.last = s]

-----------------------------------------------------------------------------
(* pn_decode_identity_b: a sample is a bit, 0 ends the packet.             *)

WholeBytes(bits) == SubSeq(bits, 1, 8 * (Len(bits) \div 8))

(* A packet goes out from its first prefix on; the bits behind its last    *)
(* whole byte are dropped, and it may be empty.                            *)
Emit(c, d) ==
    LET found == {i \in DOMAIN d.bits : IsPrefix(c.prefix, SubSeq(d.bits, i, Len(d.bits)))}
        pdu == WholeBytes(SubSeq(d.bits, Min(found), Len(d.bits)))
    IN  [d EXCEPT !.bits = << >>, !.out = IF found = {} THEN @ ELSE Append(@, pdu)]

IdentitySample(c, d, s) ==
    IF s = 0 THEN Emit(c, d) ELSE [d EXCEPT !.bits = Append(@, IF s < 0 THEN 0 ELSE 1)]

-----------------------------------------------------------------------------
(* What the decoders are for, in terms of positions in the signal s        *)
(* instead of counters.  A packet starts at the first sound after a        *)
(* silence of c.nulls samples, and is complete when the next such silence  *)
(* is.                                                                     *)

Ends(c, s) ==
    {p \in DOMAIN s : /\ p > c.nulls /\ s[p - c.nulls] # 0
                      /\ \A q \in (p - c.nulls + 1)..p : s[q] = 0}

Beginning(c, s, e) == Max({0} \cup {p \in Ends(c, s) : p < e}) + 1

(* The positions of packet e (named by its end) where sample p is          *)
(* preceded by an edge at(p) a whole number of symbols and the offset ago. *)
Sampled(c, s, e, Edge(_)) ==
    LET edges(p) == {q \in Beginning(c, s, e)..p : Edge(q)}
    IN  {p \in Beginning(c, s, e)..e :
            /\ edges(p) # {}
            /\ p - Max(edges(p)) >= c.offset
            /\ (p - Max(edges(p)) - c.offset) % c.sps = 0}

PnBits(c, s, e) ==
    LET from == Beginning(c, s, e)
        Edge(q) == s[q] # 0 /\ (q = from \/ s[q - 1] # s[q])
        sounds == Part(s, {p \in Sampled(c, s, e, Edge) : s[p] # 0})
    IN  [i \in DOMAIN sounds |-> IF sounds[i] > 0 THEN 1 ELSE 0]

OokBits(c, s, e) ==
    LET Edge(q) == s[q] = 1 /\ (q = 1 \/ s[q - 1] = 0)
    IN  Rtrim(Part(s, Sampled(c, s, e, Edge)))

PnPackets(c, s) ==
    LET e == InOrder(Ends(c, s)) IN [i \in DOMAIN e |-> PnBits(c, s, e[i])]

OokPackets(c, s) ==
    LET e == InOrder({p \in Ends(c, s) : OokBits(c, s, p) # << >>})
    IN  [i \in DOMAIN e |-> BitsToBytes(OokBits(c, s, e[i]))]

(* For pn_decode_identity_b: the samples from one zero to the next, of     *)
(* which those from the first prefix to the last whole byte count.         *)
IdentityPackets(c, s) ==
    LET ends == {p \in DOMAIN s : s[p] = 0}
        from(e) == Max({0} \cup {p \in ends : p < e}) + 1
        prefixed(p) == \A k \in DOMAIN c.prefix : s[p + k - 1] = (IF c.prefix[k] = 1 THEN 1 ELSE -1)
        at(e) == {p \in from(e)..(e - 1) : p + Len(c.prefix) <= e /\ prefixed(p)}
        where == InOrder({e \in ends : at(e) # {}})
        packet(e) ==
            LET size == e - Min(at(e))
            IN  [i \in 1..(size - (size % 8)) |-> IF s[Min(at(e)) + i - 1] > 0 THEN 1 ELSE 0]
    IN  [i \in DOMAIN where |-> packet(where[i])]

(* Signals for which pn_decode_f promises this: no silence inside a packet *)
(* and no packet so short that no symbol is sampled.  (After such a click  *)
(* next_expected_ stays 0, and the next packet is sampled at its very      *)
(* first sample instead of at offset.)                                     *)
PnClean(c, s) ==
    /\ \A p, q \in DOMAIN s :
          (p < q /\ s[p] # 0 /\ s[q] # 0 /\ \A r \in (p + 1)..(q - 1) : s[r] = 0)
          => (q = p + 1 \/ q - p > c.nulls)
    /\ \A e \in Ends(c, s) : PnBits(c, s, e) # << >>
=============================================================================
