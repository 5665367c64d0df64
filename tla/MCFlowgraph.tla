---------------------------- MODULE MCFlowgraph ----------------------------
(* TLC instance of Flowgraph: every short signal for the symbol decoders,  *)
(* tagged streams whose samples are all different, and PDUs on their way   *)
(* from a source to pn_decode_f.                                           *)
EXTENDS Flowgraph

Conf(sps, offset, nulls, padding) ==
    [sps |-> sps, offset |-> offset, nulls |-> nulls, padding |-> padding,
     preamble |-> << >>, prefix |-> << >>, minSize |-> 0, maxSize |-> 0, len |-> 0]

(* The source's samples, up to nine, in windows of any size.               *)
Link(before, source, behind, conf, posted) ==
    [before |-> before, source |-> source, sink |-> "pn_decode_f", behind |-> behind,
     conf |-> conf, posted |-> posted, signal |-> << >>, tags |-> {},
     most |-> 9, windows |-> 1..9]

Packets == {<<1>>, <<0, 1>>, <<1, 1, 0>>, << >>}

Links ==
    {Link(<< >>, source, << >>, Conf(1, 0, 1, 1), <<p, q>>) :
        source \in {"pn_source_f", "float_streamer"}, p, q \in Packets}

(* In the packet <<1, 0>> either prefix shows up again.                    *)
PreambleLinks ==
    {Link(<<"preamble_adder">>, "pn_source_f", <<"preamble_stripper">>,
          [Conf(1, 0, 1, 1) EXCEPT !.preamble = pre, !.prefix = pre], <<p, q>>) :
        pre \in {<<1>>, <<1, 0>>}, p, q \in {<<0>>, <<1, 0>>, << >>}}

(* chat/fsk_chat.grc: the preamble is the prefix twice, and packets under  *)
(* two bytes are noise.  With windows that take some 30 samples at once,   *)
(* and some that cut.  With the prefix <<1, 1>> packets that begin with     *)
(* 128 or 144 are ambiguous.                                               *)
ChatLinks ==
    {[Link(<<"bitunpacker", "preamble_adder">>, "pn_source_f",
           <<"preamble_stripper", "bitpacker", "packet_size_filter">>,
           [Conf(1, 0, 1, 1) EXCEPT !.preamble = pre \o pre, !.prefix = pre,
                                    !.minSize = 2, !.maxSize = 3],
           posted)
      EXCEPT !.most = 42, !.windows = {10, 32}] :
        pre \in {<<1, 0>>, <<1, 1>>},
        posted \in {<<<<5>>, <<144, 7>>>>, <<<<5, 200>>, << >>>>, <<<<128, 9>>>>,
                    <<<<0, 1, 2>>>>}}

Recorded(sink, conf, signal, tags) ==
    [before |-> << >>, source |-> "vector_source", sink |-> sink, behind |-> << >>,
     conf |-> conf, posted |-> << >>, signal |-> signal, tags |-> tags,
     most |-> 0, windows |-> 1..Len(signal)]

PnSignals ==
    {Recorded("pn_decode_f", conf, s, {}) :
        conf \in {Conf(2, 1, 2, 0), Conf(3, 1, 1, 0)}, s \in [1..7 -> {-1, 0, 1}]}

OokSignals ==
    {Recorded("ook_decode_b", conf, s, {}) :
        conf \in {Conf(2, 0, 3, 0), Conf(3, 1, 4, 0)}, s \in [1..9 -> {0, 1}]}

(* A word of six bits between signals that silence it or make it a byte.   *)
IdentitySignals ==
    {Recorded("pn_decode_identity_b", [Conf(1, 0, 1, 0) EXCEPT !.prefix = pre],
              x \o w \o y, {}) :
        pre \in {<<1>>, <<0, 1>>}, x, y \in [1..3 -> {-1, 0, 1}],
        w \in {<<1, -1, 1, 1, -1, 1>>, <<-1, -1, 1, -1, -1, -1>>}}

Different(n) == [i \in 1..n |-> i]
Tag(at, key, value) == [at |-> at, key |-> key, value |-> value]

(* Start and end take turns, beginning with either; one tag is not ours.   *)
Bursts ==
    {Recorded("packetize_burst", Conf(1, 0, 1, 0), Different(6),
              {Tag(p, "burst", Cardinality({q \in S : q < p}) % 2 = odd) : p \in S}
              \cup {Tag(2, "freq", 7)}) :
        S \in SUBSET (0..5), odd \in {0, 1}}

(* Packets back to back and with gaps.                                     *)
Lengths ==
    {Recorded("tagged_stream_to_large_pdu_f", Conf(1, 0, 1, 0), Different(7),
              {Tag(p, "length", a), Tag(p + a + gap, "length", b), Tag(p, "freq", 7)}) :
        p \in 0..2, a \in 1..3, b \in 1..2, gap \in 0..1}

(* Packets of two that may overlap, for a block that wants windows of      *)
(* twenty; the other tags are not for it.                                  *)
Vectors ==
    {Recorded("prototype_tagged_stream_to_vector",
              [Conf(1, 0, 1, 0) EXCEPT !.len = 2], Different(24),
              {Tag(p, "length", 2) : p \in S}
              \cup {Tag(odd, "length", 3), Tag(odd, "freq", 2)}) :
        S \in SUBSET {0, 1, 2, 4}, odd \in {3, 5}}

AllGraphs ==
    Links \cup PreambleLinks \cup ChatLinks \cup PnSignals \cup OokSignals
    \cup IdentitySignals \cup Bursts \cup Lengths \cup Vectors
=============================================================================
