----------------------------- MODULE Flowgraph -----------------------------
(***************************************************************************)
(* gr-habets in a GNU Radio flow graph: a source, a stream of samples with *)
(* tags, and a block that turns the stream into PDUs, with blocks from PDU *)
(* to PDU before and behind.                                               *)
(*                                                                         *)
(*   PDUs -> before -> pn_source_f, float_streamer -+                      *)
(*                          or a recorded signal   -+-> stream -> sink     *)
(*                                                      -> behind -> PDUs  *)
(*                                                                         *)
(* The scheduler (external) calls work() of either end with as many        *)
(* samples as it likes, and delivers messages between calls.               *)
(***************************************************************************)
EXTENDS SymbolDecoders, TagBlocks, PduBlocks

CONSTANTS
    Graphs      (* the flow graphs, records of                               *)
                (*   before, source, sink, behind: names of blocks           *)
                (*   conf: their arguments                                   *)
                (*   posted, signal, tags: what goes in                      *)
                (*   most: bound on the samples a source produces            *)
                (*   windows: how many samples the scheduler hands to a call *)

(* A tag says where it is, whose it is and what it means there.            *)
IsTag(t) ==
    /\ t = [at |-> t.at, key |-> t.key, value |-> t.value] /\ t.at \in Nat
    /\ t.key = "burst" => t.value \in BOOLEAN
    /\ t.key = "length" => t.value \in Nat

(* What a symbol decoder is given; ook_decode_b takes bytes, and neither   *)
(* source produces any.                                                    *)
Signs == {-1, 0, 1}
IsSignal(g) ==
    /\ g.sink \in {"pn_decode_f", "pn_decode_identity_b"} => g.signal \in Seq(Signs)
    /\ g.sink = "pn_decode_identity_b" => g.conf.prefix \in Seq({0, 1})
    /\ g.sink = "ook_decode_b" => g.source = "vector_source" /\ g.signal \in Seq({0, 1})

ASSUME FlowgraphAssumption ==
    \A g \in Graphs :
        /\ g.before \in Seq(PduBlocks) /\ g.behind \in Seq(PduBlocks)
        /\ {g.conf.sps, g.conf.nulls} \subseteq Nat \ {0}
        /\ {g.conf.offset, g.conf.padding, g.conf.len} \subseteq Nat
        /\ g.conf.prefix \in Seq(Int) /\ g.conf.preamble \in Seq(Int)
        /\ g.posted \in Seq(Seq(Int)) /\ g.signal \in Seq(Int)
        /\ \A t \in g.tags : IsTag(t)
        /\ IsSignal(g)
        /\ g.most \in Nat /\ g.windows \subseteq Nat \ {0}

VARIABLES
    graph,    (* the flow graph that runs                                    *)
    mail,     (* PDUs posted to each block of Chain and not handled; the     *)
              (* last are those that arrived                                 *)
    queue,    (* queue_ of the source                                        *)
    stream,   (* all samples produced                                        *)
    read,     (* nitems_read of the sink                                     *)
    d,        (* the sink's state, see SymbolDecoders and TagBlocks          *)
    intact,   (* history: each call so far took all of queue_, or half of it *)
    alone     (* history: no window so far began in one tagged packet and    *)
              (* held samples of another                                     *)

vars == <<graph, mail, queue, stream, read, d, intact, alone>>

(* The blocks that PDUs pass; the stream is between the source and behind. *)
Chain == graph.before \o <<graph.source>> \o graph.behind
Source == Len(graph.before) + 1
Mailboxes == 1..(Len(Chain) + 1)

Init ==
    /\ graph \in Graphs
    /\ mail = [i \in Mailboxes |-> IF i = 1 THEN graph.posted ELSE << >>]
    /\ queue = << >>
    /\ stream = graph.signal /\ read = 0
    /\ d = [bits |-> << >>, silent |-> 0, next |-> -1, last |-> 0,
            buf |-> << >>, len |-> 0, out |-> << >>]
    /\ intact = TRUE /\ alone = TRUE

-----------------------------------------------------------------------------
(* The PDU to PDU blocks.                                                  *)

Relay(i) ==
    /\ i # Source /\ mail[i] # << >>
    /\ mail' = [mail EXCEPT ![i] = Tail(@),
                   ![i + 1] = @ \o Publish(graph.conf, Chain[i], Head(mail[i]))]
    /\ UNCHANGED <<graph, queue, stream, read, d, intact, alone>>

-----------------------------------------------------------------------------
(* pn_source_f and float_streamer.                                         *)

Silence(n) == [i \in 1..n |-> 0]
Floats(bits) == [i \in DOMAIN bits |-> IF bits[i] = 1 THEN 1 ELSE -1]

(* pn_source_f puts the padding before the packet, float_streamer after.   *)
QueuedUnpadded(bits) == Floats(bits)

Queued(bits) ==
    IF graph.source = "pn_source_f"
    THEN Silence(graph.conf.padding) \o Floats(bits)
    ELSE Floats(bits) \o Silence(graph.conf.padding)

Handle ==
    /\ mail[Source] # << >>
    /\ mail' = [mail EXCEPT ![Source] = Tail(@)]
    /\ queue' = queue \o Queued(Head(mail[Source]))
    /\ UNCHANGED <<graph, stream, read, d, intact, alone>>

(* The part that was sent is meant to go; packet_size - packet_part go.    *)
Left(part) ==
    IF part = Len(queue) THEN << >> ELSE SubSeq(queue, Len(queue) - part + 1, Len(queue))

SourceWork(n) ==
    /\ graph.source # "vector_source" /\ Len(stream) + n <= graph.most
    /\ LET part == Min({n, Len(queue)})
       IN  /\ stream' = stream \o SubSeq(queue, 1, part) \o Silence(n - part)
           /\ queue' = Left(part)
           /\ intact' = (intact /\ (part = Len(queue) \/ 2 * part = Len(queue)))
    /\ UNCHANGED <<graph, mail, read, d, alone>>

-----------------------------------------------------------------------------
(* The sinks.                                                              *)

Offered(n) == SubSeq(stream, read + 1, read + n)
Tagged(n) ==
    {[t EXCEPT !.at = @ - read] : t \in {u \in graph.tags : u.at \in read..(read + n - 1)}}

(* The packets, by length tag, of which the window has samples.            *)
Touched(n) ==
    {t \in Keyed(graph.tags, "length") :
        t.at < read + n /\ t.at + t.value > read}

(* What the sink published is posted to the first block behind.            *)
SinkWork(sink, n, next, ate) ==
    /\ graph.sink = sink /\ read + n <= Len(stream)
    /\ d' = next /\ read' = read + ate
    /\ mail' = [mail EXCEPT ![Source + 1] = @ \o SubSeq(next.out, Len(d.out) + 1, Len(next.out))]
    /\ UNCHANGED <<graph, queue, stream, intact>>

PnStep(e, s) == PnSample(graph.conf, e, s)
PnDecodeWork(n) ==
    /\ SinkWork("pn_decode_f", n, FoldLeft(PnStep, d, Offered(n)), n)
    /\ UNCHANGED alone

OokStep(e, s) == OokSample(graph.conf, e, s)
OokDecodeWork(n) ==
    /\ SinkWork("ook_decode_b", n, FoldLeft(OokStep, d, Offered(n)), n)
    /\ UNCHANGED alone

PacketizeBurstWork(n) ==
    /\ LET r == PacketizeBurst(d, Offered(n), Tagged(n))
       IN  SinkWork("packetize_burst", n, r.d, r.ate)
    /\ UNCHANGED alone

LargePduWork(n) ==
    /\ LET r == LargePdu(d, Offered(n), Tagged(n))
       IN  SinkWork("tagged_stream_to_large_pdu_f", n, r.d, r.ate)
    /\ alone' = (alone /\ Cardinality(Touched(n)) <= 1)

IdentityStep(e, s) == IdentitySample(graph.conf, e, s)
IdentityWork(n) ==
    /\ SinkWork("pn_decode_identity_b", n, FoldLeft(IdentityStep, d, Offered(n)), n)
    /\ UNCHANGED alone

(* The scheduler calls it only with as many samples as it forecasts.       *)
ToVectorWork(n) ==
    /\ n >= Forecast(graph.conf)
    /\ LET r == ToVector(graph.conf, d, Offered(n), Tagged(n))
       IN  SinkWork("prototype_tagged_stream_to_vector", n, r.d, r.ate)
    /\ UNCHANGED alone

Next ==
    \/ Handle
    \/ \E i \in DOMAIN Chain : Relay(i)
    \/ \E n \in graph.windows :
          \/ SourceWork(n)
          \/ PnDecodeWork(n) \/ OokDecodeWork(n) \/ IdentityWork(n)
          \/ PacketizeBurstWork(n) \/ LargePduWork(n) \/ ToVectorWork(n)

Spec == Init /\ [][Next]_vars

-----------------------------------------------------------------------------
(* Properties.                                                             *)

Consumed == SubSeq(stream, 1, read)
Past == {t \in graph.tags : t.at < read}

Arrived == mail[Len(Chain) + 1]
AllArrived ==
    /\ \A i \in DOMAIN Chain : mail[i] = << >>
    /\ queue = << >> /\ read = Len(stream) /\ stream # << >> /\ Last(stream) = 0

(* Of an empty packet there is nothing to send without a preamble, and     *)
(* packet_size_filter is there to drop some.                               *)
Expected ==
    SelectSeq(graph.posted, LAMBDA p :
        /\ p # << >> \/ Contains(graph.before, "preamble_adder")
        /\ Contains(graph.behind, "packet_size_filter") => InSize(graph.conf, p))

(* A packet whose beginning goes on with the prefix itself comes out cut   *)
(* short: preamble_stripper takes the last prefix it sees.                 *)
Unambiguous ==
    Contains(graph.before, "preamble_adder") =>
        \A i \in DOMAIN graph.posted :
            ~Recurs(graph.conf, IF Contains(graph.before, "bitunpacker")
                                THEN BytesToBits(graph.posted[i]) ELSE graph.posted[i])

(* From a PDU through the blocks before the source, the stream, the        *)
(* decoder and the blocks behind it to a PDU again, packets come out whole *)
(* and in order, and all do once a silence followed them.                  *)
Delivered ==
    (graph.source # "vector_source" /\ Unambiguous) =>
        /\ IsPrefix(Arrived, Expected)
        /\ AllArrived => Arrived = Expected

(* ... which is so as long as no call of work() stops inside queue_        *)
(* (except in its middle: then the wrong number is the right one).         *)
DeliveredIfNotCut == intact => Delivered

(* However the scheduler cuts the signal, the decoders publish the symbols *)
(* found at the given offset after each edge, packet by packet;            *)
(* pn_decode_identity_b those of each packet from its prefix on.  With an  *)
(* offset beyond the silence ook_decode_b would still wait for a symbol    *)
(* when the packet is over, and put it before the next one.                *)
SymbolsDecoded ==
    CASE graph.sink = "pn_decode_f" ->
            PnClean(graph.conf, Consumed) => d.out = PnPackets(graph.conf, Consumed)
      [] graph.sink = "ook_decode_b" ->
            graph.conf.offset <= graph.conf.nulls => d.out = OokPackets(graph.conf, Consumed)
      [] graph.sink = "pn_decode_identity_b" ->
            d.out = IdentityPackets(graph.conf, Consumed)
      [] OTHER -> TRUE

(* However the scheduler cuts the stream, packetize_burst publishes the    *)
(* samples from each start tag to the end tag after it, both included,     *)
(* provided that starts and ends take turns.                               *)
BurstsPublished ==
    graph.sink = "packetize_burst" /\ TakeTurns(graph.tags) =>
        d.out = BurstPackets(Consumed, Past)

(* What tagged_stream_to_large_pdu_f publishes, empty PDUs aside, are      *)
(* tagged packets, whole and in order; none is missing unless work() was   *)
(* handed samples of two packets at once.                                  *)
LargePdusPublished ==
    LET got == Part(d.out, {i \in DOMAIN d.out : d.out[i] # << >>})
        all == LengthPackets(Consumed, Past)
    IN  Apart(graph.tags) => /\ \E kept \in SUBSET DOMAIN all : got = Part(all, kept)
                             /\ alone => got = all

(* However the scheduler cuts the stream, the blocks that follow length    *)
(* tags publish the tagged packets: prototype_tagged_stream_to_vector all  *)
(* of its length whose tag it has passed, also those that overlap,         *)
(* tagged_stream_to_large_pdu_f what the definition above says.            *)
TaggedPacketsPublished ==
    CASE graph.sink = "tagged_stream_to_large_pdu_f" -> LargePdusPublished
      [] graph.sink = "prototype_tagged_stream_to_vector" ->
            d.out = VectorPackets(graph.conf, stream, Past)
      [] OTHER -> TRUE
=============================================================================
