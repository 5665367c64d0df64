----------------------------- MODULE PduBlocks -----------------------------
(***************************************************************************)
(* The blocks of gr-habets that turn a PDU into another PDU.  Each is a    *)
(* message handler: a function from a PDU to the PDUs it publishes, none   *)
(* or one.                                                                 *)
(*   bitunpacker, bitpacker             bytes to bits and back             *)
(*   preamble_adder, preamble_stripper  bits to bits                       *)
(*   packet_size_filter                 bytes to bytes                     *)
(* c holds their arguments: preamble, prefix (a list of bits as in the     *)
(* tests: a tuple would equal no slice of a list), minSize, maxSize.       *)
(***************************************************************************)
EXTENDS Integers, Sequences, SequencesExt

(* The value of each bit of a byte, the highest first.                     *)
Weight == <<128, 64, 32, 16, 8, 4, 2, 1>>

BytesToBits(bytes) ==
    [i \in 1..(8 * Len(bytes)) |->
        (bytes[(i + 7) \div 8] \div Weight[((i - 1) % 8) + 1]) % 2]

(* Missing bits at the end are zeroes.                                     *)
PackedBytes(bits) ==
    LET bit(i) == IF i \in DOMAIN bits THEN bits[i] ELSE 0
        at(k, c) == bit(8 * (k - 1) + c) * Weight[c]
    IN  [k \in 1..((Len(bits) + 7) \div 8) |->
            at(k, 1) + at(k, 2) + at(k, 3) + at(k, 4)
            + at(k, 5) + at(k, 6) + at(k, 7) + at(k, 8)]

InSize(c, bytes) == Len(bytes) \in c.minSize..c.maxSize

-----------------------------------------------------------------------------
Slice(s, i, n) == SubSeq(s, i + 1, Min({i + n, Len(s)}))

(* Where, from 0, preamble_stripper looks for the prefix, and finds it.    *)
Searched(c) == 0..(2 * Len(c.prefix) - 1)
Found(c, bits) == {i \in Searched(c) : Slice(bits, i, Len(c.prefix)) = c.prefix}

(* The last one counts; what has none is not published.                    *)
StripPreamble(c, bits) ==
    LET found == Found(c, bits)
    IN  IF found = {} THEN << >>
        ELSE <<SubSeq(bits, Max(found) + Len(c.prefix) + 1, Len(bits))>>

PduBlocks ==
    {"bitunpacker", "bitpacker", "preamble_adder", "preamble_stripper", "packet_size_filter"}

Publish(c, block, pdu) ==
    CASE block = "bitunpacker" -> <<BytesToBits(pdu)>>
      [] block = "preamble_adder" -> <<c.preamble \o pdu>>
      [] block = "preamble_stripper" -> StripPreamble(c, pdu)
      [] block = "bitpacker" -> <<PackedBytes(pdu)>>
      [] block = "packet_size_filter" -> IF InSize(c, pdu) THEN <<pdu>> ELSE << >>

-----------------------------------------------------------------------------
(* The prefix shows up behind the preamble where preamble_stripper looks   *)
(* for it: it will take that one, and more of the packet than it should.   *)
Recurs(c, bits) ==
    \E i \in Found(c, c.preamble \o bits) : i > Len(c.preamble) - Len(c.prefix)
=============================================================================
