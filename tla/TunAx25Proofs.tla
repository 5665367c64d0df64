---------------------------- MODULE TunAx25Proofs ---------------------------
(***************************************************************************)
(* What holds of tun-ax25 for all packets, datagrams, cuts and faults.     *)
(*                                                                         *)
(* pty to socket.  KISSIngress::read starts afresh on every call and       *)
(* parses what it kept again.  A reader that sees each byte of the pty's   *)
(* stream once is compared with it: Sim says that a call is where the      *)
(* reader is, up to the command byte of the first frame, and that what it  *)
(* keeps is what the reader has seen since the last frame ended.  So the   *)
(* way from the pty is the invariant ToSockInv: from the packets sent and  *)
(* queued, what is kept and what is still to be read, the reader gets      *)
(* exactly the frames that the kernel wrote.                               *)
(*                                                                         *)
(* socket to pty.  ToPtyInv: the queue holds the frames of the packets     *)
(* enqueued last, and the peer has decoded the others, left-overs of short *)
(* writes aside; it is between two frames, or inside the one at the head,  *)
(* which is to be written again.                                           *)
(***************************************************************************)
EXTENDS TunAx25, SequenceTheorems, TLAPS

-----------------------------------------------------------------------------
(* KISS frames: what is framed, a decoder of the protocol reads back, for  *)
(* every packet.                                                           *)

(* enqueue()'s escaping and the peer's decoder as folds over the bytes.    *)
Esc == INSTANCE FoldFacts WITH Op <- EscapeStep
Peer == INSTANCE FoldFacts WITH Op <- PeerByte

(* The named bytes are strings, but the provers do not know it.            *)
Byte == STRING \cup {FEND, FESC, TFEND, TFESC, Data0}
Bytes == Seq(Byte)

LEMMA Cat ==
    /\ << >> \in Bytes
    /\ \A b \in Byte : <<b>> \in Bytes
    /\ \A b, c \in Byte : <<b, c>> \in Bytes
    /\ \A s, t \in Bytes : s \o t \in Bytes
    /\ \A s \in Bytes : s \o << >> = s /\ << >> \o s = s
    /\ \A s \in Bytes : \A b \in Byte :
           Append(s, b) \in Bytes /\ Append(s, b) = s \o <<b>>
BY EmptySeq, ConcatProperties, ConcatEmptySeq, AppendProperties, AppendIsConcat DEF Bytes

LEMMA Assoc == \A s, t, u \in Bytes : (s \o t) \o u = s \o (t \o u)
<1> TAKE s, t, u \in Bytes
<1> QED BY ConcatAssociative DEF Bytes

LEMMA NamedBytes ==
    FEND \in Byte /\ FESC \in Byte /\ TFEND \in Byte /\ TFESC \in Byte /\ Data0 \in Byte
BY DEF Byte

LEMMA EscapedUnfold ==
    /\ Escaped(<< >>) = << >>
    /\ \A p \in Bytes : \A b \in Byte : Escaped(Append(p, b)) = Escaped(p) \o Escape(b)
<1>1. \A p : Escaped(p) = Esc!Fold(<< >>, p)
    BY DEF Escaped, Esc!Fold, FoldLeft, MapThenFoldSet, Esc!FoldLeft,
           Esc!MapThenFoldSet, Max, Esc!Max
<1>2. Escaped(<< >>) = << >>
    BY <1>1, Esc!FoldEmpty
<1>3. ASSUME NEW p \in Bytes, NEW b \in Byte
      PROVE  Escaped(Append(p, b)) = Escaped(p) \o Escape(b)
    <2>1. Esc!Fold(<< >>, Append(p, b)) = EscapeStep(Esc!Fold(<< >>, p), b)
        BY Esc!FoldAppend DEF Bytes
    <2> QED BY <1>1, <2>1 DEF EscapeStep
<1> QED BY <1>2, <1>3

LEMMA EscapeType == \A b \in Byte : Escape(b) \in Bytes
BY Cat, NamedBytes DEF Escape

LEMMA EscapedType == \A p \in Bytes : Escaped(p) \in Bytes
<1> DEFINE P == {p \in Bytes : Escaped(p) \in Bytes}
<1>1. << >> \in P
    BY EscapedUnfold, Cat
<1>2. \A p \in Seq(Byte) : p \in P => \A b \in Byte : Append(p, b) \in P
    BY EscapedUnfold, EscapeType, Cat DEF Bytes
<1> HIDE DEF P
<1>3. \A p \in Seq(Byte) : p \in P
    BY <1>1, <1>2, Esc!SeqInduction
<1> QED BY <1>3 DEF P, Bytes

-----------------------------------------------------------------------------
(* The decoder, from any of its states.                                    *)
PeerRun(s, bytes) == FoldLeft(PeerByte, s, bytes)

LEMMA PeerUnfold ==
    /\ \A s : PeerRun(s, << >>) = s
    /\ \A s : \A b \in Byte : PeerRun(s, <<b>>) = PeerByte(s, b)
    /\ \A s : \A t, u \in Bytes : PeerRun(s, t \o u) = PeerRun(PeerRun(s, t), u)
<1>1. \A s, t : PeerRun(s, t) = Peer!Fold(s, t)
    BY DEF PeerRun, Peer!Fold, FoldLeft, MapThenFoldSet, Peer!FoldLeft,
           Peer!MapThenFoldSet, Max, Peer!Max
<1>2. \A s : PeerRun(s, << >>) = s
    BY <1>1, Peer!FoldEmpty
<1>3. ASSUME NEW s, NEW b \in Byte PROVE PeerRun(s, <<b>>) = PeerByte(s, b)
    BY <1>1, Peer!FoldOne
<1>4. ASSUME NEW s, NEW t \in Bytes, NEW u \in Bytes
      PROVE  PeerRun(s, t \o u) = PeerRun(PeerRun(s, t), u)
    BY <1>1, Peer!FoldConcat DEF Bytes
<1> QED BY <1>2, <1>3, <1>4

(* Inside a frame of which f was read, and after an escape in it.          *)
At(f, o) == [frame |-> f, esc |-> FALSE, bad |-> FALSE, out |-> o]
Escaping(f, o) == [frame |-> f, esc |-> TRUE, bad |-> FALSE, out |-> o]

LEMMA PeerRules ==
    ASSUME NEW f, NEW o
    PROVE  /\ PeerByte(At(f, o), FEND)
              = At(<< >>, IF Len(f) < 2 THEN o ELSE Append(o, Tail(f)))
           /\ PeerByte(At(f, o), FESC) = Escaping(f, o)
           /\ \A b : b \notin {FEND, FESC} => PeerByte(At(f, o), b) = At(Append(f, b), o)
           /\ PeerByte(Escaping(f, o), TFEND) = At(Append(f, FEND), o)
           /\ PeerByte(Escaping(f, o), TFESC) = At(Append(f, FESC), o)
<1>1. PeerByte(At(f, o), FEND)
      = At(<< >>, IF Len(f) < 2 THEN o ELSE Append(o, Tail(f)))
    <2>1. PeerByte(At(f, o), FEND) = PeerEnd(At(f, o))
        BY DEF PeerByte, At, FEND, FESC
    <2>2. /\ At(f, o).frame = f /\ At(f, o).out = o
          /\ ~At(f, o).esc /\ ~At(f, o).bad
        BY DEF At
    <2>3. PeerEnd(At(f, o))
          = At(<< >>, IF Len(At(f, o).frame) < 2 THEN At(f, o).out
                      ELSE Append(At(f, o).out, Tail(At(f, o).frame)))
        BY <2>2, Zenon DEF PeerEnd, At
    <2> QED BY <2>1, <2>2, <2>3
<1>2. PeerByte(At(f, o), FESC) = Escaping(f, o)
    BY DEF PeerByte, At, Escaping, FEND, FESC
<1>3. ASSUME NEW b, b \notin {FEND, FESC} PROVE PeerByte(At(f, o), b) = At(Append(f, b), o)
    BY <1>3 DEF PeerByte, At
<1>4. PeerByte(Escaping(f, o), TFEND) = At(Append(f, FEND), o)
    BY DEF PeerByte, At, Escaping, FEND, TFEND
<1>5. PeerByte(Escaping(f, o), TFESC) = At(Append(f, FESC), o)
    BY DEF PeerByte, At, Escaping, FEND, TFEND, TFESC
<1> QED BY <1>1, <1>2, <1>3, <1>4, <1>5

LEMMA PeerEscapeByte ==
    ASSUME NEW f, NEW o, NEW b \in Byte
    PROVE  PeerRun(At(f, o), Escape(b)) = At(Append(f, b), o)
<1>1. ASSUME NEW c \in Byte
      PROVE  PeerRun(At(f, o), <<FESC, c>>) = PeerByte(Escaping(f, o), c)
    <2>1. <<FESC, c>> = <<FESC>> \o <<c>> /\ <<FESC>> \in Bytes /\ <<c>> \in Bytes
        BY NamedBytes, Cat
    <2>2. PeerRun(At(f, o), <<FESC>> \o <<c>>)
          = PeerRun(PeerRun(At(f, o), <<FESC>>), <<c>>)
        BY <2>1, PeerUnfold, Zenon
    <2>3. PeerRun(At(f, o), <<FESC>>) = Escaping(f, o)
        BY NamedBytes, PeerUnfold, PeerRules, Zenon
    <2>4. PeerRun(Escaping(f, o), <<c>>) = PeerByte(Escaping(f, o), c)
        BY PeerUnfold, Zenon
    <2> QED BY <2>1, <2>2, <2>3, <2>4, Zenon
<1>2. CASE b = FEND
    <2>1. Escape(b) = <<FESC, TFEND>>
        BY <1>2 DEF Escape, FEND, FESC
    <2> QED BY <1>1, <1>2, <2>1, NamedBytes, PeerRules, Zenon
<1>3. CASE b = FESC
    <2>1. Escape(b) = <<FESC, TFESC>>
        BY <1>3 DEF Escape, FEND, FESC
    <2> QED BY <1>1, <1>3, <2>1, NamedBytes, PeerRules, Zenon
<1>4. CASE b \notin {FEND, FESC}
    <2>1. Escape(b) = <<b>>
        BY <1>4 DEF Escape
    <2>2. PeerByte(At(f, o), b) = At(Append(f, b), o)
        BY <1>4, PeerRules, Zenon
    <2>3. PeerRun(At(f, o), <<b>>) = PeerByte(At(f, o), b)
        BY PeerUnfold, Zenon
    <2> QED BY <2>1, <2>2, <2>3, Zenon
<1> QED BY <1>2, <1>3, <1>4

(* The decoder undoes the escaping.                                        *)
LEMMA PeerEscaped ==
    ASSUME NEW f \in Bytes, NEW o
    PROVE  \A p \in Bytes : PeerRun(At(f, o), Escaped(p)) = At(f \o p, o)
<1> DEFINE P == {p \in Bytes : PeerRun(At(f, o), Escaped(p)) = At(f \o p, o)}
<1>1. << >> \in P
    <2>1. Escaped(<< >>) = << >> /\ f \o << >> = f /\ << >> \in Bytes
        BY EscapedUnfold, Cat
    <2>2. PeerRun(At(f, o), << >>) = At(f, o)
        BY PeerUnfold, Zenon
    <2> QED BY <2>1, <2>2
<1>2. \A p \in Seq(Byte) : p \in P => \A b \in Byte : Append(p, b) \in P
    <2> TAKE p \in Seq(Byte)
    <2> SUFFICES ASSUME p \in P, NEW b \in Byte PROVE Append(p, b) \in P
        OBVIOUS
    <2>1. /\ p \in Bytes /\ Append(p, b) \in Bytes /\ Append(p, b) = p \o <<b>>
          /\ <<b>> \in Bytes /\ f \o p \in Bytes
        BY Cat
    <2>2. Append(f \o p, b) = f \o Append(p, b)
        <3>1. Append(f \o p, b) = (f \o p) \o <<b>>
            BY <2>1, Cat
        <3>2. (f \o p) \o <<b>> = f \o (p \o <<b>>)
            BY <2>1, Assoc
        <3> QED BY <2>1, <3>1, <3>2
    <2>3. Escaped(Append(p, b)) = Escaped(p) \o Escape(b)
        BY <2>1, EscapedUnfold
    <2>4. Escaped(p) \in Bytes /\ Escape(b) \in Bytes
        BY <2>1, EscapedType, EscapeType
    <2>5. PeerRun(At(f, o), Escaped(p) \o Escape(b))
          = PeerRun(PeerRun(At(f, o), Escaped(p)), Escape(b))
        BY <2>4, PeerUnfold, Zenon
    <2>6. PeerRun(At(f, o), Escaped(p)) = At(f \o p, o)
        OBVIOUS
    <2>7. PeerRun(At(f \o p, o), Escape(b)) = At(Append(f \o p, b), o)
        BY PeerEscapeByte, Zenon
    <2>8. PeerRun(At(f, o), Escaped(Append(p, b))) = At(f \o Append(p, b), o)
        BY <2>2, <2>3, <2>5, <2>6, <2>7, Zenon
    <2> QED BY <2>1, <2>8
<1> HIDE DEF P
<1>3. \A p \in Seq(Byte) : p \in P
    BY <1>1, <1>2, Esc!SeqInduction
<1> QED BY <1>3 DEF P, Bytes

(* A frame that is escaped and ended adds its packet, without the command  *)
(* byte, unless there is no more than that byte.                           *)
LEMMA PeerEnded ==
    ASSUME NEW f \in Bytes, NEW p \in Bytes, NEW o
    PROVE  PeerRun(At(f, o), Escaped(p) \o <<FEND>>)
           = At(<< >>, IF Len(f \o p) < 2 THEN o ELSE Append(o, Tail(f \o p)))
<1>1. Escaped(p) \in Bytes /\ <<FEND>> \in Bytes
    BY EscapedType, NamedBytes, Cat
<1>2. PeerRun(At(f, o), Escaped(p) \o <<FEND>>)
      = PeerRun(PeerRun(At(f, o), Escaped(p)), <<FEND>>)
    BY <1>1, PeerUnfold, Zenon
<1>3. PeerRun(At(f, o), Escaped(p)) = At(f \o p, o)
    BY PeerEscaped
<1>4. PeerRun(At(f \o p, o), <<FEND>>) = PeerByte(At(f \o p, o), FEND)
    BY NamedBytes, PeerUnfold, Zenon
<1>5. PeerByte(At(f \o p, o), FEND)
      = At(<< >>, IF Len(f \o p) < 2 THEN o ELSE Append(o, Tail(f \o p)))
    BY PeerRules, Zenon
<1> QED BY <1>2, <1>3, <1>4, <1>5, Zenon

-----------------------------------------------------------------------------
(* A reader of the pty's stream that sees each byte once.  "edge": at the  *)
(* beginning of a frame; "zero": after the command byte; "fail": after a   *)
(* broken escape; "stuck": the stream is none that the kernel writes.      *)
Now(m, f, o) == [mode |-> m, packet |-> f, out |-> o]
Edge(o) == Now("edge", << >>, o)
Zero(o) == Now("zero", << >>, o)
In(f, o) == Now("in", f, o)
Half(f, o) == Now("esc", f, o)
Fail(o) == Now("fail", << >>, o)
Stuck(o) == Now("stuck", << >>, o)

ReadByte(r, b) ==
    CASE r.mode = "edge" -> IF b = FEND THEN Edge(r.out)
                            ELSE IF b = Data0 THEN Zero(r.out) ELSE Stuck(r.out)
      [] r.mode = "zero" -> IF b = FEND THEN Stuck(r.out)
                            ELSE IF b = FESC THEN Half(r.packet, r.out)
                            ELSE In(Append(r.packet, b), r.out)
      [] r.mode = "in" -> IF b = FEND THEN Edge(Append(r.out, r.packet))
                          ELSE IF b = FESC THEN Half(r.packet, r.out)
                          ELSE In(Append(r.packet, b), r.out)
      [] r.mode = "esc" -> IF b = TFEND THEN In(Append(r.packet, FEND), r.out)
                           ELSE IF b = TFESC THEN In(Append(r.packet, FESC), r.out)
                           ELSE Fail(r.out)
      [] r.mode = "fail" -> IF b = FEND THEN Edge(r.out) ELSE Fail(r.out)
      [] OTHER -> Stuck(r.out)

Reader == INSTANCE FoldFacts WITH Op <- ReadByte
Reading(r, bytes) == FoldLeft(ReadByte, r, bytes)

LEMMA ReadingUnfold ==
    /\ \A r : Reading(r, << >>) = r
    /\ \A r : \A b \in Byte : Reading(r, <<b>>) = ReadByte(r, b)
    /\ \A r : \A t, u \in Bytes : Reading(r, t \o u) = Reading(Reading(r, t), u)
    /\ \A r : \A t \in Bytes : \A b \in Byte :
           Reading(r, Append(t, b)) = ReadByte(Reading(r, t), b)
<1>1. \A r, t : Reading(r, t) = Reader!Fold(r, t)
    BY DEF Reading, Reader!Fold, FoldLeft, MapThenFoldSet, Reader!FoldLeft,
           Reader!MapThenFoldSet, Max, Reader!Max
<1>2. \A r : Reading(r, << >>) = r
    BY <1>1, Reader!FoldEmpty
<1>3. ASSUME NEW r, NEW b \in Byte PROVE Reading(r, <<b>>) = ReadByte(r, b)
    BY <1>1, Reader!FoldOne
<1>4. ASSUME NEW r, NEW t \in Bytes, NEW u \in Bytes
      PROVE  Reading(r, t \o u) = Reading(Reading(r, t), u)
    BY <1>1, Reader!FoldConcat DEF Bytes
<1>5. ASSUME NEW r, NEW t \in Bytes, NEW b \in Byte
      PROVE  Reading(r, Append(t, b)) = ReadByte(Reading(r, t), b)
    BY <1>1, Reader!FoldAppend DEF Bytes
<1> QED BY <1>2, <1>3, <1>4, <1>5, Zenon

LEMMA ReadAppend ==
    ASSUME NEW r, NEW t \in Bytes, NEW b \in Byte
    PROVE  Reading(r, Append(t, b)) = ReadByte(Reading(r, t), b)
BY ReadingUnfold, Zenon

LEMMA ReadConcat ==
    ASSUME NEW r, NEW t \in Bytes, NEW u \in Bytes
    PROVE  Reading(r, t \o u) = Reading(Reading(r, t), u)
BY ReadingUnfold, Zenon

LEMMA NowFields ==
    \A m, f, o : Now(m, f, o).mode = m /\ Now(m, f, o).packet = f /\ Now(m, f, o).out = o
BY DEF Now

LEMMA EdgeRules ==
    ASSUME NEW o, NEW b
    PROVE  /\ b = FEND => ReadByte(Edge(o), b) = Edge(o)
           /\ b = Data0 => ReadByte(Edge(o), b) = Zero(o)
           /\ b \notin {FEND, Data0} => ReadByte(Edge(o), b) = Stuck(o)
BY NowFields DEF Edge, ReadByte, FEND, Data0

LEMMA ZeroRules ==
    ASSUME NEW f, NEW o, NEW b, f = << >>
    PROVE  /\ b = FEND => ReadByte(Zero(o), b) = Stuck(o)
           /\ b = FESC => ReadByte(Zero(o), b) = Half(f, o)
           /\ b \notin {FEND, FESC} => ReadByte(Zero(o), b) = In(Append(f, b), o)
<1>1. ASSUME NEW g
      PROVE  LET r == Now("zero", g, o) IN
             /\ b = FEND => ReadByte(r, b) = Stuck(o)
             /\ b = FESC => ReadByte(r, b) = Half(g, o)
             /\ b \notin {FEND, FESC} => ReadByte(r, b) = In(Append(g, b), o)
    BY NowFields DEF ReadByte, FEND, FESC
<1>2. Zero(o) = Now("zero", f, o)
    BY DEF Zero
<1> QED BY <1>1, <1>2, Zenon

LEMMA InRules ==
    ASSUME NEW f, NEW o, NEW b
    PROVE  /\ b = FEND => ReadByte(In(f, o), b) = Edge(Append(o, f))
           /\ b = FESC => ReadByte(In(f, o), b) = Half(f, o)
           /\ b \notin {FEND, FESC} => ReadByte(In(f, o), b) = In(Append(f, b), o)
BY NowFields DEF In, ReadByte, FEND, FESC

LEMMA HalfRules ==
    ASSUME NEW f, NEW o, NEW b
    PROVE  /\ b = TFEND => ReadByte(Half(f, o), b) = In(Append(f, FEND), o)
           /\ b = TFESC => ReadByte(Half(f, o), b) = In(Append(f, FESC), o)
           /\ b \notin {TFEND, TFESC} => ReadByte(Half(f, o), b) = Fail(o)
BY NowFields DEF Half, ReadByte, TFEND, TFESC

LEMMA FailRules ==
    ASSUME NEW o, NEW b
    PROVE  /\ b = FEND => ReadByte(Fail(o), b) = Edge(o)
           /\ b # FEND => ReadByte(Fail(o), b) = Fail(o)
BY NowFields DEF Fail, ReadByte

LEMMA StuckRule ==
    ASSUME NEW r, NEW b, r.mode = "stuck"
    PROVE  ReadByte(r, b).mode = "stuck" /\ ReadByte(r, b).out = r.out
BY NowFields DEF Stuck, ReadByte

-----------------------------------------------------------------------------
(* KISSIngress::read, byte by byte: inside a frame of which f was read,    *)
(* after an escape in it, after a broken escape, and before the byte that  *)
(* is not looked at.  k is what unparsed_ keeps, o what was enqueued.      *)
Locals(f, x, e, n, k, o) ==
    [packet |-> f, fail |-> x, esc |-> e, skip |-> n, kept |-> k, out |-> o]
Plain(f, k, o) == Locals(f, FALSE, FALSE, FALSE, k, o)
Halfway(f, k, o) == Locals(f, FALSE, TRUE, FALSE, k, o)
Broken(f, k, o) == Locals(f, TRUE, FALSE, FALSE, k, o)
Skipping(f, k, o) == Locals(f, FALSE, FALSE, TRUE, k, o)

LEMMA LocalsFields ==
    ASSUME NEW f, NEW k, NEW o, NEW s \in {Plain(f, k, o), Halfway(f, k, o),
                                           Broken(f, k, o), Skipping(f, k, o)}
    PROVE  s.out = o /\ s.kept = k
BY DEF Locals, Plain, Halfway, Broken, Skipping

LEMMA SkipByte ==
    ASSUME NEW f, NEW k, NEW o, NEW b
    PROVE  ParseByte(Skipping(f, k, o), b) = Plain(f, Append(k, b), o)
BY DEF ParseByte, Locals, Skipping, Plain

LEMMA BrokenByte ==
    ASSUME NEW f, NEW k, NEW o, NEW b, b # FEND
    PROVE  ParseByte(Broken(f, k, o), b) = Broken(f, Append(k, b), o)
BY DEF ParseByte, Locals, Broken

LEMMA BrokenEnd ==
    ASSUME NEW f, NEW k, NEW o, NEW z, z = << >>
    PROVE  ParseByte(Broken(f, k, o), FEND) = Skipping(f, z, o)
BY DEF ParseByte, Erased, Locals, Broken, Skipping, FEND, FESC

LEMMA HalfwayFend ==
    ASSUME NEW f, NEW k, NEW o
    PROVE  ParseByte(Halfway(f, k, o), TFEND) = Plain(Append(f, FEND), Append(k, TFEND), o)
BY DEF ParseByte, Unescape, Locals, Halfway, Plain, FEND, FESC, TFEND, TFESC

LEMMA HalfwayFesc ==
    ASSUME NEW f, NEW k, NEW o
    PROVE  ParseByte(Halfway(f, k, o), TFESC) = Plain(Append(f, FESC), Append(k, TFESC), o)
BY DEF ParseByte, Unescape, Locals, Halfway, Plain, FEND, FESC, TFEND, TFESC

LEMMA HalfwayBreaks ==
    ASSUME NEW f, NEW k, NEW o, NEW b, b \notin {TFEND, TFESC}, NEW z, z = << >>
    PROVE  ParseByte(Halfway(f, k, o), b) = Broken(z, Append(k, b), o)
BY DEF ParseByte, Unescape, Locals, Halfway, Broken, TFEND, TFESC

LEMMA PlainEscape ==
    ASSUME NEW f, NEW k, NEW o
    PROVE  ParseByte(Plain(f, k, o), FESC) = Halfway(f, Append(k, FESC), o)
BY DEF ParseByte, Locals, Plain, Halfway, FEND, FESC

LEMMA PlainByte ==
    ASSUME NEW f, NEW k, NEW o, NEW b, b \notin {FEND, FESC}
    PROVE  ParseByte(Plain(f, k, o), b) = Plain(Append(f, b), Append(k, b), o)
BY DEF ParseByte, Locals, Plain, FEND, FESC

LEMMA PlainEdge ==
    ASSUME NEW f, NEW k, NEW o, f = << >>, NEW z, z = << >>
    PROVE  ParseByte(Plain(f, k, o), FEND) = Skipping(f, z, o)
BY DEF ParseByte, Erased, Emitted, Locals, Plain, Skipping, FEND, FESC

LEMMA PlainEnd ==
    ASSUME NEW f, NEW k, NEW o, f # << >>, NEW z, z = << >>
    PROVE  ParseByte(Plain(f, k, o), FEND) = Skipping(z, z, Append(o, f))
BY DEF ParseByte, Erased, Emitted, Locals, Plain, Skipping, FEND, FESC

Parser == INSTANCE FoldFacts WITH Op <- ParseByte

LEMMA ParseUnfold ==
    /\ Parse(<< >>) = Plain(<< >>, << >>, << >>)
    /\ \A t \in Bytes : \A b \in Byte : Parse(Append(t, b)) = ParseByte(Parse(t), b)
<1>1. \A t : Parse(t) = Parser!Fold(ParseStart, t)
    BY DEF Parse, Parser!Fold, FoldLeft, MapThenFoldSet, Parser!FoldLeft,
           Parser!MapThenFoldSet, Max, Parser!Max
<1>2. Parse(<< >>) = ParseStart
    BY <1>1, Parser!FoldEmpty
<1>3. ParseStart = Plain(<< >>, << >>, << >>)
    BY DEF ParseStart, Locals, Plain
<1>4. ASSUME NEW t \in Bytes, NEW b \in Byte
      PROVE  Parse(Append(t, b)) = ParseByte(Parse(t), b)
    BY <1>1, Parser!FoldAppend DEF Bytes
<1> QED BY <1>2, <1>3, <1>4

LEMMA ParseAppend ==
    ASSUME NEW t \in Bytes, NEW b \in Byte
    PROVE  Parse(Append(t, b)) = ParseByte(Parse(t), b)
BY ParseUnfold, Zenon

LEMMA TunBytes ==
    /\ Packets \subseteq Bytes /\ Datagrams \subseteq Bytes /\ Garbage \subseteq Bytes
    /\ \A p \in Packets : p # << >>
    /\ \A g \in Garbage : BrokenFrame(g)
    /\ Mtu \in Nat /\ Mtu >= 1
BY TunAssumption, SeqMonotonic DEF Bytes, Byte

-----------------------------------------------------------------------------
(* A frame between edges is read as its packet.                            *)
LEMMA EscapeRead ==
    ASSUME NEW b \in Byte, NEW f \in Bytes, NEW o,
           NEW r \in {Zero(o), In(f, o)}, r = Zero(o) => f = << >>
    PROVE  Reading(r, Escape(b)) = In(Append(f, b), o)
<1>1. \A c : c \notin {FEND, FESC} => ReadByte(r, c) = In(Append(f, c), o)
    BY ZeroRules, InRules
<1>2. ReadByte(r, FESC) = Half(f, o)
    BY ZeroRules, InRules
<1>3. ASSUME NEW c \in Byte
      PROVE  Reading(r, <<FESC, c>>) = ReadByte(Half(f, o), c)
    <2>1. <<FESC, c>> = <<FESC>> \o <<c>> /\ <<FESC>> \in Bytes /\ <<c>> \in Bytes
        BY NamedBytes, Cat
    <2>2. Reading(r, <<FESC>> \o <<c>>) = Reading(Reading(r, <<FESC>>), <<c>>)
        BY <2>1, ReadingUnfold, Zenon
    <2>3. Reading(r, <<FESC>>) = ReadByte(r, FESC)
        BY NamedBytes, ReadingUnfold, Zenon
    <2>4. Reading(Half(f, o), <<c>>) = ReadByte(Half(f, o), c)
        BY ReadingUnfold, Zenon
    <2> QED BY <1>2, <2>1, <2>2, <2>3, <2>4
<1>4. CASE b = FEND
    <2>1. Escape(b) = <<FESC, TFEND>>
        BY <1>4 DEF Escape, FESC, FEND
    <2>2. ReadByte(Half(f, o), TFEND) = In(Append(f, FEND), o)
        BY HalfRules
    <2> QED BY <1>3, <1>4, <2>1, <2>2, NamedBytes
<1>5. CASE b = FESC
    <2>1. Escape(b) = <<FESC, TFESC>>
        BY <1>5 DEF Escape, FEND, FESC
    <2>2. ReadByte(Half(f, o), TFESC) = In(Append(f, FESC), o)
        BY HalfRules
    <2> QED BY <1>3, <1>5, <2>1, <2>2, NamedBytes
<1>6. CASE b \notin {FEND, FESC}
    <2>1. Escape(b) = <<b>>
        BY <1>6 DEF Escape
    <2>2. Reading(r, <<b>>) = ReadByte(r, b)
        BY ReadingUnfold, Zenon
    <2> QED BY <1>1, <1>6, <2>1, <2>2
<1> QED BY <1>4, <1>5, <1>6

LEMMA EscapedRead ==
    ASSUME NEW o
    PROVE  \A p \in Bytes :
               Reading(Zero(o), Escaped(p)) = IF p = << >> THEN Zero(o) ELSE In(p, o)
<1> DEFINE X(p) == IF p = << >> THEN Zero(o) ELSE In(p, o)
           H == {p \in Bytes : Reading(Zero(o), Escaped(p)) = X(p)}
<1>1. << >> \in H
    BY EscapedUnfold, ReadingUnfold, Cat
<1>2. \A p \in Seq(Byte) : p \in H => \A b \in Byte : Append(p, b) \in H
    <2> SUFFICES ASSUME NEW p \in Bytes, NEW b \in Byte,
                        Reading(Zero(o), Escaped(p)) = X(p)
                 PROVE  Append(p, b) \in H
        BY DEF Bytes
    <2>1. Append(p, b) \in Bytes /\ Append(p, b) # << >>
        BY Cat, EmptySeq DEF Bytes
    <2>2. Escaped(Append(p, b)) = Escaped(p) \o Escape(b)
          /\ Escaped(p) \in Bytes /\ Escape(b) \in Bytes
        BY EscapedUnfold, EscapedType, EscapeType
    <2>3. Reading(Zero(o), Escaped(p) \o Escape(b)) = Reading(X(p), Escape(b))
        BY <2>2, ReadingUnfold
    <2>4. X(p) \in {Zero(o), In(p, o)} /\ (X(p) = Zero(o) => p = << >>)
        BY DEF Zero, In, Now
    <2>5. Reading(X(p), Escape(b)) = In(Append(p, b), o)
        BY <2>4, EscapeRead
    <2> QED BY <2>1, <2>2, <2>3, <2>5
<1> HIDE DEF H
<1>3. \A p \in Seq(Byte) : p \in H
    BY <1>1, <1>2, Reader!SeqInduction
<1> QED BY <1>3 DEF H, Bytes

LEMMA FrameRead ==
    ASSUME NEW p \in Packets, NEW o, NEW r \in {Edge(o), Fail(o)}
    PROVE  Framed(p) \in Bytes /\ Reading(r, Framed(p)) = Edge(Append(o, p))
<1>1. /\ p \in Bytes /\ p # << >> /\ Escaped(p) \in Bytes
      /\ <<FEND>> \in Bytes /\ <<Data0>> \in Bytes
      /\ <<FEND, Data0>> = <<FEND>> \o <<Data0>> /\ <<FEND, Data0>> \in Bytes
      /\ <<FEND, Data0>> \o Escaped(p) \in Bytes
    BY TunBytes, EscapedType, NamedBytes, Cat
<1>2. Framed(p) \in Bytes
    BY <1>1, Cat DEF Framed
<1>3. Reading(r, <<FEND, Data0>>) = Zero(o)
    <2>1. Reading(r, <<FEND, Data0>>) = Reading(Reading(r, <<FEND>>), <<Data0>>)
        <3>1. Reading(r, <<FEND>> \o <<Data0>>) = Reading(Reading(r, <<FEND>>), <<Data0>>)
            BY <1>1, ReadingUnfold
        <3> QED BY <1>1, <3>1
    <2>2. Reading(r, <<FEND>>) = ReadByte(r, FEND)
        BY NamedBytes, ReadingUnfold
    <2>3. ReadByte(r, FEND) = Edge(o) /\ ReadByte(Edge(o), Data0) = Zero(o)
        BY EdgeRules, FailRules
    <2>4. Reading(Edge(o), <<Data0>>) = ReadByte(Edge(o), Data0)
        BY NamedBytes, ReadingUnfold
    <2> QED BY <2>1, <2>2, <2>3, <2>4
<1>4. Reading(r, <<FEND, Data0>> \o Escaped(p)) = In(p, o)
    <2>1. Reading(r, <<FEND, Data0>> \o Escaped(p))
          = Reading(Reading(r, <<FEND, Data0>>), Escaped(p))
        BY <1>1, ReadingUnfold
    <2>2. Reading(Zero(o), Escaped(p)) = In(p, o)
        BY <1>1, EscapedRead
    <2> QED BY <1>3, <2>1, <2>2
<1>5. Reading(r, Framed(p)) = ReadByte(In(p, o), FEND)
    <2>1. Reading(r, (<<FEND, Data0>> \o Escaped(p)) \o <<FEND>>)
          = Reading(Reading(r, <<FEND, Data0>> \o Escaped(p)), <<FEND>>)
        BY <1>1, ReadingUnfold
    <2>2. Reading(In(p, o), <<FEND>>) = ReadByte(In(p, o), FEND)
        BY NamedBytes, ReadingUnfold
    <2> QED BY <1>4, <2>1, <2>2 DEF Framed
<1> QED BY <1>2, <1>5, InRules

-----------------------------------------------------------------------------
(* A broken frame is read as nothing, and the next one ends it at the      *)
(* latest.                                                                 *)
LEMMA BrokenRead ==
    ASSUME NEW g \in Garbage, NEW o
    PROVE  Reading(Edge(o), g) \in {Edge(o), Fail(o)}
<1> DEFINE n == Len(g)
           R(j) == Reading(Edge(o), SubSeq(g, 1, j))
           BadEscape(i) == g[i] = FESC /\ g[i + 1] \notin {TFEND, TFESC}
<1>1. g \in Bytes /\ n \in Nat /\ n > 3 /\ \A i \in 1..n : g[i] \in Byte
    BY TunBytes DEF BrokenFrame, Bytes
<1>2. /\ g[1] = FEND /\ g[2] = Data0 /\ g[n] = FEND
      /\ \A i \in 2..(n - 1) : g[i] # FEND
      /\ \E i \in 3..(n - 1) : BadEscape(i)
    BY TunBytes DEF BrokenFrame
<1>3. /\ SubSeq(g, 1, n) = g
      /\ SubSeq(g, 1, 0) = << >>
      /\ \A j \in 0..(n - 1) : /\ SubSeq(g, 1, j) \in Bytes
                              /\ SubSeq(g, 1, j + 1) = Append(SubSeq(g, 1, j), g[j + 1])
    <2>0. g \in Seq(Byte)
        BY <1>1 DEF Bytes
    <2> HIDE DEF n
    <2>1. SubSeq(g, 1, n) = g
        BY <2>0 DEF n
    <2>2. SubSeq(g, 1, 0) = << >>
        BY <1>1, <2>0 DEF n
    <2>3. \A j \in 0..(n - 1) : SubSeq(g, 1, j) \in Bytes
        BY <1>1, <2>0 DEF n, Bytes
    <2>4. \A j \in 0..(n - 1) : SubSeq(g, 1, j + 1) = Append(SubSeq(g, 1, j), g[j + 1])
        BY <1>1, <2>0 DEF n
    <2> QED BY <2>1, <2>2, <2>3, <2>4
<1>4. R(1) = Edge(o) /\ \A j \in 1..(n - 1) : R(j + 1) = ReadByte(R(j), g[j + 1])
    <2>1. ASSUME NEW j \in 0..(n - 1) PROVE R(j + 1) = ReadByte(R(j), g[j + 1])
        <3> DEFINE t == SubSeq(g, 1, j)
                   c == g[j + 1]
        <3>1. t \in Bytes /\ c \in Byte /\ SubSeq(g, 1, j + 1) = Append(t, c)
            BY <1>1, <1>3
        <3> HIDE DEF t, c
        <3>2. Reading(Edge(o), Append(t, c)) = ReadByte(Reading(Edge(o), t), c)
            BY <3>1, ReadingUnfold
        <3> QED BY <3>1, <3>2 DEF t, c
    <2>2. R(0) = Edge(o)
        BY <1>3, ReadingUnfold
    <2> HIDE DEF R
    <2>3. R(0 + 1) = ReadByte(R(0), g[0 + 1])
        BY <1>1, <2>1
    <2>4. R(1) = Edge(o)
        BY <1>2, <2>2, <2>3, EdgeRules
    <2> QED BY <1>1, <2>1, <2>4
<1> HIDE DEF R, n
<1>5. PICK k \in 3..(n - 1) : BadEscape(k) /\ \A j \in 3..(k - 1) : ~BadEscape(j)
    <2> DEFINE K == {i \in 3..(n - 1) : BadEscape(i)}
    <2>1. K \subseteq Nat /\ K # {}
        BY <1>1, <1>2
    <2>2. PICK k \in K : \A j \in K : k <= j
        BY <2>1, Reader!MinOfNat
    <2> QED BY <1>1, <2>2
<1> DEFINE C(j) == IF g[j] = FESC THEN \E f \in Bytes : R(j) = Half(f, o)
                   ELSE R(j) = Zero(o) \/ \E f \in Bytes : R(j) = In(f, o)
<1>6. C(2)
    <2>1. R(2) = ReadByte(R(1), g[2])
        BY <1>1, <1>4
    <2>2. R(2) = Zero(o)
        BY <1>2, <1>4, <2>1, EdgeRules
    <2> QED BY <1>2, <2>2 DEF Data0, FESC
<1>7. ASSUME NEW j \in 2..(k - 1), C(j) PROVE C(j + 1)
    <2>1. R(j + 1) = ReadByte(R(j), g[j + 1]) /\ j + 1 \in 2..(n - 1) /\ g[j + 1] # FEND
          /\ g[j + 1] \in Byte
        BY <1>1, <1>2, <1>4, <1>5
    <2>2. CASE g[j] = FESC
        <3>1. j # 2
            BY <1>2, <2>2 DEF Data0, FESC
        <3>2. g[j + 1] \in {TFEND, TFESC}
            BY <1>5, <2>2, <3>1
        <3>3. PICK f \in Bytes : R(j) = Half(f, o)
            BY <1>7, <2>2
        <3>4. R(j + 1) \in {In(Append(f, FEND), o), In(Append(f, FESC), o)}
            BY <2>1, <3>2, <3>3, HalfRules
        <3>5. g[j + 1] # FESC
            BY <3>2 DEF FESC, TFEND, TFESC
        <3>6. Append(f, FEND) \in Bytes /\ Append(f, FESC) \in Bytes
            BY Cat, NamedBytes
        <3> QED BY <3>4, <3>5, <3>6
    <2>3. CASE g[j] # FESC
        <3>1. PICK f \in Bytes : R(j) = In(f, o) \/ (R(j) = Zero(o) /\ f = << >>)
            BY <1>7, <2>3, Cat
        <3>2. CASE g[j + 1] = FESC
            BY <2>1, <3>1, <3>2, ZeroRules, InRules
        <3>3. CASE g[j + 1] # FESC
            <4>1. R(j + 1) = In(Append(f, g[j + 1]), o)
                BY <2>1, <3>1, <3>3, ZeroRules, InRules
            <4>2. Append(f, g[j + 1]) \in Bytes
                BY <2>1, Cat
            <4> QED BY <3>3, <4>1, <4>2
        <3> QED BY <3>2, <3>3
    <2> QED BY <2>2, <2>3
<1> HIDE DEF C
<1>8. \A j \in 2..k : C(j)
    <2> DEFINE K == {j \in 2..k : ~C(j)}
    <2> SUFFICES ASSUME K # {} PROVE FALSE
        OBVIOUS
    <2>1. K \subseteq Nat
        BY <1>1
    <2>2. PICK j \in K : \A i \in K : j <= i
        BY <2>1, Reader!MinOfNat
    <2>3. j # 2 /\ j - 1 \in 2..(k - 1) /\ j - 1 \notin K
        BY <1>1, <1>6, <2>2
    <2>4. C(j - 1)
        BY <1>1, <2>3
    <2>5. C((j - 1) + 1)
        BY <1>7, <2>3, <2>4
    <2> QED BY <1>1, <2>2, <2>5
<1>9. PICK f \in Bytes : R(k) = Half(f, o)
    BY <1>1, <1>5, <1>8 DEF C
<1>10. R(k + 1) = Fail(o)
    <2>1. R(k + 1) = ReadByte(R(k), g[k + 1])
        BY <1>1, <1>4
    <2> QED BY <1>5, <1>9, <2>1, HalfRules
<1>11. \A j \in (k + 1)..(n - 1) : R(j) = Fail(o)
    <2> DEFINE K == {j \in (k + 1)..(n - 1) : R(j) # Fail(o)}
    <2> SUFFICES ASSUME K # {} PROVE FALSE
        OBVIOUS
    <2>1. K \subseteq Nat
        BY <1>1
    <2>2. PICK j \in K : \A i \in K : j <= i
        BY <2>1, Reader!MinOfNat
    <2>3. j # k + 1 /\ j - 1 \in (k + 1)..(n - 1) /\ j - 1 \notin K
        BY <1>1, <1>10, <2>2
    <2>4. R(j - 1) = Fail(o) /\ g[j] # FEND
        BY <1>1, <1>2, <2>2, <2>3
    <2>5. R((j - 1) + 1) = ReadByte(R(j - 1), g[(j - 1) + 1])
        BY <1>1, <1>4, <2>3
    <2>6. R(j) = Fail(o)
        BY <1>1, <2>4, <2>5, FailRules
    <2> QED BY <2>2, <2>6
<1>12. R(n) \in {Edge(o), Fail(o)}
    <2>1. CASE k + 1 = n
        BY <1>10, <2>1
    <2>2. CASE k + 1 # n
        <3>1. n - 1 \in (k + 1)..(n - 1) /\ n - 1 \in 1..(n - 1)
            BY <1>1, <2>2
        <3>2. R((n - 1) + 1) = ReadByte(R(n - 1), g[(n - 1) + 1])
            BY <1>4, <3>1
        <3>3. R(n) = ReadByte(Fail(o), FEND)
            BY <1>1, <1>2, <1>11, <3>1, <3>2
        <3> QED BY <3>3, FailRules
    <2> QED BY <2>1, <2>2
<1> QED BY <1>3, <1>12 DEF R, n

LEMMA PacketSeq ==
    /\ << >> \in Seq(Bytes)
    /\ \A f \in Bytes : <<f>> \in Seq(Bytes)
    /\ \A h \in Seq(Bytes) : h \o << >> = h /\ << >> \o h = h
    /\ \A h, e \in Seq(Bytes) : h \o e \in Seq(Bytes)
    /\ \A h \in Seq(Bytes) : \A f \in Bytes :
           Append(h, f) \in Seq(Bytes) /\ Append(h, f) = h \o <<f>>
    /\ \A h, e, d \in Seq(Bytes) : (h \o e) \o d = h \o (e \o d)
<1>1. \A h, e, d \in Seq(Bytes) : (h \o e) \o d = h \o (e \o d)
    <2> TAKE h, e, d \in Seq(Bytes)
    <2> QED BY ConcatAssociative
<1> QED BY <1>1, EmptySeq, ConcatProperties, ConcatEmptySeq, AppendProperties,
           AppendIsConcat

(* What one call enqueues, against the frames: with or without the command *)
(* byte.                                                                   *)
Either(p) == {p, <<Data0>> \o p}
Matches(q, o) == Len(q) = Len(o) /\ \A i \in 1..Len(o) : q[i] \in Either(o[i])

LEMMA MatchesAppend ==
    ASSUME NEW q \in Seq(Bytes), NEW d \in Seq(Bytes), NEW o \in Seq(Bytes),
           NEW p \in Bytes, NEW f \in Bytes, Matches(q \o d, o), f \in Either(p)
    PROVE  Matches(q \o Append(d, f), Append(o, p))
<1> DEFINE z == q \o d
           y == Append(o, p)
<1>1. q \o Append(d, f) = Append(z, f) /\ z \in Seq(Bytes)
    BY PacketSeq
<1>2. /\ Len(y) = Len(o) + 1 /\ y[Len(o) + 1] = p /\ Len(o) \in Nat
      /\ \A i \in 1..Len(o) : y[i] = o[i]
    OBVIOUS
<1> HIDE DEF z, y
<1>3. Len(z) = Len(o) /\ \A i \in 1..Len(o) : z[i] \in Either(o[i])
    BY DEF Matches, z
<1>4. /\ Len(Append(z, f)) = Len(o) + 1 /\ Append(z, f)[Len(o) + 1] = f
      /\ \A i \in 1..Len(o) : Append(z, f)[i] = z[i]
    BY <1>1, <1>2, <1>3
<1>5. ASSUME NEW i \in 1..(Len(o) + 1) PROVE Append(z, f)[i] \in Either(y[i])
    <2>1. CASE i = Len(o) + 1
        BY <1>2, <1>4, <2>1
    <2>2. CASE i # Len(o) + 1
        <3>1. i \in 1..Len(o)
            BY <1>2, <2>2
        <3> QED BY <1>2, <1>3, <1>4, <3>1
    <2> QED BY <2>1, <2>2
<1>6. Matches(Append(z, f), y)
    BY <1>2, <1>4, <1>5 DEF Matches
<1> QED BY <1>1, <1>6 DEF y

(* One call against the reader: the call is where the reader is, up to the *)
(* command byte, and what it keeps is what the reader has seen since the   *)
(* edge.  q: what was enqueued before the call.                            *)
Alike(s, r, o, f, g, k, d) ==
    \/ r = Edge(o) /\ f = << >> /\ s \in {Plain(f, k, d), Skipping(f, k, d)}
    \/ r = Zero(o) /\ g = << >> /\ s = Plain(f, k, d)
    \/ r = In(g, o) /\ g # << >> /\ s = Plain(f, k, d)
    \/ r = Half(g, o) /\ s = Halfway(f, k, d)
    \/ r = Fail(o) /\ f = << >> /\ s = Broken(f, k, d)

Sim(s, r, q) ==
    \E o, d \in Seq(Bytes), f, g, k \in Bytes :
        /\ Matches(q \o d, o) /\ Reading(Edge(o), k) = r /\ f \in Either(g)
        /\ Alike(s, r, o, f, g, k, d)

LEMMA SimStart ==
    ASSUME NEW q \in Seq(Bytes), NEW o \in Seq(Bytes), Matches(q, o)
    PROVE  Sim(Parse(<< >>), Edge(o), q)
<1>1. << >> \in Seq(Bytes) /\ << >> \in Bytes /\ q \o << >> = q
    BY PacketSeq, Cat
<1>2. Reading(Edge(o), << >>) = Edge(o)
    BY ReadingUnfold
<1>3. Alike(Parse(<< >>), Edge(o), o, << >>, << >>, << >>, << >>)
    BY ParseUnfold DEF Alike
<1> QED BY <1>1, <1>2, <1>3 DEF Sim, Either

LEMMA SimStep ==
    ASSUME NEW q \in Seq(Bytes), NEW s, NEW r, NEW b \in Byte, Sim(s, r, q),
           ReadByte(r, b).mode # "stuck"
    PROVE  Sim(ParseByte(s, b), ReadByte(r, b), q)
<1>1. PICK o \in Seq(Bytes), d \in Seq(Bytes), f \in Bytes, g \in Bytes, k \in Bytes :
         /\ Matches(q \o d, o) /\ Reading(Edge(o), k) = r /\ f \in Either(g)
         /\ Alike(s, r, o, f, g, k, d)
    BY DEF Sim
<1> DEFINE t == ParseByte(s, b)
           u == ReadByte(r, b)
           kb == Append(k, b)
<1>2. kb \in Bytes /\ Reading(Edge(o), kb) = u
    <2>1. Reading(Edge(o), Append(k, b)) = ReadByte(Reading(Edge(o), k), b)
        BY ReadingUnfold
    <2> QED BY <1>1, <2>1, Cat
<1>3. << >> \in Bytes /\ \A z \in Seq(Bytes) : Reading(Edge(z), << >>) = Edge(z)
    BY Cat, ReadingUnfold
<1>4. ASSUME NEW h \in Bytes, NEW j \in Bytes, h \in Either(j), Alike(t, u, o, h, j, kb, d)
      PROVE  Sim(t, u, q)
    BY <1>1, <1>2, <1>4 DEF Sim
<1>5. ASSUME u = Edge(o), NEW z, z = << >>, t = Skipping(z, z, d)
      PROVE  Sim(t, u, q)
    <2>1. Alike(t, u, o, z, z, z, d)
        BY <1>5 DEF Alike
    <2>2. Reading(Edge(o), z) = u /\ z \in Either(z) /\ z \in Bytes
        BY <1>3, <1>5 DEF Either
    <2> QED BY <1>1, <2>1, <2>2 DEF Sim
<1>6. ASSUME NEW c \in Byte
      PROVE  /\ Append(f, c) \in Bytes /\ Append(g, c) \in Bytes
             /\ Append(f, c) \in Either(Append(g, c)) /\ Append(g, c) # << >>
    <2>1. Append(f, c) \in Bytes /\ Append(g, c) \in Bytes
        BY Cat
    <2>2. Append(g, c) # << >>
        <3>1. g \in Seq(Byte) /\ c \in Byte
            BY DEF Bytes
        <3> DEFINE z == Append(g, c)
        <3>2. Len(z) # 0
            BY <3>1
        <3> HIDE DEF z
        <3>3. z # << >>
            BY <3>2
        <3> QED BY <3>3 DEF z
    <2>3. Append(<<Data0>> \o g, c) = <<Data0>> \o Append(g, c)
        <3> DEFINE x == <<Data0>>
                   y == <<c>>
        <3>1. x \in Bytes /\ y \in Bytes /\ x \o g \in Bytes
            BY NamedBytes, Cat
        <3>2. Append(x \o g, c) = (x \o g) \o y /\ Append(g, c) = g \o y
            BY <3>1, Cat
        <3> HIDE DEF x, y
        <3>3. (x \o g) \o y = x \o (g \o y)
            BY <3>1, Assoc
        <3> QED BY <3>2, <3>3 DEF x
    <2> QED BY <1>1, <2>1, <2>2, <2>3 DEF Either
<1>7. FEND # Data0 /\ FEND # FESC /\ Data0 # FESC /\ FEND \in Byte /\ FESC \in Byte
    BY NamedBytes DEF FEND, FESC, Data0
<1>e. PICK z \in Bytes : z = << >>
    BY <1>3
<1> HIDE DEF t, u, kb
<1>8. CASE r = Edge(o) /\ f = << >> /\ s \in {Plain(f, k, d), Skipping(f, k, d)}
    <2>1. b \in {FEND, Data0}
        BY <1>8, EdgeRules, NowFields DEF Stuck
    <2>2. CASE s = Skipping(f, k, d)
        <3>1. t = Plain(f, kb, d)
            BY <2>2, SkipByte DEF t, kb
        <3>2. u \in {Edge(o), Zero(o)}
            BY <1>8, <2>1, EdgeRules DEF u
        <3>3. Alike(t, u, o, f, z, kb, d)
            BY <1>8, <1>e, <3>1, <3>2 DEF Alike
        <3>4. f \in Either(z)
            BY <1>8, <1>e DEF Either
        <3> QED BY <1>4, <3>3, <3>4 DEF t, u
    <2>3. CASE s = Plain(f, k, d)
        <3>1. CASE b = FEND
            <4>1. u = Edge(o)
                BY <1>8, <3>1, EdgeRules DEF u
            <4>2. t = Skipping(f, z, d)
                BY <1>8, <1>e, <2>3, <3>1, PlainEdge DEF t
            <4>3. t = Skipping(z, z, d)
                BY <1>8, <1>e, <4>2
            <4> QED BY <1>e, <1>5, <4>1, <4>3 DEF t, u
        <3>2. CASE b = Data0
            <4>1. u = Zero(o)
                BY <1>8, <3>2, EdgeRules DEF u
            <4>2. t = Plain(Append(f, b), kb, d)
                BY <1>7, <2>3, <3>2, PlainByte DEF t, kb
            <4>3. Append(f, b) = <<Data0>> \o z /\ Append(f, b) \in Bytes
                BY <1>8, <1>e, <3>2, Cat, NamedBytes
            <4>4. Alike(t, u, o, Append(f, b), z, kb, d)
                BY <1>e, <4>1, <4>2 DEF Alike
            <4> QED BY <1>4, <4>3, <4>4 DEF Either, t, u
        <3> QED BY <2>1, <3>1, <3>2
    <2> QED BY <1>8, <2>2, <2>3
<1>9. CASE /\ (r = Zero(o) /\ g = << >>) \/ (r = In(g, o) /\ g # << >>)
           /\ s = Plain(f, k, d)
    <2>1. CASE b = FESC
        <3>1. u = Half(g, o)
            BY <1>9, <2>1, ZeroRules, InRules DEF u
        <3>2. t = Halfway(f, kb, d)
            BY <1>9, <2>1, PlainEscape DEF t, kb
        <3>3. Alike(t, u, o, f, g, kb, d)
            BY <3>1, <3>2 DEF Alike
        <3> QED BY <1>1, <1>4, <3>3 DEF t, u
    <2>2. CASE b \notin {FEND, FESC}
        <3>1. u = In(Append(g, b), o)
            BY <1>9, <2>2, ZeroRules, InRules DEF u
        <3>2. t = Plain(Append(f, b), kb, d)
            BY <1>9, <2>2, PlainByte DEF t, kb
        <3>3. Alike(t, u, o, Append(f, b), Append(g, b), kb, d)
            BY <1>6, <3>1, <3>2 DEF Alike
        <3> QED BY <1>4, <1>6, <3>3 DEF t, u
    <2>3. CASE b = FEND
        <3>1. r = In(g, o) /\ g # << >>
            BY <1>9, <2>3, ZeroRules, NowFields DEF Stuck
        <3>2. f # << >>
            <4>1. <<Data0>> \o g # << >>
                <5>1. <<Data0>> \in Seq(Byte) /\ g \in Seq(Byte) /\ Len(<<Data0>>) = 1
                    BY NamedBytes DEF Bytes
                <5>2. Len(<<Data0>> \o g) >= 1
                    BY <5>1
                <5> QED BY <5>2
            <4> QED BY <1>1, <3>1, <4>1 DEF Either
        <3>3. u = Edge(Append(o, g))
            BY <2>3, <3>1, InRules DEF u
        <3>4. t = Skipping(z, z, Append(d, f))
            BY <1>9, <1>e, <2>3, <3>2, PlainEnd DEF t
        <3>5. Matches(q \o Append(d, f), Append(o, g)) /\ Append(d, f) \in Seq(Bytes)
              /\ Append(o, g) \in Seq(Bytes)
            BY <1>1, MatchesAppend, PacketSeq
        <3>6. Alike(t, u, Append(o, g), z, z, z, Append(d, f))
            BY <1>e, <3>3, <3>4 DEF Alike
        <3>7. Reading(Edge(Append(o, g)), z) = u /\ z \in Either(z)
            BY <1>3, <1>e, <3>3, <3>5 DEF Either
        <3>8. Sim(t, u, q)
            BY <3>5, <3>6, <3>7 DEF Sim
        <3> QED BY <3>8 DEF t, u
    <2> QED BY <2>1, <2>2, <2>3
<1>10. CASE r = Half(g, o) /\ s = Halfway(f, k, d)
    <2>1. CASE b \in {TFEND, TFESC}
        <3>1. PICK c \in {FEND, FESC} :
                 u = In(Append(g, c), o) /\ t = Plain(Append(f, c), kb, d)
            <4>1. CASE b = TFEND
                <5>1. u = In(Append(g, FEND), o)
                    BY <1>10, <4>1, HalfRules DEF u
                <5>2. t = Plain(Append(f, FEND), kb, d)
                    BY <1>10, <4>1, HalfwayFend DEF t, kb
                <5> QED BY <5>1, <5>2
            <4>2. CASE b = TFESC
                <5>1. u = In(Append(g, FESC), o)
                    BY <1>10, <4>2, HalfRules DEF u
                <5>2. t = Plain(Append(f, FESC), kb, d)
                    BY <1>10, <4>2, HalfwayFesc DEF t, kb
                <5> QED BY <5>1, <5>2
            <4> QED BY <2>1, <4>1, <4>2
        <3>2. c \in Byte
            BY <1>7
        <3>3. Alike(t, u, o, Append(f, c), Append(g, c), kb, d)
            BY <1>6, <3>1, <3>2 DEF Alike
        <3> QED BY <1>4, <1>6, <3>2, <3>3 DEF t, u
    <2>2. CASE b \notin {TFEND, TFESC}
        <3>1. u = Fail(o)
            BY <1>10, <2>2, HalfRules DEF u
        <3>2. t = Broken(z, kb, d)
            BY <1>10, <1>e, <2>2, HalfwayBreaks DEF t, kb
        <3>3. Alike(t, u, o, z, z, kb, d)
            BY <1>e, <3>1, <3>2 DEF Alike
        <3>4. z \in Either(z)
            BY DEF Either
        <3> QED BY <1>4, <3>3, <3>4 DEF t, u
    <2> QED BY <2>1, <2>2
<1>11. CASE r = Fail(o) /\ f = << >> /\ s = Broken(f, k, d)
    <2>1. CASE b = FEND
        <3>1. u = Edge(o)
            BY <1>11, <2>1, FailRules DEF u
        <3>2. t = Skipping(z, z, d)
            BY <1>11, <1>e, <2>1, BrokenEnd DEF t
        <3> QED BY <1>5, <1>e, <3>1, <3>2 DEF t, u
    <2>2. CASE b # FEND
        <3>1. u = Fail(o)
            BY <1>11, <2>2, FailRules DEF u
        <3>2. t = Broken(f, kb, d)
            BY <1>11, <2>2, BrokenByte DEF t, kb
        <3>3. Alike(t, u, o, f, g, kb, d)
            BY <1>11, <3>1, <3>2 DEF Alike
        <3> QED BY <1>1, <1>4, <3>3 DEF t, u
    <2> QED BY <2>1, <2>2
<1>12. \/ r = Edge(o) /\ f = << >> /\ s \in {Plain(f, k, d), Skipping(f, k, d)}
       \/ /\ (r = Zero(o) /\ g = << >>) \/ (r = In(g, o) /\ g # << >>)
          /\ s = Plain(f, k, d)
       \/ r = Half(g, o) /\ s = Halfway(f, k, d)
       \/ r = Fail(o) /\ f = << >> /\ s = Broken(f, k, d)
    BY <1>1 DEF Alike
<1> QED BY <1>8, <1>9, <1>10, <1>11, <1>12 DEF t, u

(* A stream on which the reader does not get stuck leaves a call where the *)
(* reader is.                                                              *)
LEMMA SimRun ==
    ASSUME NEW q \in Seq(Bytes), NEW o \in Seq(Bytes), Matches(q, o)
    PROVE  \A t \in Bytes : \/ Reading(Edge(o), t).mode = "stuck"
                            \/ Sim(Parse(t), Reading(Edge(o), t), q)
<1> DEFINE P == {t \in Bytes : \/ Reading(Edge(o), t).mode = "stuck"
                               \/ Sim(Parse(t), Reading(Edge(o), t), q)}
<1>1. << >> \in P
    <2>1. Reading(Edge(o), << >>) = Edge(o)
        BY ReadingUnfold
    <2> QED BY <2>1, SimStart, Cat
<1>2. \A t \in Seq(Byte) : t \in P => \A b \in Byte : Append(t, b) \in P
    <2> SUFFICES ASSUME NEW t \in Bytes, t \in P, NEW b \in Byte
                 PROVE  Append(t, b) \in P
        BY DEF Bytes
    <2>1. /\ Append(t, b) \in Bytes
          /\ Reading(Edge(o), Append(t, b)) = ReadByte(Reading(Edge(o), t), b)
          /\ Parse(Append(t, b)) = ParseByte(Parse(t), b)
        BY Cat, ReadAppend, ParseAppend
    <2>2. CASE Reading(Edge(o), t).mode = "stuck"
        BY <2>1, <2>2, StuckRule
    <2>3. CASE Sim(Parse(t), Reading(Edge(o), t), q)
        BY <2>1, <2>3, SimStep
    <2> QED BY <2>2, <2>3
<1> HIDE DEF P
<1>3. \A t \in Seq(Byte) : t \in P
    BY <1>1, <1>2, Reader!SeqInduction
<1> QED BY <1>3 DEF P, Bytes

LEMMA StuckStays ==
    ASSUME NEW r, r.mode = "stuck"
    PROVE  \A t \in Bytes : Reading(r, t).mode = "stuck"
<1> DEFINE P == {t \in Bytes : Reading(r, t).mode = "stuck"}
<1>1. << >> \in P
    BY ReadingUnfold, Cat
<1>2. \A t \in Seq(Byte) : t \in P => \A b \in Byte : Append(t, b) \in P
    <2> SUFFICES ASSUME NEW t \in Bytes, t \in P, NEW b \in Byte
                 PROVE  Append(t, b) \in P
        BY DEF Bytes
    <2>1. /\ Append(t, b) \in Bytes
          /\ Reading(r, Append(t, b)) = ReadByte(Reading(r, t), b)
        BY Cat, ReadAppend
    <2> QED BY <2>1, StuckRule
<1> HIDE DEF P
<1>3. \A t \in Seq(Byte) : t \in P
    BY <1>1, <1>2, Reader!SeqInduction
<1> QED BY <1>3 DEF P, Bytes

(* What a reader has read, it keeps.                                       *)
Modes == {"edge", "zero", "in", "esc", "fail", "stuck"}
Readers == [mode : Modes, packet : Bytes, out : Seq(Bytes)]

LEMMA ReadersNow ==
    ASSUME NEW m \in Modes, NEW f \in Bytes, NEW o \in Seq(Bytes)
    PROVE  Now(m, f, o) \in Readers /\ Now(m, f, o).out = o
BY DEF Now, Readers

LEMMA ReadByteKeeps ==
    ASSUME NEW r \in Readers, NEW b \in Byte
    PROVE  /\ ReadByte(r, b) \in Readers
           /\ \E d \in Seq(Bytes) : ReadByte(r, b).out = r.out \o d
<1> DEFINE p == r.packet
           o == r.out
<1>1. p \in Bytes /\ o \in Seq(Bytes)
    BY DEF Readers
<1>2. << >> \in Bytes /\ << >> \in Seq(Bytes) /\ o \o << >> = o
    BY <1>1, Cat, PacketSeq
<1>3. /\ Append(o, p) \in Seq(Bytes) /\ Append(o, p) = o \o <<p>> /\ <<p>> \in Seq(Bytes)
      /\ \A c \in Byte : Append(p, c) \in Bytes
    BY <1>1, Cat, PacketSeq
<1>4. ReadByte(r, b) \in {Edge(o), Zero(o), Stuck(o), Fail(o), Half(p, o), In(Append(p, b), o),
                          In(Append(p, FEND), o), In(Append(p, FESC), o), Edge(Append(o, p))}
    BY DEF ReadByte
<1> HIDE DEF p, o
<1> DEFINE Keeps(x) == x \in Readers /\ \E d \in Seq(Bytes) : x.out = o \o d
<1>5. \A m \in Modes : \A f \in Bytes : Keeps(Now(m, f, o))
    <2> SUFFICES ASSUME NEW m \in Modes, NEW f \in Bytes PROVE Keeps(Now(m, f, o))
        OBVIOUS
    <2>1. Now(m, f, o) \in Readers /\ Now(m, f, o).out = o \o << >>
        BY <1>1, <1>2, ReadersNow
    <2> QED BY <1>2, <2>1
<1>6. Keeps(Edge(Append(o, p)))
    <2> DEFINE x == Append(o, p)
    <2>1. x \in Seq(Bytes) /\ x = o \o <<p>>
        BY <1>3
    <2> HIDE DEF x
    <2>2. \A f : f = << >> => Edge(x) = Now("edge", f, x)
        BY DEF Edge
    <2>3. \A f \in Bytes : /\ Now("edge", f, x) \in Readers
                           /\ Now("edge", f, x).out = x
        BY <2>1, ReadersNow DEF Modes
    <2>4. Edge(x) \in Readers /\ Edge(x).out = x
        BY <1>2, <2>2, <2>3, Zenon
    <2> QED BY <1>3, <2>1, <2>4 DEF x
<1> HIDE DEF Keeps
<1>7. /\ Keeps(Edge(o)) /\ Keeps(Zero(o)) /\ Keeps(Stuck(o)) /\ Keeps(Fail(o))
      /\ \A f \in Bytes : Keeps(Half(f, o)) /\ Keeps(In(f, o))
    BY <1>2, <1>5 DEF Edge, Zero, Stuck, Fail, Half, In, Modes
<1>8. /\ Append(p, b) \in Bytes /\ Append(p, FEND) \in Bytes /\ Append(p, FESC) \in Bytes
    BY <1>3, NamedBytes
<1>9. Keeps(ReadByte(r, b))
    BY <1>1, <1>4, <1>6, <1>7, <1>8
<1> QED BY <1>9 DEF Keeps, o

LEMMA OutGrows ==
    ASSUME NEW r \in Readers
    PROVE  \A t \in Bytes : /\ Reading(r, t) \in Readers
                            /\ \E e \in Seq(Bytes) : Reading(r, t).out = r.out \o e
<1> DEFINE Q(t) == /\ Reading(r, t) \in Readers
                   /\ \E e \in Seq(Bytes) : Reading(r, t).out = r.out \o e
           P == {t \in Bytes : Q(t)}
<1>0. r.out \in Seq(Bytes)
    BY DEF Readers
<1>1. << >> \in P
    <2>1. << >> \in Seq(Bytes) /\ r.out \o << >> = r.out
        BY <1>0, PacketSeq
    <2> QED BY <2>1, ReadingUnfold, Cat
<1>2. \A t \in Seq(Byte) : t \in P => \A b \in Byte : Append(t, b) \in P
    <2> SUFFICES ASSUME NEW t \in Bytes, Q(t), NEW b \in Byte
                 PROVE  Append(t, b) \in Bytes /\ Q(Append(t, b))
        BY DEF Bytes
    <2>1. /\ Append(t, b) \in Bytes
          /\ Reading(r, Append(t, b)) = ReadByte(Reading(r, t), b)
        BY Cat, ReadAppend
    <2>2. PICK e \in Seq(Bytes) : Reading(r, t).out = r.out \o e
        OBVIOUS
    <2>3. /\ ReadByte(Reading(r, t), b) \in Readers
          /\ \E d \in Seq(Bytes) : ReadByte(Reading(r, t), b).out = Reading(r, t).out \o d
        BY ReadByteKeeps
    <2>4. PICK d \in Seq(Bytes) : ReadByte(Reading(r, t), b).out = Reading(r, t).out \o d
        BY <2>3
    <2>5. (r.out \o e) \o d = r.out \o (e \o d) /\ e \o d \in Seq(Bytes)
        BY <1>0, PacketSeq
    <2> QED BY <2>1, <2>2, <2>3, <2>4, <2>5
<1> HIDE DEF P
<1>3. \A t \in Seq(Byte) : t \in P
    BY <1>1, <1>2, Reader!SeqInduction
<1> QED BY <1>3 DEF P, Bytes

-----------------------------------------------------------------------------
(* One call of KISSIngress::read, when the stream goes on to the end of a  *)
(* frame: what was enqueued, and what is kept, where the next call starts. *)
Called(q, s, rest, w) ==
    /\ s.out \in Seq(Bytes) /\ s.kept \in Bytes
    /\ \E z \in Seq(Bytes) : /\ Matches(q \o s.out, z)
                             /\ Reading(Edge(z), s.kept).out = z
                             /\ Reading(Edge(z), s.kept \o rest) = Edge(w)

LEMMA OneCall ==
    ASSUME NEW q \in Seq(Bytes), NEW o \in Seq(Bytes), Matches(q, o),
           NEW t \in Bytes, NEW rest \in Bytes, NEW w,
           Reading(Edge(o), t \o rest) = Edge(w)
    PROVE  Called(q, Parse(t), rest, w)
<1> DEFINE s == Parse(t)
           r == Reading(Edge(o), t)
<1>1. Reading(r, rest) = Edge(w)
    BY ReadConcat
<1>2. r.mode = "stuck" \/ Sim(s, r, q)
    BY SimRun
<1> HIDE DEF s
<1> HIDE DEF r
<1>3. Sim(s, r, q)
    <2>1. Edge(w).mode # "stuck"
        BY NowFields DEF Edge
    <2>2. r.mode # "stuck"
        BY <1>1, <2>1, StuckStays
    <2> QED BY <1>2, <2>2
<1>4. PICK z \in Seq(Bytes), d \in Seq(Bytes), f \in Bytes, g \in Bytes, k \in Bytes :
         /\ Matches(q \o d, z) /\ Reading(Edge(z), k) = r /\ f \in Either(g)
         /\ Alike(s, r, z, f, g, k, d)
    BY <1>3 DEF Sim
<1>5. s \in {Plain(f, k, d), Halfway(f, k, d), Broken(f, k, d), Skipping(f, k, d)}
    BY <1>4 DEF Alike
<1>6. s.out = d /\ s.kept = k
    BY <1>5, LocalsFields
<1>7. r.out = z
    <2>1. r \in {Edge(z), Zero(z), In(g, z), Half(g, z), Fail(z)}
        BY <1>4 DEF Alike
    <2> QED BY <2>1, NowFields DEF Edge, Zero, In, Half, Fail
<1>8. Reading(Edge(z), k \o rest) = Edge(w)
    <2>1. Reading(Edge(z), k \o rest) = Reading(Reading(Edge(z), k), rest)
        BY <1>4, ReadConcat
    <2> QED BY <1>1, <1>4, <2>1
<1> QED BY <1>4, <1>6, <1>7, <1>8 DEF Called, s, r

(* What was sent and queued, q, matches packets o; a reader that has those *)
(* gets no more from what is kept, u, and the frames fr from that and what *)
(* is still to be read, n.                                                 *)
OnTheWay(q, u, n, fr) ==
    \E o \in Seq(Bytes) :
        /\ Matches(q, o)
        /\ Reading(Edge(o), u).out = o
        /\ Reading(Edge(o), u \o n) = Edge(fr)

LEMMA WayEmpty == OnTheWay(<< >>, << >>, << >>, << >>)
<1>1. << >> \in Seq(Bytes) /\ << >> \in Bytes /\ << >> \o << >> = << >>
    BY Cat, PacketSeq
<1>2. PICK e \in Seq(Bytes) : e = << >>
    BY <1>1
<1>3. Matches(e, e)
    BY <1>2 DEF Matches
<1>4. Reading(Edge(e), << >>) = Edge(e) /\ Edge(e).out = e
    BY ReadingUnfold, NowFields DEF Edge
<1> QED BY <1>1, <1>2, <1>3, <1>4 DEF OnTheWay

LEMMA WayLonger ==
    ASSUME NEW q, NEW u \in Bytes, NEW n \in Bytes, NEW fr, OnTheWay(q, u, n, fr),
           NEW p \in Packets, NEW g \in Garbage \cup {<< >>}
    PROVE  /\ n \o g \o Framed(p) \in Bytes
           /\ OnTheWay(q, u, n \o g \o Framed(p), Append(fr, p))
<1>1. PICK o \in Seq(Bytes) : /\ Matches(q, o)
                              /\ Reading(Edge(o), u).out = o
                              /\ Reading(Edge(o), u \o n) = Edge(fr)
    BY DEF OnTheWay
<1>2. g \in Bytes
    BY TunBytes, Cat
<1>3. Framed(p) \in Bytes
    BY FrameRead
<1>4. Reading(Edge(fr), g) \in {Edge(fr), Fail(fr)}
    <2>1. CASE g \in Garbage
        BY <2>1, BrokenRead
    <2>2. CASE g = << >>
        BY <2>2, ReadingUnfold
    <2> QED BY <2>1, <2>2
<1> DEFINE F == Framed(p)
<1>5. Reading(Reading(Edge(fr), g), F) = Edge(Append(fr, p))
    BY <1>4, FrameRead
<1> HIDE DEF F
<1>6. /\ u \o ((n \o g) \o F) = ((u \o n) \o g) \o F
      /\ u \o n \in Bytes /\ (u \o n) \o g \in Bytes /\ (n \o g) \o F \in Bytes
    <2>1. F \in Bytes
        BY <1>3 DEF F
    <2>2. u \o n \in Bytes /\ n \o g \in Bytes
        BY <1>2, Cat
    <2>3. (u \o n) \o g \in Bytes /\ (n \o g) \o F \in Bytes
        BY <1>2, <2>1, <2>2, Cat
    <2>4. (u \o (n \o g)) \o F = u \o ((n \o g) \o F)
        BY <2>1, <2>2, Assoc
    <2>5. (u \o n) \o g = u \o (n \o g)
        BY <1>2, Assoc
    <2> QED BY <2>2, <2>3, <2>4, <2>5
<1>7. Reading(Edge(o), ((u \o n) \o g) \o F) = Edge(Append(fr, p))
    <2>1. Reading(Edge(o), ((u \o n) \o g) \o F)
          = Reading(Reading(Edge(o), (u \o n) \o g), F)
        BY <1>3, <1>6, ReadConcat DEF F
    <2>2. Reading(Edge(o), (u \o n) \o g) = Reading(Reading(Edge(o), u \o n), g)
        BY <1>2, <1>6, ReadConcat
    <2> QED BY <1>1, <1>5, <2>1, <2>2
<1>8. Reading(Edge(o), u \o ((n \o g) \o F)) = Edge(Append(fr, p))
    BY <1>6, <1>7
<1> QED BY <1>1, <1>6, <1>8 DEF OnTheWay, F

LEMMA WayCall ==
    ASSUME NEW q \in Seq(Bytes), NEW u \in Bytes, NEW c \in Bytes, NEW rest \in Bytes,
           NEW fr, OnTheWay(q, u, c \o rest, fr)
    PROVE  /\ Parse(u \o c).out \in Seq(Bytes) /\ Parse(u \o c).kept \in Bytes
           /\ OnTheWay(q \o Parse(u \o c).out, Parse(u \o c).kept, rest, fr)
<1> DEFINE t == u \o c
<1>1. t \in Bytes /\ t \o rest = u \o (c \o rest)
    BY Cat, Assoc
<1>2. PICK o \in Seq(Bytes) : /\ Matches(q, o)
                              /\ Reading(Edge(o), u \o (c \o rest)) = Edge(fr)
    BY DEF OnTheWay
<1> HIDE DEF t
<1>3. Reading(Edge(o), t \o rest) = Edge(fr)
    BY <1>1, <1>2
<1>4. Called(q, Parse(t), rest, fr)
    <2>1. t \in Bytes
        BY <1>1
    <2> QED BY <1>2, <1>3, <2>1, OneCall
<1> QED BY <1>4 DEF Called, OnTheWay, t

(* What it says of the packets sent and queued.                            *)
LEMMA WayMatches ==
    ASSUME NEW q \in Seq(Bytes), NEW u \in Bytes, NEW n \in Bytes, NEW fr \in Seq(Bytes),
           OnTheWay(q, u, n, fr)
    PROVE  /\ Len(q) <= Len(fr)
           /\ \A i \in 1..Len(q) : q[i] \in Either(fr[i])
           /\ n = << >> => Len(q) = Len(fr)
<1>1. PICK o \in Seq(Bytes) : /\ Matches(q, o)
                              /\ Reading(Edge(o), u).out = o
                              /\ Reading(Edge(o), u \o n) = Edge(fr)
    BY DEF OnTheWay
<1>2. Edge(fr).out = fr /\ Edge(o).out = o
    BY NowFields DEF Edge
<1>3. Edge(o) \in Readers
    <2>1. \A f \in Bytes : Now("edge", f, o) \in Readers
        BY ReadersNow DEF Modes
    <2>2. << >> \in Bytes
        BY Cat
    <2> QED BY <2>1, <2>2, Zenon DEF Edge
<1>4. PICK e \in Seq(Bytes) : fr = o \o e
    <2>1. u \o n \in Bytes
        BY Cat
    <2>2. \E e \in Seq(Bytes) : Reading(Edge(o), u \o n).out = Edge(o).out \o e
        BY <1>3, <2>1, OutGrows
    <2> QED BY <1>1, <1>2, <2>2
<1>5. Len(o) <= Len(fr) /\ \A i \in 1..Len(o) : fr[i] = o[i]
    BY <1>4
<1>6. Len(q) = Len(o) /\ \A i \in 1..Len(o) : q[i] \in Either(o[i])
    BY <1>1 DEF Matches
<1>7. ASSUME n = << >> PROVE fr = o
    <2>1. u \o n = u
        BY <1>7, Cat
    <2> QED BY <1>1, <1>2, <2>1
<1> QED BY <1>5, <1>6, <1>7

-----------------------------------------------------------------------------
(* The inductive invariant of the way from the pty to the socket.          *)
PtyTyped ==
    /\ ptyIn \in Bytes /\ unparsed \in Bytes
    /\ sockq \in Seq(Bytes) /\ sockOut \in Seq(Bytes) /\ frames \in Seq(Bytes)

(* What select() reported is still so when it is acted upon.               *)
SockReady == pc \in {"read1", "read2", "send1", "send2"} /\ 2 \in wfds => sockq # << >>

ToSockInv ==
    /\ PtyTyped
    /\ SockReady
    /\ OnTheWay(sockOut \o sockq, unparsed, ptyIn, frames)

LEMMA ToSockInit == Init => ToSockInv
<1> SUFFICES ASSUME Init PROVE ToSockInv
    OBVIOUS
<1>1. << >> \in Seq(Bytes) /\ << >> \in Bytes /\ sockOut \o sockq = << >>
    <2>1. << >> \o << >> = << >>
        BY PacketSeq
    <2> QED BY <2>1, Cat, PacketSeq DEF Init
<1>2. PtyTyped
    BY <1>1 DEF Init, PtyTyped
<1>3. SockReady
    BY DEF Init, SockReady
<1>4. OnTheWay(sockOut \o sockq, unparsed, ptyIn, frames)
    BY <1>1, WayEmpty DEF Init
<1> QED BY <1>2, <1>3, <1>4 DEF ToSockInv

LEMMA ToSockKernel ==
    ASSUME ToSockInv, NEW p \in Packets, KernelSends(p)
    PROVE  ToSockInv'
<1>1. PICK g \in Garbage \cup {<< >>} : ptyIn' = ptyIn \o g \o Framed(p)
    BY DEF KernelSends
<1>2. /\ ptyIn \in Bytes /\ unparsed \in Bytes
      /\ OnTheWay(sockOut \o sockq, unparsed, ptyIn, frames)
    BY DEF ToSockInv, PtyTyped
<1>3. ptyIn' \in Bytes /\ OnTheWay(sockOut \o sockq, unparsed, ptyIn', Append(frames, p))
    BY <1>1, <1>2, WayLonger
<1>4. frames' = Append(frames, p) /\ UNCHANGED <<loop, toSock>>
    BY DEF KernelSends
<1>5. Append(frames, p) \in Seq(Bytes)
    BY TunBytes, PacketSeq DEF ToSockInv, PtyTyped
<1>6. PtyTyped'
    BY <1>3, <1>4, <1>5 DEF ToSockInv, PtyTyped, toSock
<1>7. SockReady'
    BY <1>4 DEF ToSockInv, SockReady, loop, toSock
<1>8. OnTheWay(sockOut \o sockq, unparsed, ptyIn, frames)'
    BY <1>3, <1>4 DEF toSock
<1> QED BY <1>6, <1>7, <1>8 DEF ToSockInv

LEMMA ToSockRead ==
    ASSUME ToSockInv, Read2
    PROVE  ToSockInv'
<1>0. /\ ptyIn \in Bytes /\ unparsed \in Bytes
      /\ sockOut \in Seq(Bytes) /\ sockq \in Seq(Bytes) /\ frames \in Seq(Bytes)
      /\ OnTheWay(sockOut \o sockq, unparsed, ptyIn, frames)
    BY DEF ToSockInv, PtyTyped
<1>1. pc = "read2" /\ pc' = "send1" /\ UNCHANGED <<wfds, frames, sockOut>>
    BY DEF Read2
<1>2. CASE UNCHANGED <<ptyIn, unparsed, sockq>>
    BY <1>1, <1>2 DEF ToSockInv, PtyTyped, SockReady
<1>3. CASE 2 \in rfds
    <2>1. PICK n \in 1..Least(Mtu, Len(ptyIn)) :
             LET s == Parse(unparsed \o SubSeq(ptyIn, 1, n)) IN
                /\ ptyIn' = SubSeq(ptyIn, n + 1, Len(ptyIn))
                /\ unparsed' = Leftover(s)
                /\ sockq' = sockq \o s.out
        BY <1>3 DEF Read2
    <2>2. n \in 1..Len(ptyIn)
        <3>1. Len(ptyIn) \in Nat
            BY <1>0 DEF Bytes
        <3> QED BY <3>1, TunBytes DEF Least
    <2> DEFINE c == SubSeq(ptyIn, 1, n)
               rest == SubSeq(ptyIn, n + 1, Len(ptyIn))
               s == Parse(unparsed \o c)
    <2>3. c \in Bytes /\ rest \in Bytes /\ ptyIn = c \o rest
        <3>1. ptyIn \in Seq(Byte)
            BY <1>0 DEF Bytes
        <3>2. c \in Seq(Byte) /\ rest \in Seq(Byte)
            BY <2>2, <3>1
        <3>3. ptyIn = c \o rest
            BY <2>2, <3>1
        <3> QED BY <3>2, <3>3 DEF Bytes
    <2>4. ptyIn' = rest /\ unparsed' = s.kept /\ sockq' = sockq \o s.out
        BY <2>1 DEF Leftover
    <2> HIDE DEF c, rest
    <2>5. sockOut \o sockq \in Seq(Bytes)
        BY <1>0, PacketSeq
    <2>6. OnTheWay(sockOut \o sockq, unparsed, c \o rest, frames)
        BY <1>0, <2>3
    <2>7. /\ s.out \in Seq(Bytes) /\ s.kept \in Bytes
          /\ OnTheWay((sockOut \o sockq) \o s.out, s.kept, rest, frames)
        BY <1>0, <2>3, <2>5, <2>6, WayCall
    <2> HIDE DEF s
    <2>8. /\ (sockOut \o sockq) \o s.out = sockOut \o (sockq \o s.out)
          /\ sockq \o s.out \in Seq(Bytes)
        BY <1>0, <2>7, PacketSeq
    <2>9. PtyTyped'
        BY <1>0, <1>1, <2>3, <2>4, <2>7, <2>8 DEF PtyTyped
    <2>10. SockReady'
        <3>1. sockq # << >> => sockq \o s.out # << >>
            BY <1>0, <2>7
        <3> QED BY <1>1, <2>4, <3>1 DEF ToSockInv, SockReady
    <2>11. OnTheWay(sockOut \o sockq, unparsed, ptyIn, frames)'
        BY <1>1, <2>4, <2>7, <2>8
    <2> QED BY <2>9, <2>10, <2>11 DEF ToSockInv
<1> QED BY <1>2, <1>3 DEF Read2

LEMMA ToSockSend ==
    ASSUME ToSockInv, Send2
    PROVE  ToSockInv'
<1>0. sockOut \in Seq(Bytes) /\ sockq \in Seq(Bytes)
    BY DEF ToSockInv, PtyTyped
<1>1. pc = "send2" /\ pc' = "select" /\ UNCHANGED <<ptyIn, frames, unparsed>>
    BY DEF Send2, kernel
<1>2. SockReady'
    BY <1>1 DEF SockReady
<1>3. CASE UNCHANGED <<sockOut, sockq>>
    BY <1>1, <1>2, <1>3 DEF ToSockInv, PtyTyped
<1>4. CASE /\ 2 \in wfds
           /\ sockOut' = Append(sockOut, Head(sockq)) /\ sockq' = DropHead(sockq)
    <2>1. sockq # << >>
        BY <1>1, <1>4 DEF ToSockInv, SockReady
    <2>2. sockOut' \in Seq(Bytes) /\ sockq' \in Seq(Bytes)
        BY <1>0, <1>4, <2>1 DEF DropHead
    <2>3. sockOut' \o sockq' = sockOut \o sockq
        <3> DEFINE x == Head(sockq)
                   y == Tail(sockq)
        <3>1. x \in Bytes /\ y \in Seq(Bytes) /\ sockq = <<x>> \o y
            BY <1>0, <2>1, Reader!FirstAndRest
        <3> HIDE DEF x, y
        <3>2. Append(sockOut, x) = sockOut \o <<x>> /\ <<x>> \in Seq(Bytes)
            BY <1>0, <3>1, PacketSeq
        <3> DEFINE e == <<x>>
        <3> HIDE DEF e
        <3>3. (sockOut \o e) \o y = sockOut \o (e \o y)
            BY <1>0, <3>1, <3>2, PacketSeq DEF e
        <3> QED BY <1>4, <3>1, <3>2, <3>3 DEF DropHead, x, y, e
    <2> QED BY <1>1, <1>2, <2>2, <2>3 DEF ToSockInv, PtyTyped
<1> QED BY <1>3, <1>4 DEF Send2

LEMMA ToSockNext == ToSockInv /\ [Next]_vars => ToSockInv'
<1> SUFFICES ASSUME ToSockInv, [Next]_vars PROVE ToSockInv'
    OBVIOUS
<1>1. ASSUME NEW p \in Packets, KernelSends(p) PROVE ToSockInv'
    BY <1>1, ToSockKernel
<1>2. ASSUME UNCHANGED <<ptyIn, frames, sockq, unparsed, sockOut>>, SockReady'
      PROVE  ToSockInv'
    BY <1>2 DEF ToSockInv, PtyTyped
<1>3. ASSUME NEW p \in Datagrams, PeerSends(p) PROVE ToSockInv'
    <2>1. SockReady'
        BY <1>3 DEF PeerSends, ToSockInv, SockReady, loop, toSock
    <2> QED BY <1>2, <1>3, <2>1 DEF PeerSends, kernel, toSock
<1>4. CASE Select
    <2>1. wfds' \subseteq Pending
        BY <1>4 DEF Select
    <2>2. SockReady'
        BY <1>4, <2>1 DEF Select, Pending, SockReady, toSock
    <2> QED BY <1>2, <1>4, <2>2 DEF Select, kernel, toSock
<1>5. CASE Read1
    <2>1. SockReady'
        BY <1>5 DEF Read1, ToSockInv, SockReady, toSock
    <2> QED BY <1>2, <1>5, <2>1 DEF Read1, kernel, toSock
<1>6. CASE Read2
    BY <1>6, ToSockRead
<1>7. CASE Send1
    <2>1. SockReady'
        BY <1>7 DEF Send1, ToSockInv, SockReady, toSock
    <2> QED BY <1>2, <1>7, <2>1 DEF Send1, kernel, toSock
<1>8. CASE Send2
    BY <1>8, ToSockSend
<1>9. CASE UNCHANGED vars
    <2>1. SockReady'
        BY <1>9 DEF ToSockInv, SockReady, vars, toSock, loop
    <2> QED BY <1>2, <1>9, <2>1 DEF vars, kernel, toSock
<1> QED BY <1>1, <1>3, <1>4, <1>5, <1>6, <1>7, <1>8, <1>9
        DEF Next, Environment, Program

LEMMA ToSockCorrect == Spec => []ToSockInv
BY ToSockInit, ToSockNext, PTL DEF Spec

LEMMA ToSockShows == ToSockInv => FramesInOrderUpToCommand /\ NoFrameLost
<1> SUFFICES ASSUME ToSockInv PROVE FramesInOrderUpToCommand /\ NoFrameLost
    OBVIOUS
<1> DEFINE q == sockOut \o sockq
<1>1. /\ q \in Seq(Bytes) /\ unparsed \in Bytes /\ ptyIn \in Bytes /\ frames \in Seq(Bytes)
      /\ OnTheWay(q, unparsed, ptyIn, frames)
    BY PacketSeq DEF ToSockInv, PtyTyped
<1> HIDE DEF q
<1>2. /\ Len(q) <= Len(frames)
      /\ \A i \in 1..Len(q) : q[i] \in Either(frames[i])
      /\ ptyIn = << >> => Len(q) = Len(frames)
    BY <1>1, WayMatches
<1> QED BY <1>2 DEF FramesInOrderUpToCommand, NoFrameLost, Either, q

(* However read() cuts the stream of the pty, the datagrams sent and       *)
(* queued are the frames the kernel wrote, in order and each complete, but *)
(* for the command byte (KISSIngress::read, UDPQueue::send).               *)
THEOREM InOrderUpToCommand == Spec => []FramesInOrderUpToCommand
BY ToSockCorrect, ToSockShows, PTL

(* When the pty has been read empty, no frame is missing, whatever broken  *)
(* frames stood between them.                                              *)
THEOREM NothingLost == Spec => []NoFrameLost
BY ToSockCorrect, ToSockShows, PTL

-----------------------------------------------------------------------------
(* The way from the socket to the pty: what the peer has decoded, dg being *)
(* the packets enqueued and g the number of those written.                 *)
Explained(dg, o, g) ==
    \E of \in [DOMAIN o -> 1..Least(g + 1, Len(dg))] : Explains(of, dg, o, g)

LEMMA ExplainedEmpty == Explained(<< >>, << >>, 0)
<1> DEFINE of == [i \in {} |-> 1]
<1>1. DOMAIN << >> = {} /\ Len(<< >>) = 0
    BY EmptySeq
<1>2. of \in [DOMAIN << >> -> 1..Least(0 + 1, Len(<< >>))]
    BY <1>1
<1>3. Explains(of, << >>, << >>, 0)
    BY <1>1 DEF Explains
<1> QED BY <1>2, <1>3 DEF Explained

LEMMA ExplainedQueued ==
    ASSUME NEW dg \in Seq(Bytes), NEW o \in Seq(Bytes), NEW g \in 0..Len(dg),
           Explained(dg, o, g), NEW d \in Bytes
    PROVE  Explained(Append(dg, d), o, g)
<1> DEFINE y == Append(dg, d)
           N == Len(dg)
<1>1. PICK of \in [DOMAIN o -> 1..Least(g + 1, N)] : Explains(of, dg, o, g)
    BY DEF Explained
<1>2. N \in Nat /\ g \in Nat /\ g <= N /\ Len(y) = N + 1 /\ \A i \in 1..N : y[i] = dg[i]
    OBVIOUS
<1> HIDE DEF y, N
<1>3. \A i \in DOMAIN o : of[i] \in 1..N /\ of[i] \in 1..Least(g + 1, N + 1)
    <2>1. Least(g + 1, N) <= N /\ Least(g + 1, N) <= Least(g + 1, N + 1)
          /\ Least(g + 1, N) \in Nat /\ Least(g + 1, N + 1) \in Nat
        BY <1>2 DEF Least
    <2> QED BY <1>1, <1>2, <2>1
<1>4. of \in [DOMAIN o -> 1..Least(g + 1, Len(y))]
    BY <1>1, <1>2, <1>3
<1>5. \A i \in DOMAIN o : y[of[i]] = dg[of[i]]
    BY <1>2, <1>3
<1>6. \A n \in 1..g : y[n] = dg[n]
    BY <1>2
<1>7. Explains(of, y, o, g)
    BY <1>1, <1>5, <1>6 DEF Explains
<1> QED BY <1>4, <1>7 DEF Explained, y

(* One more packet is decoded: what a short write left of the next one, or *)
(* the next one itself.                                                    *)
LEMMA ExplainedMore ==
    ASSUME NEW dg \in Seq(Bytes), NEW o \in Seq(Bytes), NEW g \in Nat, g < Len(dg),
           Explained(dg, o, g), NEW h \in Bytes, IsPrefix(h, dg[g + 1])
    PROVE  /\ Explained(dg, Append(o, h), g)
           /\ h = dg[g + 1] => Explained(dg, Append(o, h), g + 1)
<1> DEFINE z == Append(o, h)
           L == Len(o)
           N == Len(dg)
<1>1. PICK of \in [DOMAIN o -> 1..Least(g + 1, N)] : Explains(of, dg, o, g)
    BY DEF Explained
<1>2. /\ N \in Nat /\ L \in Nat /\ DOMAIN o = 1..L /\ DOMAIN z = 1..(L + 1)
      /\ z[L + 1] = h /\ \A i \in 1..L : z[i] = o[i]
    OBVIOUS
<1> DEFINE to == [i \in 1..(L + 1) |-> IF i = L + 1 THEN g + 1 ELSE of[i]]
<1> HIDE DEF z, L, N
<1>3. to[L + 1] = g + 1 /\ \A i \in 1..L : to[i] = of[i]
    BY <1>2
<1>4. Least(g + 1, N) = g + 1 /\ Least((g + 1) + 1, N) \in Nat /\ Least((g + 1) + 1, N) >= g + 1
    BY <1>2 DEF Least, N
<1>5. \A i \in 1..L : of[i] \in 1..(g + 1)
    BY <1>1, <1>2, <1>4
<1>6. to \in [1..(L + 1) -> 1..(g + 1)]
    <2>1. \A i \in 1..(L + 1) : (IF i = L + 1 THEN g + 1 ELSE of[i]) \in 1..(g + 1)
        BY <1>2, <1>5
    <2> QED BY <2>1
<1>7. DOMAIN to = 1..(L + 1)
    OBVIOUS
<1> HIDE DEF to
<1>8. \A i \in 1..(L + 1) : IsPrefix(z[i], dg[to[i]])
    <2> SUFFICES ASSUME NEW i \in 1..(L + 1) PROVE IsPrefix(z[i], dg[to[i]])
        OBVIOUS
    <2>1. CASE i = L + 1
        BY <1>2, <1>3, <2>1
    <2>2. CASE i # L + 1
        <3>1. i \in 1..L
            BY <1>2, <2>2
        <3>2. IsPrefix(o[i], dg[of[i]])
            BY <1>1, <1>2, <3>1 DEF Explains
        <3> QED BY <1>2, <1>3, <3>1, <3>2
    <2> QED BY <2>1, <2>2
<1>9. \A i, j \in 1..(L + 1) : i < j => to[i] <= to[j]
    <2> SUFFICES ASSUME NEW i \in 1..(L + 1), NEW j \in 1..(L + 1), i < j
                 PROVE  to[i] <= to[j]
        OBVIOUS
    <2>1. i \in 1..L
        BY <1>2
    <2>2. CASE j = L + 1
        BY <1>3, <1>5, <2>1, <2>2
    <2>3. CASE j # L + 1
        <3>1. j \in 1..L
            BY <1>2, <2>3
        <3>2. of[i] <= of[j]
            BY <1>1, <1>2, <2>1, <3>1 DEF Explains
        <3> QED BY <1>3, <2>1, <3>1, <3>2
    <2> QED BY <2>2, <2>3
<1> DEFINE Full(n) == \E i \in 1..(L + 1) :
                          /\ to[i] = n /\ z[i] = dg[n]
                          /\ \A j \in 1..(L + 1) : to[j] = n => j <= i
<1>10. ASSUME NEW n \in 1..g PROVE Full(n)
    <2>1. PICK i \in 1..L : /\ of[i] = n /\ o[i] = dg[n]
                            /\ \A j \in 1..L : of[j] = n => j <= i
        BY <1>1, <1>2 DEF Explains
    <2>2. to[i] = n /\ z[i] = dg[n] /\ i \in 1..(L + 1)
        BY <1>2, <1>3, <2>1
    <2>3. ASSUME NEW j \in 1..(L + 1), to[j] = n PROVE j <= i
        <3>1. j # L + 1
            BY <1>3, <2>3
        <3>2. j \in 1..L
            BY <1>2, <3>1
        <3> QED BY <1>3, <2>1, <2>3, <3>2
    <2> QED BY <2>2, <2>3
<1>11. ASSUME h = dg[g + 1] PROVE Full(g + 1)
    <2>1. L + 1 \in 1..(L + 1) /\ \A j \in 1..(L + 1) : j <= L + 1
        BY <1>2
    <2> QED BY <1>2, <1>3, <1>11, <2>1
<1> HIDE DEF Full
<1>12. Explains(to, dg, z, g)
    BY <1>2, <1>8, <1>9, <1>10 DEF Explains, Full
<1>13. ASSUME h = dg[g + 1] PROVE Explains(to, dg, z, g + 1)
    <2>1. ASSUME NEW n \in 1..(g + 1) PROVE Full(n)
        <3>1. n \in 1..g \/ n = g + 1
            OBVIOUS
        <3> QED BY <1>10, <1>11, <1>13, <3>1
    <2> QED BY <1>2, <1>8, <1>9, <2>1 DEF Explains, Full
<1>14. to \in [DOMAIN z -> 1..Least(g + 1, N)]
    BY <1>2, <1>4, <1>6
<1>15. to \in [DOMAIN z -> 1..Least((g + 1) + 1, N)]
    <2>1. \A i \in 1..(L + 1) : to[i] \in 1..Least((g + 1) + 1, N)
        BY <1>4, <1>6
    <2> QED BY <1>2, <1>6, <2>1
<1> QED BY <1>12, <1>13, <1>14, <1>15 DEF Explained, z, N

LEMMA CatLen ==
    ASSUME NEW s \in Bytes, NEW t \in Bytes
    PROVE  Len(s \o t) = Len(s) + Len(t)
BY DEF Bytes

LEMMA CatFirst ==
    ASSUME NEW s \in Bytes, NEW t \in Bytes
    PROVE  \A i \in 1..Len(s) : (s \o t)[i] = s[i]
BY DEF Bytes

LEMMA CatSecond ==
    ASSUME NEW s \in Bytes, NEW t \in Bytes
    PROVE  \A i \in 1..Len(t) : (s \o t)[Len(s) + i] = t[i]
BY DEF Bytes

(* A beginning of a concatenation is one of its first part, or that and a  *)
(* beginning of the second.                                                *)
Longer(s, t, e, x) == \E w \in Bytes : s = e \o w /\ x = w \o t

LEMMA SplitShort ==
    ASSUME NEW s \in Bytes, NEW t \in Bytes, NEW e \in Bytes, NEW x \in Bytes,
           s \o t = e \o x, Len(e) <= Len(s)
    PROVE  Longer(s, t, e, x)
<1> DEFINE m == Len(e)
           l == Len(s)
           w == SubSeq(s, m + 1, l)
           z == s \o t
<1>1. /\ s \in Seq(Byte) /\ t \in Seq(Byte) /\ e \in Seq(Byte) /\ x \in Seq(Byte)
      /\ m \in Nat /\ l \in Nat /\ Len(t) \in Nat /\ Len(x) \in Nat /\ m <= l
    BY DEF Bytes
<1>z. z = e \o x
    OBVIOUS
<1>2. /\ Len(z) = l + Len(t)
      /\ \A i \in 1..l : z[i] = s[i]
      /\ \A i \in 1..Len(t) : z[l + i] = t[i]
    BY CatLen, CatFirst, CatSecond
<1>3. /\ Len(z) = m + Len(x)
      /\ \A i \in 1..m : z[i] = e[i]
      /\ \A i \in 1..Len(x) : z[m + i] = x[i]
    <2>1. Len(e \o x) = m + Len(x)
        BY CatLen
    <2>2. \A i \in 1..m : (e \o x)[i] = e[i]
        BY CatFirst
    <2>3. \A i \in 1..Len(x) : (e \o x)[m + i] = x[i]
        BY CatSecond
    <2> HIDE DEF z, m
    <2> QED BY <1>z, <2>1, <2>2, <2>3
<1> HIDE DEF z
<1>4. /\ w \in Seq(Byte) /\ Len(w) = l - m
      /\ \A i \in 1..(l - m) : w[i] = s[m + i]
    BY <1>1
<1> HIDE DEF m, l, w
<1>5. s = e \o w
    <2> DEFINE u == e \o w
    <2>1. u \in Seq(Byte) /\ Len(u) = l
        BY <1>1, <1>4 DEF m
    <2>2. \A i \in 1..m : u[i] = e[i]
        BY <1>1, <1>4 DEF m
    <2>3. \A i \in 1..(l - m) : u[m + i] = w[i]
        BY <1>1, <1>4 DEF m
    <2> HIDE DEF u
    <2>4. ASSUME NEW i \in 1..l PROVE u[i] = s[i]
        <3>1. CASE i <= m
            BY <1>1, <1>2, <1>3, <2>2, <3>1
        <3>2. CASE i > m
            <4>1. i - m \in 1..(l - m) /\ m + (i - m) = i
                BY <1>1, <3>2
            <4> QED BY <1>4, <2>3, <4>1
        <3> QED BY <1>1, <3>1, <3>2
    <2>5. u = s
        BY <1>1, <2>1, <2>4, SeqEqual DEF l
    <2> QED BY <2>5 DEF u
<1>6. x = w \o t
    <2> DEFINE u == w \o t
    <2>0. Len(x) = (l - m) + Len(t)
        BY <1>1, <1>2, <1>3
    <2>1. u \in Seq(Byte) /\ Len(u) = Len(x)
        BY <1>1, <1>4, <2>0
    <2>2. \A i \in 1..(l - m) : u[i] = w[i]
        BY <1>1, <1>4
    <2>3. \A i \in 1..Len(t) : u[(l - m) + i] = t[i]
        BY <1>1, <1>4
    <2> HIDE DEF u
    <2>4. ASSUME NEW i \in 1..Len(x) PROVE u[i] = x[i]
        <3>1. CASE i <= l - m
            <4>1. i \in 1..(l - m) /\ m + i \in 1..l
                BY <1>1, <3>1
            <4> QED BY <1>2, <1>3, <1>4, <2>2, <4>1
        <3>2. CASE i > l - m
            <4>1. i - (l - m) \in 1..Len(t) /\ (l - m) + (i - (l - m)) = i
                  /\ l + (i - (l - m)) = m + i
                BY <1>1, <2>0, <3>2
            <4> QED BY <1>2, <1>3, <2>3, <4>1
        <3> QED BY <1>1, <3>1, <3>2
    <2>5. u = x
        BY <1>1, <2>1, <2>4, SeqEqual
    <2> QED BY <2>5 DEF u
<1> QED BY <1>4, <1>5, <1>6 DEF Longer, Bytes

LEMMA SplitConcat ==
    ASSUME NEW s \in Bytes, NEW t \in Bytes, NEW e \in Bytes, NEW x \in Bytes,
           s \o t = e \o x
    PROVE  Longer(s, t, e, x) \/ Longer(e, x, s, t)
<1>1. CASE Len(e) <= Len(s)
    BY <1>1, SplitShort
<1>2. CASE ~(Len(e) <= Len(s))
    <2>1. Len(s) <= Len(e)
        BY <1>2 DEF Bytes
    <2>2. e \o x = s \o t
        OBVIOUS
    <2>3. Longer(e, x, s, t)
        BY <2>1, <2>2, SplitShort, Zenon
    <2> QED BY <2>3
<1> QED BY <1>1, <1>2

LEMMA PartOfPair ==
    ASSUME NEW w \in Bytes, NEW x \in Bytes, NEW a \in Byte, NEW b \in Byte,
           w \o x = <<a, b>>
    PROVE  w \in {<< >>, <<a>>, <<a, b>>}
<1>1. w \in Seq(Byte) /\ Len(w) \in Nat /\ Len(x) \in Nat
    BY DEF Bytes
<1> DEFINE z == w \o x
<1>2. Len(z) = Len(w) + Len(x)
    BY CatLen
<1>3. \A i \in 1..Len(w) : z[i] = w[i]
    BY CatFirst
<1>4. z = <<a, b>>
    OBVIOUS
<1> HIDE DEF z
<1>5. Len(z) = 2 /\ z[1] = a /\ z[2] = b
    BY <1>4
<1>6. CASE Len(w) = 0
    BY <1>1, <1>6
<1>7. CASE Len(w) = 1
    BY <1>1, <1>3, <1>5, <1>7
<1>8. CASE Len(w) = 2
    BY <1>1, <1>3, <1>5, <1>8
<1>9. Len(w) = 0 \/ Len(w) = 1 \/ Len(w) = 2
    <2>1. \A l, n \in Nat : l + n = 2 => l \in {0, 1, 2}
        OBVIOUS
    <2>2. Len(w) + Len(x) = 2
        BY <1>2, <1>5
    <2> QED BY <1>1, <2>1, <2>2
<1> QED BY <1>6, <1>7, <1>8, <1>9

LEMMA PartOfOne ==
    ASSUME NEW w \in Bytes, NEW x \in Bytes, NEW a \in Byte, w \o x = <<a>>
    PROVE  w \in {<< >>, <<a>>}
<1>1. w \in Seq(Byte) /\ Len(w) \in Nat /\ Len(x) \in Nat
    BY DEF Bytes
<1> DEFINE z == w \o x
<1>2. Len(z) = Len(w) + Len(x)
    BY CatLen
<1>3. \A i \in 1..Len(w) : z[i] = w[i]
    BY CatFirst
<1>4. z = <<a>>
    OBVIOUS
<1> HIDE DEF z
<1>5. Len(z) = 1 /\ z[1] = a
    BY <1>4
<1>6. CASE Len(w) = 0
    BY <1>1, <1>6
<1>7. CASE Len(w) = 1
    BY <1>1, <1>3, <1>5, <1>7
<1>8. Len(w) = 0 \/ Len(w) = 1
    BY <1>1, <1>2, <1>5
<1> QED BY <1>6, <1>7, <1>8

(* Within an escaped packet, the peer has a beginning of the packet.       *)
Holds(s, c, h, o) == s \in {At(c \o h, o), Escaping(c \o h, o)}

LEMMA EscapePart ==
    ASSUME NEW f \in Bytes, NEW o, NEW b \in Byte, NEW w \in Bytes, NEW x \in Bytes,
           Escape(b) = w \o x
    PROVE  PeerRun(At(f, o), w) \in {At(f, o), Escaping(f, o), At(Append(f, b), o)}
<1>1. CASE w = << >>
    BY <1>1, PeerUnfold
<1>2. CASE w = Escape(b)
    BY <1>2, PeerEscapeByte
<1>3. CASE w = <<FESC>>
    <2>1. PeerRun(At(f, o), <<FESC>>) = PeerByte(At(f, o), FESC)
        BY NamedBytes, PeerUnfold, Zenon
    <2>2. PeerByte(At(f, o), FESC) = Escaping(f, o)
        BY PeerRules, Zenon
    <2> QED BY <1>3, <2>1, <2>2
<1>4. CASE b = FEND
    <2>1. Escape(b) = <<FESC, TFEND>>
        BY <1>4 DEF Escape, FEND, FESC
    <2>2. w \o x = <<FESC, TFEND>>
        BY <2>1
    <2>3. w \in {<< >>, <<FESC>>, <<FESC, TFEND>>}
        BY <2>2, NamedBytes, PartOfPair
    <2> QED BY <1>1, <1>2, <1>3, <2>1, <2>3
<1>5. CASE b = FESC
    <2>1. Escape(b) = <<FESC, TFESC>>
        BY <1>5 DEF Escape, FEND, FESC
    <2>2. w \o x = <<FESC, TFESC>>
        BY <2>1
    <2>3. w \in {<< >>, <<FESC>>, <<FESC, TFESC>>}
        BY <2>2, NamedBytes, PartOfPair
    <2> QED BY <1>1, <1>2, <1>3, <2>1, <2>3
<1>6. CASE b \notin {FEND, FESC}
    <2>1. Escape(b) = <<b>>
        BY <1>6 DEF Escape
    <2>2. w \o x = <<b>>
        BY <2>1
    <2>3. w \in {<< >>, <<b>>}
        BY <2>2, PartOfOne
    <2> QED BY <1>1, <1>2, <2>1, <2>3
<1> QED BY <1>4, <1>5, <1>6

LEMMA EscapedPart ==
    ASSUME NEW c \in Bytes, NEW o
    PROVE  \A d \in Bytes : \A e, x \in Bytes : Escaped(d) = e \o x =>
               \E h, y \in Bytes : d = h \o y /\ Holds(PeerRun(At(c, o), e), c, h, o)
<1> DEFINE Part(d, e) == \E h, y \in Bytes :
                             d = h \o y /\ Holds(PeerRun(At(c, o), e), c, h, o)
           P == {d \in Bytes : \A e, x \in Bytes : Escaped(d) = e \o x => Part(d, e)}
<1>0. << >> \in Bytes /\ \A h \in Bytes : h \o << >> = h
    BY Cat
<1>1. << >> \in P
    <2> SUFFICES ASSUME NEW e \in Bytes, NEW x \in Bytes, Escaped(<< >>) = e \o x
                 PROVE  Part(<< >>, e)
        BY <1>0
    <2>1. e \o x = << >>
        BY EscapedUnfold
    <2>2. e = << >>
        <3>1. e \in Seq(Byte) /\ x \in Seq(Byte) /\ Len(e \o x) = 0
            BY <2>1 DEF Bytes
        <3>2. Len(e) = 0
            BY <3>1
        <3> QED BY <3>1, <3>2
    <2>3. PeerRun(At(c, o), e) = At(c, o)
        BY <2>2, PeerUnfold
    <2>4. \E h \in Bytes : h = << >> /\ c \o h = c /\ h \o h = << >>
        BY <1>0
    <2> QED BY <2>3, <2>4 DEF Holds
<1>2. \A d \in Seq(Byte) : d \in P => \A b \in Byte : Append(d, b) \in P
    <2> SUFFICES ASSUME NEW d \in Seq(Byte), d \in P, NEW b \in Byte
                 PROVE  Append(d, b) \in P
        OBVIOUS
    <2>a. d \in Bytes /\ Append(d, b) \in Bytes
        BY Cat DEF Bytes
    <2> SUFFICES ASSUME NEW e \in Bytes, NEW x \in Bytes, Escaped(Append(d, b)) = e \o x
                 PROVE  Part(Append(d, b), e)
        BY <2>a
    <2> DEFINE E == Escaped(d)
               B == Escape(b)
               y == <<b>>
    <2>1. E \in Bytes /\ B \in Bytes /\ E \o B = e \o x /\ Append(d, b) = d \o y /\ y \in Bytes
        BY <2>a, EscapedUnfold, EscapedType, EscapeType, Cat
    <2>2. \A g, v \in Bytes : E = g \o v => Part(d, g)
        OBVIOUS
    <2> HIDE DEF P, Part, E, B, y
    <2>3. CASE \E w \in Bytes : E = e \o w
        <3>1. Part(d, e)
            BY <2>2, <2>3
        <3>2. PICK h \in Bytes, v \in Bytes :
                 d = h \o v /\ Holds(PeerRun(At(c, o), e), c, h, o)
            BY <3>1 DEF Part
        <3>3. (h \o v) \o y = h \o (v \o y) /\ v \o y \in Bytes
            BY <2>1, Cat, Assoc
        <3> QED BY <2>1, <3>2, <3>3 DEF Part
    <2>4. CASE \E w \in Bytes : e = E \o w /\ B = w \o x
        <3>1. PICK w \in Bytes : e = E \o w /\ B = w \o x
            BY <2>4
        <3> DEFINE f == c \o d
        <3>2. f \in Bytes
            BY <2>a, Cat
        <3>3. PeerRun(At(c, o), E) = At(f, o)
            BY <2>a, PeerEscaped DEF E
        <3>4. PeerRun(At(c, o), E \o w) = PeerRun(PeerRun(At(c, o), E), w)
            BY <2>1, PeerUnfold
        <3>5. Append(f, b) = c \o Append(d, b) /\ Append(d, b) \in Bytes
            <4>1. Append(f, b) = f \o y
                BY <3>2, Cat DEF y
            <4>2. f \o y = c \o (d \o y)
                BY <2>1, <2>a, Assoc
            <4> QED BY <2>1, <2>a, <4>1, <4>2
        <3> HIDE DEF f
        <3>6. PeerRun(At(f, o), w) \in {At(f, o), Escaping(f, o), At(Append(f, b), o)}
            BY <3>1, <3>2, EscapePart DEF B
        <3>7. CASE PeerRun(At(f, o), w) \in {At(f, o), Escaping(f, o)}
            BY <2>1, <2>a, <3>1, <3>3, <3>4, <3>7 DEF Part, Holds, f
        <3>8. CASE PeerRun(At(f, o), w) = At(Append(f, b), o)
            <4>1. Append(d, b) \o << >> = Append(d, b)
                BY <3>5, Cat
            <4> QED BY <1>0, <3>1, <3>3, <3>4, <3>5, <3>8, <4>1 DEF Part, Holds
        <3> QED BY <3>6, <3>7, <3>8
    <2>5. (\E w \in Bytes : E = e \o w) \/ (\E w \in Bytes : e = E \o w /\ B = w \o x)
        <3>1. Longer(E, B, e, x) \/ Longer(e, x, E, B)
            BY <2>1, SplitConcat
        <3> QED BY <3>1 DEF Longer
    <2> QED BY <2>3, <2>4, <2>5
<1> HIDE DEF P
<1>3. \A d \in Seq(Byte) : d \in P
    BY <1>1, <1>2, Reader!SeqInduction
<1> QED BY <1>3 DEF P, Bytes

LEMMA FramedType ==
    ASSUME NEW d \in Bytes
    PROVE  /\ Framed(d) \in Bytes /\ Escaped(d) \in Bytes
           /\ <<FEND, Data0>> \in Bytes /\ <<FEND>> \in Bytes /\ <<Data0>> \in Bytes
           /\ <<FEND, Data0>> \o Escaped(d) \in Bytes
<1>1. Escaped(d) \in Bytes /\ <<FEND, Data0>> \in Bytes /\ <<FEND>> \in Bytes
      /\ <<Data0>> \in Bytes
    BY EscapedType, NamedBytes, Cat
<1>2. <<FEND, Data0>> \o Escaped(d) \in Bytes
    BY <1>1, Cat
<1>3. Framed(d) \in Bytes
    BY <1>1, <1>2, Cat DEF Framed
<1> QED BY <1>1, <1>2, <1>3

(* What a write that is cut short has written of a frame.                  *)
PartOf(t, d) ==
    \/ t \in {<< >>, <<FEND>>}
    \/ \E e, x \in Bytes : t = <<FEND, Data0>> \o e /\ Escaped(d) = e \o x

LEMMA PartOfFrame ==
    ASSUME NEW d \in Bytes, NEW t \in Bytes, NEW r \in Bytes, Framed(d) = t \o r, r # << >>
    PROVE  PartOf(t, d)
<1> DEFINE E == Escaped(d)
           a == <<FEND, Data0>>
           s == a \o E
           f == <<FEND>>
<1>1. E \in Bytes /\ a \in Bytes /\ s \in Bytes /\ f \in Bytes
    BY FramedType
<1>2. s \o f = t \o r
    BY DEF Framed
<1>e. << >> \in Bytes /\ \A z \in Bytes : z \o << >> = z /\ << >> \o z = z
    BY Cat
<1>a. \A v \in Bytes : \A x \in Bytes : v \o x = a => v \in {<< >>, <<FEND>>, a}
    <2> SUFFICES ASSUME NEW v \in Bytes, NEW x \in Bytes, v \o x = <<FEND, Data0>>
                 PROVE  v \in {<< >>, <<FEND>>, <<FEND, Data0>>}
        OBVIOUS
    <2> QED BY NamedBytes, PartOfPair
<1>f. \A v \in Bytes : \A x \in Bytes : v \o x = f => v \in {<< >>, f}
    <2> SUFFICES ASSUME NEW v \in Bytes, NEW x \in Bytes, v \o x = <<FEND>>
                 PROVE  v \in {<< >>, <<FEND>>}
        OBVIOUS
    <2> QED BY NamedBytes, PartOfOne
<1>3. \E w \in Bytes : s = t \o w
    <2>1. Longer(s, f, t, r) \/ Longer(t, r, s, f)
        <3> HIDE DEF s, f
        <3> QED BY <1>1, <1>2, SplitConcat
    <2>2. CASE Longer(s, f, t, r)
        BY <2>2 DEF Longer
    <2>3. CASE Longer(t, r, s, f)
        <3> HIDE DEF s
        <3>1. PICK w \in Bytes : t = s \o w /\ f = w \o r
            BY <2>3 DEF Longer
        <3>2. w \in {<< >>, f}
            BY <1>f, <3>1
        <3>3. w # f
            <4>1. \A z \in Bytes : Len(f \o z) = Len(f) + Len(z)
                BY <1>1, CatLen
            <4>2. Len(r) # 0 /\ Len(r) \in Nat
                BY DEF Bytes
            <4> DEFINE n == Len(f)
            <4>3. n = 1
                OBVIOUS
            <4> HIDE DEF f, n
            <4>4. w = f => n = n + Len(r)
                BY <3>1, <4>1 DEF n
            <4> QED BY <4>2, <4>3, <4>4
        <3>4. t = s /\ t \o << >> = t
            BY <1>1, <1>e, <3>1, <3>2, <3>3
        <3> QED BY <1>e, <3>4
    <2> QED BY <2>1, <2>2, <2>3
<1>4. PICK w \in Bytes : a \o E = t \o w
    BY <1>3
<1> HIDE DEF a, E, f, s
<1>5. Longer(a, E, t, w) \/ Longer(t, w, a, E)
    BY <1>1, <1>4, SplitConcat
<1>6. CASE Longer(a, E, t, w)
    <2>1. PICK v \in Bytes : a = t \o v
        BY <1>6 DEF Longer
    <2>2. t \in {<< >>, <<FEND>>, a}
        BY <1>a, <2>1
    <2>3. a \o << >> = a /\ E = << >> \o E
        BY <1>1, <1>e
    <2> QED BY <1>1, <1>e, <2>2, <2>3 DEF PartOf, a, E
<1>7. CASE Longer(t, w, a, E)
    <2>1. PICK v \in Bytes : t = a \o v /\ E = v \o w
        BY <1>7 DEF Longer
    <2> QED BY <2>1 DEF PartOf, a, E
<1> QED BY <1>5, <1>6, <1>7

-----------------------------------------------------------------------------
(* Where the peer may be: between frames, or inside the one that is to be  *)
(* written again.                                                          *)
Peered(s, dg, g, o) ==
    \/ s = At(<< >>, o)
    \/ /\ g < Len(dg)
       /\ \E h \in Bytes : IsPrefix(h, dg[g + 1]) /\ Holds(s, <<Data0>>, h, o)

Decodes(s, dg, g) ==
    \E o \in Seq(Bytes) : Peered(s, dg, g, o) /\ Explained(dg, o, g)

Between(s, dg, g) == \E o \in Seq(Bytes) : s = At(<< >>, o) /\ Explained(dg, o, g)

LEMMA BetweenDecodes ==
    ASSUME NEW s, NEW dg, NEW g, Between(s, dg, g)
    PROVE  Decodes(s, dg, g)
BY DEF Between, Decodes, Peered

LEMMA EscapingEnds ==
    ASSUME NEW f, NEW o, NEW e, e = << >>
    PROVE  PeerByte(Escaping(f, o), FEND) = At(e, o)
<1>1. PeerByte(Escaping(f, o), FEND) = PeerEnd(Escaping(f, o))
    BY DEF PeerByte, Escaping, FEND, FESC
<1>2. Escaping(f, o).esc = TRUE /\ Escaping(f, o).out = o
    BY DEF Escaping
<1> DEFINE s == Escaping(f, o)
<1> HIDE DEF s
<1>3. PeerEnd(s) = [frame |-> e, esc |-> FALSE, bad |-> FALSE, out |-> s.out]
    BY <1>2 DEF PeerEnd, s
<1> QED BY <1>1, <1>2, <1>3 DEF At, s

LEMMA AtEnds ==
    ASSUME NEW f, NEW o
    PROVE  PeerByte(At(f, o), FEND)
           = At(<< >>, IF Len(f) < 2 THEN o ELSE Append(o, Tail(f)))
BY PeerRules, Zenon

LEMMA WithCommand ==
    ASSUME NEW h \in Bytes
    PROVE  /\ <<Data0>> \o h \in Bytes /\ Tail(<<Data0>> \o h) = h
           /\ Len(<<Data0>> \o h) < 2 <=> h = << >>
<1> DEFINE c == <<Data0>>
           z == c \o h
<1>1. c \in Bytes /\ z \in Bytes /\ c \in Seq(Byte) /\ h \in Seq(Byte) /\ z \in Seq(Byte)
    BY NamedBytes, Cat DEF Bytes
<1>2. Len(c) = 1
    OBVIOUS
<1>3. Len(z) = Len(c) + Len(h)
    BY <1>1, CatLen
<1>4. \A i \in 1..Len(h) : z[Len(c) + i] = h[i]
    BY <1>1, CatSecond
<1> HIDE DEF z, c
<1>5. Len(z) = 1 + Len(h) /\ \A i \in 1..Len(h) : z[1 + i] = h[i]
    BY <1>2, <1>3, <1>4
<1>6. Len(h) \in Nat /\ (Len(h) = 0 <=> h = << >>)
    BY <1>1
<1>7. z # << >>
    <2>1. Len(z) # 0
        BY <1>5, <1>6
    <2> QED BY <2>1
<1>8. Tail(z) \in Seq(Byte) /\ Len(Tail(z)) = Len(h)
      /\ \A i \in 1..Len(h) : Tail(z)[i] = h[i]
    <2>1. Tail(z) \in Seq(Byte) /\ Len(Tail(z)) = Len(z) - 1
        BY <1>1, <1>7
    <2>2. \A i \in 1..(Len(z) - 1) : Tail(z)[i] = z[i + 1]
        BY <1>1, <1>7
    <2> QED BY <1>5, <1>6, <2>1, <2>2
<1>9. Tail(z) = h
    BY <1>1, <1>8, SeqEqual
<1>10. Len(z) < 2 <=> h = << >>
    BY <1>5, <1>6
<1> QED BY <1>1, <1>9, <1>10 DEF z, c

(* The byte that begins a frame ends what was left of the one before.      *)
LEMMA DecodesFend ==
    ASSUME NEW s, NEW dg \in Seq(Bytes), NEW g \in Nat, Decodes(s, dg, g)
    PROVE  Between(PeerByte(s, FEND), dg, g)
<1>1. PICK o \in Seq(Bytes) : Peered(s, dg, g, o) /\ Explained(dg, o, g)
    BY DEF Decodes
<1>2. PICK e \in Bytes : e = << >>
    BY Cat
<1>3. ASSUME PeerByte(s, FEND) = At(e, o)
      PROVE  Between(PeerByte(s, FEND), dg, g)
    BY <1>1, <1>2, <1>3 DEF Between
<1>4. CASE s = At(<< >>, o)
    <2>1. PeerByte(At(e, o), FEND)
          = At(<< >>, IF Len(e) < 2 THEN o ELSE Append(o, Tail(e)))
        BY AtEnds
    <2>2. Len(e) < 2
        BY <1>2
    <2> QED BY <1>2, <1>3, <1>4, <2>1, <2>2
<1>5. CASE g < Len(dg) /\ \E h \in Bytes : /\ IsPrefix(h, dg[g + 1])
                                          /\ Holds(s, <<Data0>>, h, o)
    <2>1. PICK h \in Bytes : IsPrefix(h, dg[g + 1]) /\ Holds(s, <<Data0>>, h, o)
        BY <1>5
    <2> DEFINE f == <<Data0>> \o h
    <2>2. s \in {At(f, o), Escaping(f, o)}
        BY <2>1 DEF Holds
    <2>3. Tail(f) = h
        BY WithCommand
    <2> HIDE DEF f
    <2>4. CASE s = Escaping(f, o)
        BY <1>2, <1>3, <2>4, EscapingEnds
    <2>5. CASE s = At(f, o)
        <3>1. PeerByte(At(f, o), FEND)
              = At(<< >>, IF Len(f) < 2 THEN o ELSE Append(o, Tail(f)))
            BY AtEnds
        <3>2. CASE Len(f) < 2
            BY <1>2, <1>3, <2>5, <3>1, <3>2
        <3>3. CASE ~(Len(f) < 2)
            <4>1. Explained(dg, Append(o, h), g)
                BY <1>1, <1>5, <2>1, ExplainedMore
            <4>2. Append(o, h) \in Seq(Bytes)
                BY PacketSeq
            <4>3. PeerByte(s, FEND) = At(<< >>, Append(o, h))
                BY <2>3, <2>5, <3>1, <3>3
            <4> QED BY <4>1, <4>2, <4>3 DEF Between
        <3> QED BY <3>2, <3>3
    <2> QED BY <2>2, <2>4, <2>5
<1> QED BY <1>1, <1>4, <1>5 DEF Peered

LEMMA PeerBegins ==
    ASSUME NEW s, NEW z, PeerByte(s, FEND) = At(<< >>, z)
    PROVE  /\ PeerRun(s, <<FEND>>) = At(<< >>, z)
           /\ PeerRun(s, <<FEND, Data0>>) = At(<<Data0>>, z)
<1>1. PeerRun(s, <<FEND>>) = PeerByte(s, FEND)
    BY NamedBytes, PeerUnfold
<1>2. PeerRun(s, <<FEND, Data0>>) = PeerRun(PeerRun(s, <<FEND>>), <<Data0>>)
    <2>1. <<FEND, Data0>> = <<FEND>> \o <<Data0>> /\ <<FEND>> \in Bytes /\ <<Data0>> \in Bytes
        BY NamedBytes, Cat
    <2>2. PeerRun(s, <<FEND>> \o <<Data0>>) = PeerRun(PeerRun(s, <<FEND>>), <<Data0>>)
        BY <2>1, PeerUnfold, Zenon
    <2> QED BY <2>1, <2>2
<1>3. PICK e \in Bytes : e = << >> /\ Append(e, Data0) = <<Data0>>
    <2>1. << >> \in Bytes /\ Append(<< >>, Data0) = <<Data0>>
        BY Cat
    <2> QED BY <2>1
<1>4. PeerRun(At(e, z), <<Data0>>) = PeerByte(At(e, z), Data0)
    BY NamedBytes, PeerUnfold, Zenon
<1>5. PeerByte(At(e, z), Data0) = At(Append(e, Data0), z)
    <2>1. Data0 \notin {FEND, FESC}
        BY DEF Data0, FEND, FESC
    <2> QED BY <2>1, PeerRules, Zenon
<1> QED BY <1>1, <1>2, <1>3, <1>4, <1>5

(* A whole frame adds its packet.                                          *)
LEMMA PeerFrame ==
    ASSUME NEW s, NEW z, PeerByte(s, FEND) = At(<< >>, z), NEW d \in Bytes, d # << >>
    PROVE  PeerRun(s, Framed(d)) = At(<< >>, Append(z, d))
<1> DEFINE E == Escaped(d)
           a == <<FEND, Data0>>
           f == <<FEND>>
           c == <<Data0>>
<1>1. E \in Bytes /\ a \in Bytes /\ f \in Bytes /\ c \in Bytes /\ E \o f \in Bytes
    BY FramedType, Cat
<1>2. Framed(d) = a \o (E \o f)
    <2>1. (a \o E) \o f = a \o (E \o f)
        <3> HIDE DEF a, f, E
        <3> QED BY <1>1, Assoc
    <2> QED BY <2>1 DEF Framed
<1>3. PeerRun(s, a) = At(c, z)
    BY PeerBegins
<1>4. PeerRun(At(c, z), E \o f)
      = At(<< >>, IF Len(c \o d) < 2 THEN z ELSE Append(z, Tail(c \o d)))
    <2> HIDE DEF c
    <2> QED BY <1>1, PeerEnded DEF E, f
<1>5. Tail(c \o d) = d /\ ~(Len(c \o d) < 2)
    BY WithCommand
<1> HIDE DEF a, c, E, f
<1>6. PeerRun(s, a \o (E \o f)) = PeerRun(PeerRun(s, a), E \o f)
    BY <1>1, PeerUnfold
<1> QED BY <1>2, <1>3, <1>4, <1>5, <1>6

LEMMA DecodesFrame ==
    ASSUME NEW s, NEW dg \in Seq(Bytes), NEW g \in Nat, Decodes(s, dg, g), g < Len(dg),
           dg[g + 1] # << >>
    PROVE  Decodes(PeerRun(s, Framed(dg[g + 1])), dg, g + 1)
<1>1. PICK z \in Seq(Bytes) : PeerByte(s, FEND) = At(<< >>, z) /\ Explained(dg, z, g)
    BY DecodesFend DEF Between
<1> DEFINE d == dg[g + 1]
<1>2. d \in Bytes
    OBVIOUS
<1>3. PeerRun(s, Framed(d)) = At(<< >>, Append(z, d))
    BY <1>1, <1>2, PeerFrame
<1>4. IsPrefix(d, d)
    <2>1. d \in Seq(Byte) /\ << >> \in Seq(Byte) /\ d \o << >> = d
        BY <1>2, Cat DEF Bytes
    <2> HIDE DEF d
    <2>2. IsPrefix(d, d \o << >>)
        BY <2>1, Reader!PrefixOfConcat DEF IsPrefix, Reader!IsPrefix
    <2> QED BY <2>1, <2>2
<1>5. Explained(dg, Append(z, d), g + 1)
    BY <1>1, <1>2, <1>4, ExplainedMore
<1>6. Append(z, d) \in Seq(Bytes)
    BY <1>2, PacketSeq
<1>7. Between(PeerRun(s, Framed(d)), dg, g + 1)
    BY <1>3, <1>5, <1>6 DEF Between
<1> QED BY <1>7, BetweenDecodes

LEMMA DecodesPart ==
    ASSUME NEW s, NEW dg \in Seq(Bytes), NEW g \in Nat, Decodes(s, dg, g), g < Len(dg),
           NEW t \in Bytes, PartOf(t, dg[g + 1])
    PROVE  Decodes(PeerRun(s, t), dg, g)
<1>1. PICK z \in Seq(Bytes) : PeerByte(s, FEND) = At(<< >>, z) /\ Explained(dg, z, g)
    BY DecodesFend DEF Between
<1> DEFINE d == dg[g + 1]
<1>2. d \in Bytes
    OBVIOUS
<1> HIDE DEF d
<1>3. CASE t = << >>
    BY <1>3, PeerUnfold
<1>4. CASE t = <<FEND>>
    <2>1. PeerRun(s, <<FEND>>) = At(<< >>, z)
        BY <1>1, PeerBegins
    <2>2. Between(PeerRun(s, t), dg, g)
        BY <1>1, <1>4, <2>1 DEF Between
    <2> QED BY <2>2, BetweenDecodes
<1>5. CASE \E e, x \in Bytes : t = <<FEND, Data0>> \o e /\ Escaped(d) = e \o x
    <2> DEFINE a == <<FEND, Data0>>
               c == <<Data0>>
    <2>1. PICK e \in Bytes, x \in Bytes : t = a \o e /\ Escaped(d) = e \o x
        BY <1>5
    <2>2. a \in Bytes /\ c \in Bytes
        BY <1>2, FramedType
    <2>3. PeerRun(s, a) = At(c, z)
        BY <1>1, PeerBegins
    <2> HIDE DEF a
    <2>4. PeerRun(s, a \o e) = PeerRun(PeerRun(s, a), e)
        BY <2>2, PeerUnfold
    <2>5. PICK h \in Bytes, y \in Bytes : d = h \o y /\ Holds(PeerRun(At(c, z), e), c, h, z)
        <3> HIDE DEF c
        <3> QED BY <1>2, <2>1, <2>2, EscapedPart
    <2>6. IsPrefix(h, d)
        <3>1. h \in Seq(Byte) /\ y \in Seq(Byte)
            BY DEF Bytes
        <3>2. IsPrefix(h, h \o y)
            BY <3>1, Reader!PrefixOfConcat DEF IsPrefix, Reader!IsPrefix
        <3> QED BY <2>5, <3>2
    <2>7. Holds(PeerRun(s, t), c, h, z)
        BY <2>1, <2>3, <2>4, <2>5
    <2>8. Peered(PeerRun(s, t), dg, g, z)
        BY <2>6, <2>7 DEF Peered, d
    <2> QED BY <1>1, <2>8 DEF Decodes
<1> QED BY <1>3, <1>4, <1>5 DEF PartOf, d

-----------------------------------------------------------------------------
(* The queue towards the pty: frames of the packets enqueued last.         *)
Queued(q, dg) ==
    /\ Len(q) <= Len(dg)
    /\ \A i \in 1..Len(q) : q[i] = Framed(dg[Len(dg) - Len(q) + i])

LEMMA QueuedMore ==
    ASSUME NEW q \in Seq(Bytes), NEW dg \in Seq(Bytes), NEW d \in Bytes, Queued(q, dg)
    PROVE  Queued(Append(q, Framed(d)), Append(dg, d))
<1> DEFINE b == Framed(d)
           x == Append(q, b)
           y == Append(dg, d)
           l == Len(q)
           m == Len(dg)
<1>1. b \in Bytes
    BY FramedType
<1> HIDE DEF b
<1>2. /\ Len(x) = l + 1 /\ x[l + 1] = b /\ l \in Nat
      /\ \A i \in 1..l : x[i] = q[i]
    BY <1>1
<1>3. /\ Len(y) = m + 1 /\ y[m + 1] = d /\ m \in Nat
      /\ \A i \in 1..m : y[i] = dg[i]
    OBVIOUS
<1> HIDE DEF x, y
<1>4. l <= m /\ \A i \in 1..l : q[i] = Framed(dg[m - l + i])
    BY DEF Queued
<1> HIDE DEF l, m
<1>5. ASSUME NEW i \in 1..(l + 1) PROVE x[i] = Framed(y[(m + 1) - (l + 1) + i])
    <2>1. (m + 1) - (l + 1) + i = m - l + i
        BY <1>2, <1>3
    <2>2. CASE i = l + 1
        <3>1. m - l + i = m + 1
            BY <1>2, <1>3, <2>2
        <3> QED BY <1>2, <1>3, <2>1, <2>2, <3>1 DEF b
    <2>3. CASE i # l + 1
        <3>1. i \in 1..l /\ m - l + i \in 1..m
            BY <1>2, <1>3, <1>4, <2>3
        <3> QED BY <1>2, <1>3, <1>4, <2>1, <3>1
    <2> QED BY <2>2, <2>3
<1>6. l + 1 <= m + 1
    BY <1>2, <1>3, <1>4
<1>7. Queued(x, y)
    BY <1>2, <1>3, <1>5, <1>6 DEF Queued
<1> QED BY <1>7 DEF x, y, b

LEMMA QueuedLess ==
    ASSUME NEW q \in Seq(Bytes), NEW dg \in Seq(Bytes), q # << >>, Queued(q, dg)
    PROVE  /\ Queued(Tail(q), dg) /\ Tail(q) \in Seq(Bytes)
           /\ Len(Tail(q)) = Len(q) - 1
           /\ Head(q) = Framed(dg[Len(dg) - Len(q) + 1])
           /\ Len(dg) - Len(q) < Len(dg)
           /\ Len(dg) - Len(q) \in Nat
<1> DEFINE l == Len(q)
           m == Len(dg)
           t == Tail(q)
<1>1. l \in Nat /\ m \in Nat /\ l # 0
    OBVIOUS
<1>2. t \in Seq(Bytes) /\ Len(t) = l - 1 /\ Head(q) = q[1]
    OBVIOUS
<1>3. \A i \in 1..(l - 1) : t[i] = q[i + 1]
    OBVIOUS
<1>4. l <= m /\ \A i \in 1..l : q[i] = Framed(dg[m - l + i])
    BY DEF Queued
<1> HIDE DEF l, m, t
<1>5. ASSUME NEW i \in 1..(l - 1) PROVE t[i] = Framed(dg[m - (l - 1) + i])
    <2>1. i + 1 \in 1..l /\ m - (l - 1) + i = m - l + (i + 1)
        BY <1>1
    <2> QED BY <1>3, <1>4, <2>1
<1>6. l - 1 <= m /\ 1 \in 1..l /\ m - l < m /\ m - l \in Nat
    BY <1>1, <1>4
<1>7. Queued(t, dg)
    BY <1>2, <1>5, <1>6 DEF Queued, m
<1> QED BY <1>2, <1>4, <1>6, <1>7 DEF l, m, t

LEMMA TruncatedType ==
    ASSUME NEW p \in Bytes, p # << >>
    PROVE  Truncated(p) \in Bytes /\ Truncated(p) # << >>
<1>1. p \in Seq(Byte) /\ Len(p) \in Nat /\ Len(p) # 0 /\ Mtu \in Nat /\ Mtu >= 1
    BY TunBytes DEF Bytes
<1> DEFINE n == Least(Mtu, Len(p))
<1>2. n \in 1..Len(p)
    BY <1>1 DEF Least
<1> HIDE DEF n
<1>3. SubSeq(p, 1, n) \in Seq(Byte) /\ Len(SubSeq(p, 1, n)) = n
    BY <1>1, <1>2
<1>4. SubSeq(p, 1, n) # << >>
    <2> DEFINE z == SubSeq(p, 1, n)
    <2> HIDE DEF z
    <2>1. Len(z) # 0
        BY <1>2, <1>3 DEF z
    <2>2. z # << >>
        BY <2>1
    <2> QED BY <2>2 DEF z
<1> QED BY <1>3, <1>4 DEF Truncated, n, Bytes

-----------------------------------------------------------------------------
(* The inductive invariant of the way from the socket to the pty.          *)
Written == Len(dgrams) - Len(ptyq)
Heard == PeerRun(PeerStart, ptyOut)

SockTyped ==
    /\ sockIn \in Seq(Bytes) /\ ptyq \in Seq(Bytes)
    /\ ptyOut \in Bytes /\ dgrams \in Seq(Bytes) /\ faults \in Nat

PtyReady ==
    /\ pc \in {"read1", "read2", "send1"} /\ 1 \in wfds => ptyq # << >>
    /\ pc = "read1" /\ 1 \in rfds => sockIn # << >>

PtyWritten ==
    /\ Decodes(Heard, dgrams, Written)
    /\ faults = 0 => Heard = At(<< >>, SubSeq(dgrams, 1, Written))

ToPtyInv ==
    /\ SockTyped
    /\ PtyReady
    /\ \A i \in 1..Len(dgrams) : dgrams[i] # << >>
    /\ Queued(ptyq, dgrams)
    /\ PtyWritten

LEMMA ToPtyInit == Init => ToPtyInv
<1> SUFFICES ASSUME Init PROVE ToPtyInv
    OBVIOUS
<1>1. << >> \in Seq(Bytes) /\ << >> \in Bytes /\ Len(<< >>) = 0
    BY Cat, PacketSeq
<1>2. SockTyped /\ PtyReady
    BY <1>1 DEF Init, SockTyped, PtyReady
<1>3. \A i \in 1..Len(dgrams) : dgrams[i] # << >>
    BY <1>1 DEF Init
<1>4. Queued(ptyq, dgrams) /\ Written = 0
    BY <1>1 DEF Init, Queued, Written
<1>5. Heard = At(<< >>, << >>)
    <2>1. PeerRun(PeerStart, << >>) = PeerStart
        BY PeerUnfold, Zenon
    <2> QED BY <2>1 DEF Init, Heard, PeerStart, At
<1>6. PtyWritten
    <2>1. Between(Heard, dgrams, Written)
        BY <1>1, <1>4, <1>5, ExplainedEmpty DEF Between, Init
    <2>2. SubSeq(dgrams, 1, Written) = << >>
        BY <1>1, <1>4 DEF Init
    <2> QED BY <1>5, <2>1, <2>2, BetweenDecodes DEF PtyWritten
<1> QED BY <1>2, <1>3, <1>4, <1>6 DEF ToPtyInv

LEMMA ToPtyRead ==
    ASSUME ToPtyInv, Read1
    PROVE  ToPtyInv'
<1>0. /\ sockIn \in Seq(Bytes) /\ ptyq \in Seq(Bytes) /\ ptyOut \in Bytes
      /\ dgrams \in Seq(Bytes) /\ faults \in Nat /\ Queued(ptyq, dgrams)
    BY DEF ToPtyInv, SockTyped
<1>1. pc = "read1" /\ pc' \in {"read2", "exit"} /\ UNCHANGED <<wfds, rfds, faults>>
    BY DEF Read1
<1>2. 1 \in wfds => ptyq # << >>
    BY <1>1 DEF ToPtyInv, PtyReady
<1>3. CASE UNCHANGED toPty /\ sockIn' \in Seq(Bytes)
    <2>1. Heard' = Heard /\ Written' = Written
        BY <1>3 DEF Heard, Written, toPty
    <2> QED BY <1>1, <1>2, <1>3, <2>1
            DEF ToPtyInv, SockTyped, PtyReady, PtyWritten, toPty
<1> DEFINE p == Head(sockIn)
           d == Truncated(p)
<1>4. CASE /\ 1 \in rfds /\ ~IsFailure(p) /\ sockIn' = Tail(sockIn)
           /\ ptyq' = Append(ptyq, Framed(d)) /\ dgrams' = Append(dgrams, d)
           /\ UNCHANGED ptyOut
    <2>1. sockIn # << >>
        BY <1>1, <1>4 DEF ToPtyInv, PtyReady
    <2>2. p \in Bytes /\ p # << >> /\ sockIn' \in Seq(Bytes)
        BY <1>0, <1>4, <2>1 DEF IsFailure
    <2> HIDE DEF p
    <2>3. d \in Bytes /\ d # << >>
        BY <2>2, TruncatedType
    <2> HIDE DEF d
    <2>4. Framed(d) \in Bytes
        BY <2>3, FramedType
    <2>5. ptyq' \in Seq(Bytes) /\ ptyq' # << >> /\ Len(ptyq') = Len(ptyq) + 1
        <3> DEFINE z == Framed(d)
                   x == Append(ptyq, z)
        <3> HIDE DEF z
        <3>1. x \in Seq(Bytes) /\ Len(x) = Len(ptyq) + 1 /\ Len(ptyq) \in Nat
            BY <1>0, <2>4 DEF z
        <3> HIDE DEF x
        <3>2. x # << >>
            BY <3>1
        <3> QED BY <1>4, <3>1, <3>2 DEF x, z
    <2>6. /\ dgrams' \in Seq(Bytes) /\ Len(dgrams') = Len(dgrams) + 1
          /\ Len(dgrams) \in Nat /\ dgrams'[Len(dgrams) + 1] = d
          /\ \A i \in 1..Len(dgrams) : dgrams'[i] = dgrams[i]
        BY <1>0, <1>4, <2>3
    <2>7. Queued(ptyq, dgrams)'
        <3>1. Queued(Append(ptyq, Framed(d)), Append(dgrams, d))
            BY <1>0, <2>3, QueuedMore
        <3> QED BY <1>4, <3>1
    <2>8. Heard' = Heard /\ Written' = Written /\ Written \in 0..Len(dgrams)
        <3>1. Len(ptyq) \in Nat /\ Len(ptyq) <= Len(dgrams)
            BY <1>0 DEF Queued
        <3>2. Heard' = Heard
            BY <1>4 DEF Heard
        <3> QED BY <2>5, <2>6, <3>1, <3>2 DEF Written
    <2>9. SockTyped' /\ PtyReady'
        BY <1>0, <1>1, <1>4, <2>2, <2>5, <2>6 DEF SockTyped, PtyReady
    <2>10. \A i \in 1..Len(dgrams') : dgrams'[i] # << >>
        <3>1. \A i \in 1..(Len(dgrams) + 1) : i \in 1..Len(dgrams) \/ i = Len(dgrams) + 1
            BY <2>6
        <3> QED BY <2>3, <2>6, <3>1 DEF ToPtyInv
    <2>11. Decodes(Heard, Append(dgrams, d), Written)
        <3>1. PICK o \in Seq(Bytes) :
                 Peered(Heard, dgrams, Written, o) /\ Explained(dgrams, o, Written)
            BY DEF ToPtyInv, PtyWritten, Decodes
        <3>2. Explained(Append(dgrams, d), o, Written)
            BY <1>0, <2>3, <2>8, <3>1, ExplainedQueued
        <3>3. Peered(Heard, dgrams', Written, o)
            <4>1. CASE Heard = At(<< >>, o)
                BY <4>1 DEF Peered
            <4>2. CASE Heard # At(<< >>, o)
                <5>1. Written < Len(dgrams) /\ \E h \in Bytes :
                         IsPrefix(h, dgrams[Written + 1]) /\ Holds(Heard, <<Data0>>, h, o)
                    BY <3>1, <4>2 DEF Peered
                <5>2. Written < Len(dgrams') /\ dgrams'[Written + 1] = dgrams[Written + 1]
                    BY <2>6, <2>8, <5>1
                <5> QED BY <5>1, <5>2 DEF Peered
            <4> QED BY <4>1, <4>2
        <3> QED BY <1>4, <3>2, <3>3 DEF Decodes
    <2>12. SubSeq(dgrams', 1, Written) = SubSeq(dgrams, 1, Written)
        <3> DEFINE w == Written
        <3> HIDE DEF w
        <3>1. w \in 0..Len(dgrams)
            BY <2>8 DEF w
        <3>2. SubSeq(Append(dgrams, d), 1, w) = SubSeq(dgrams, 1, w)
            BY <1>0, <2>3, <3>1
        <3> QED BY <1>4, <3>2 DEF w
    <2>13. PtyWritten'
        <3>1. Decodes(Heard, dgrams', Written)
            BY <1>4, <2>11
        <3>2. Decodes(Heard', dgrams', Written')
            BY <2>8, <3>1
        <3>3. faults' = 0 => Heard' = At(<< >>, SubSeq(dgrams', 1, Written'))
            BY <1>1, <2>8, <2>12 DEF ToPtyInv, PtyWritten
        <3> QED BY <3>2, <3>3 DEF PtyWritten
    <2> QED BY <2>7, <2>9, <2>10, <2>13 DEF ToPtyInv
<1>5. 1 \in rfds => sockIn # << >>
    BY <1>1 DEF ToPtyInv, PtyReady
<1>6. CASE 1 \notin rfds
    BY <1>0, <1>3, <1>6 DEF Read1
<1>7. CASE 1 \in rfds /\ IsFailure(p)
    <2>1. Tail(sockIn) \in Seq(Bytes)
        BY <1>0, <1>5, <1>7
    <2> QED BY <1>3, <1>7, <2>1 DEF Read1
<1>8. CASE 1 \in rfds /\ ~IsFailure(p)
    BY <1>4, <1>8 DEF Read1
<1> QED BY <1>6, <1>7, <1>8

LEMMA ToPtySend ==
    ASSUME ToPtyInv, Send1
    PROVE  ToPtyInv'
<1>0. /\ sockIn \in Seq(Bytes) /\ ptyq \in Seq(Bytes) /\ ptyOut \in Bytes
      /\ dgrams \in Seq(Bytes) /\ faults \in Nat /\ Queued(ptyq, dgrams)
    BY DEF ToPtyInv, SockTyped
<1>1. /\ pc = "send1" /\ pc' = "send2" /\ UNCHANGED <<wfds, rfds, sockIn, dgrams>>
    BY DEF Send1
<1>2. PtyReady'
    BY <1>1 DEF PtyReady
<1>3. CASE UNCHANGED <<ptyOut, ptyq, faults>>
    <2>1. Heard' = Heard /\ Written' = Written
        BY <1>1, <1>3 DEF Heard, Written
    <2> QED BY <1>1, <1>2, <1>3, <2>1 DEF ToPtyInv, SockTyped, PtyWritten
<1>4. CASE 1 \in wfds
    <2> DEFINE w == Written
               d == dgrams[w + 1]
               b == Head(ptyq)
    <2>1. ptyq # << >>
        BY <1>1, <1>4 DEF ToPtyInv, PtyReady
    <2>2. /\ Queued(Tail(ptyq), dgrams) /\ Tail(ptyq) \in Seq(Bytes)
          /\ Len(Tail(ptyq)) = Len(ptyq) - 1
          /\ b = Framed(d) /\ w < Len(dgrams) /\ w \in Nat
        BY <1>0, <2>1, QueuedLess DEF Written
    <2>3. /\ Decodes(Heard, dgrams, w)
          /\ faults = 0 => Heard = At(<< >>, SubSeq(dgrams, 1, w))
          /\ \A i \in 1..Len(dgrams) : dgrams[i] # << >>
        BY DEF ToPtyInv, PtyWritten
    <2>4. w + 1 \in 1..Len(dgrams) /\ Len(dgrams) \in Nat /\ Len(ptyq) \in Nat
        BY <1>0, <2>2
    <2>w. w = Len(dgrams) - Len(ptyq)
        BY DEF Written
    <2>5. d \in Bytes /\ d # << >> /\ b \in Bytes
        <3> HIDE DEF w
        <3>1. d \in Bytes /\ d # << >>
            BY <1>0, <2>3, <2>4
        <3> HIDE DEF d
        <3> QED BY <2>2, <3>1, FramedType
    <2> HIDE DEF w, d, b
    <2>6. CASE ptyOut' = ptyOut \o b /\ ptyq' = Tail(ptyq) /\ UNCHANGED faults
        <3>1. Written' = w + 1
            <4>1. Len(ptyq') = Len(ptyq) - 1
                BY <2>2, <2>6
            <4> QED BY <1>1, <2>4, <2>w, <4>1 DEF Written
        <3>2. Heard' = PeerRun(Heard, b) /\ ptyOut' \in Bytes
            <4>1. PeerRun(PeerStart, ptyOut \o b) = PeerRun(PeerRun(PeerStart, ptyOut), b)
                BY <1>0, <2>5, PeerUnfold
            <4>2. ptyOut \o b \in Bytes
                BY <1>0, <2>5, Cat
            <4> QED BY <2>6, <4>1, <4>2 DEF Heard
        <3>3. Decodes(PeerRun(Heard, Framed(d)), dgrams, w + 1)
            BY <1>0, <2>2, <2>3, <2>5, DecodesFrame DEF d
        <3>4. ASSUME faults = 0
              PROVE  PeerRun(Heard, Framed(d)) = At(<< >>, SubSeq(dgrams, 1, w + 1))
            <4> DEFINE z == SubSeq(dgrams, 1, w)
            <4>1. SubSeq(dgrams, 1, w + 1) = Append(z, d)
                BY <1>0, <2>2, <2>4 DEF d
            <4> HIDE DEF z
            <4>2. Heard = At(<< >>, z)
                BY <2>3, <3>4 DEF z
            <4>3. PeerByte(Heard, FEND) = At(<< >>, z)
                <5>1. \A e : e = << >> => PeerByte(At(e, z), FEND) = At(e, z)
                    <6> SUFFICES ASSUME NEW e, e = << >>
                                 PROVE  PeerByte(At(e, z), FEND) = At(e, z)
                        OBVIOUS
                    <6>1. PeerByte(At(e, z), FEND)
                          = At(<< >>, IF Len(e) < 2 THEN z ELSE Append(z, Tail(e)))
                        BY AtEnds
                    <6>2. Len(e) < 2
                        OBVIOUS
                    <6> QED BY <6>1, <6>2
                <5> QED BY <4>2, <5>1, Zenon
            <4>4. PeerRun(Heard, Framed(d)) = At(<< >>, Append(z, d))
                BY <2>5, <4>3, PeerFrame
            <4> QED BY <4>1, <4>4
        <3>5. PtyWritten'
            BY <1>1, <2>2, <2>6, <3>1, <3>2, <3>3, <3>4 DEF PtyWritten
        <3> QED BY <1>0, <1>1, <1>2, <2>2, <2>3, <2>6, <3>2, <3>5 DEF ToPtyInv, SockTyped
    <2>7. CASE /\ faults' = faults + 1
               /\ \E n \in 0..(Len(b) - 1) : ptyOut' = ptyOut \o SubSeq(b, 1, n)
               /\ ptyq' = ptyq
        <3>1. PICK n \in 0..(Len(b) - 1) : ptyOut' = ptyOut \o SubSeq(b, 1, n)
            BY <2>7
        <3> DEFINE t == SubSeq(b, 1, n)
                   r == SubSeq(b, n + 1, Len(b))
        <3>2. t \in Bytes /\ r \in Bytes /\ b = t \o r /\ r # << >>
            <4>1. b \in Seq(Byte)
                BY <2>5 DEF Bytes
            <4>2. t \in Seq(Byte) /\ r \in Seq(Byte)
                BY <4>1
            <4>3. b = t \o r
                BY <4>1
            <4>4. Len(r) # 0
                BY <4>1
            <4> HIDE DEF r
            <4>5. r # << >>
                BY <4>4
            <4> QED BY <4>2, <4>3, <4>5 DEF Bytes
        <3> HIDE DEF t, r
        <3>3. PartOf(t, d)
            <4>1. Framed(d) = t \o r
                BY <2>2, <3>2
            <4> QED BY <2>5, <3>2, <4>1, PartOfFrame
        <3>4. Decodes(PeerRun(Heard, t), dgrams, w)
            BY <1>0, <2>2, <2>3, <3>2, <3>3, DecodesPart DEF d
        <3>5. Heard' = PeerRun(Heard, t) /\ ptyOut' \in Bytes
            <4>1. PeerRun(PeerStart, ptyOut \o t) = PeerRun(PeerRun(PeerStart, ptyOut), t)
                BY <1>0, <3>2, PeerUnfold
            <4>2. ptyOut \o t \in Bytes
                BY <1>0, <3>2, Cat
            <4> QED BY <3>1, <4>1, <4>2 DEF Heard, t
        <3>6. Written' = w
            BY <1>1, <2>7, <2>w DEF Written
        <3>7. faults' \in Nat /\ faults' # 0
            BY <1>0, <2>7
        <3>8. PtyWritten'
            BY <1>1, <3>4, <3>5, <3>6, <3>7 DEF PtyWritten
        <3> QED BY <1>0, <1>1, <1>2, <2>3, <2>7, <3>5, <3>7, <3>8 DEF ToPtyInv, SockTyped
    <2> QED BY <1>4, <2>6, <2>7 DEF Send1, KeepHead, b
<1> QED BY <1>3, <1>4 DEF Send1

LEMMA ToPtyNext == ToPtyInv /\ [Next]_vars => ToPtyInv'
<1> SUFFICES ASSUME ToPtyInv, [Next]_vars PROVE ToPtyInv'
    OBVIOUS
<1>1. ASSUME UNCHANGED toPty, sockIn' \in Seq(Bytes), faults' \in Nat,
             faults' = 0 => faults = 0, PtyReady'
      PROVE  ToPtyInv'
    <2>1. Heard' = Heard /\ Written' = Written
        BY <1>1 DEF Heard, Written, toPty
    <2> QED BY <1>1, <2>1 DEF ToPtyInv, SockTyped, PtyWritten, toPty
<1>2. sockIn \in Seq(Bytes) /\ faults \in Nat
    BY DEF ToPtyInv, SockTyped
<1>3. ASSUME NEW p \in Packets, KernelSends(p) PROVE ToPtyInv'
    <2>1. PtyReady'
        BY <1>3 DEF KernelSends, ToPtyInv, PtyReady, loop, toPty
    <2> QED BY <1>1, <1>2, <1>3, <2>1 DEF KernelSends
<1>4. ASSUME NEW p \in Datagrams, PeerSends(p) PROVE ToPtyInv'
    <2>1. p \in Bytes
        BY TunBytes
    <2>2. sockIn' \in Seq(Bytes) /\ sockIn' # << >>
        <3>1. sockIn' = Append(sockIn, p)
            BY <1>4 DEF PeerSends
        <3>2. /\ Append(sockIn, p) \in Seq(Bytes) /\ Len(Append(sockIn, p)) = Len(sockIn) + 1
              /\ Len(sockIn) \in Nat
            BY <1>2, <2>1
        <3>3. Append(sockIn, p) # << >>
            BY <3>2, EmptySeq
        <3> QED BY <3>1, <3>2, <3>3
    <2>3. PtyReady'
        BY <1>4, <2>2 DEF PeerSends, ToPtyInv, PtyReady, loop, toPty
    <2> QED BY <1>1, <1>2, <1>4, <2>2, <2>3 DEF PeerSends
<1>5. CASE Select
    <2>1. wfds' \subseteq Pending /\ rfds' = Readable /\ UNCHANGED <<sockIn, toPty, faults>>
        BY <1>5 DEF Select
    <2>2. PtyReady'
        BY <2>1 DEF Pending, Readable, PtyReady, toPty
    <2> QED BY <1>1, <1>2, <2>1, <2>2
<1>6. CASE Read1
    BY <1>6, ToPtyRead
<1>7. CASE Read2
    <2>1. PtyReady'
        BY <1>7 DEF Read2, ToPtyInv, PtyReady, toPty
    <2> QED BY <1>1, <1>2, <1>7, <2>1 DEF Read2
<1>8. CASE Send1
    BY <1>8, ToPtySend
<1>9. CASE Send2
    <2>1. PtyReady'
        BY <1>9 DEF Send2, PtyReady
    <2>2. faults' = faults \/ faults' = faults + 1
        BY <1>9 DEF Send2
    <2>3. faults' \in Nat /\ (faults' = 0 => faults = 0)
        BY <1>2, <2>2
    <2> QED BY <1>1, <1>2, <1>9, <2>1, <2>3 DEF Send2
<1>10. CASE UNCHANGED vars
    <2>1. PtyReady'
        BY <1>10 DEF ToPtyInv, PtyReady, vars, toPty, loop
    <2> QED BY <1>1, <1>2, <1>10, <2>1 DEF vars
<1> QED BY <1>3, <1>4, <1>5, <1>6, <1>7, <1>8, <1>9, <1>10
        DEF Next, Environment, Program

LEMMA ToPtyCorrect == Spec => []ToPtyInv
BY ToPtyInit, ToPtyNext, PTL DEF Spec

LEMMA ToPtyShows == ToPtyInv => PtyStreamDecodes
<1> SUFFICES ASSUME ToPtyInv PROVE PtyStreamDecodes
    OBVIOUS
<1>1. PeerDecode(ptyOut) = Heard.out
    BY DEF PeerDecode, Heard, PeerRun
<1>2. \A f, o : At(f, o).out = o /\ Escaping(f, o).out = o
    BY DEF At, Escaping
<1>3. PICK o \in Seq(Bytes) : /\ Peered(Heard, dgrams, Written, o)
                              /\ Explained(dgrams, o, Written)
    BY DEF ToPtyInv, PtyWritten, Decodes
<1>4. Heard.out = o
    <2>1. CASE Heard = At(<< >>, o)
        BY <1>2, <2>1, Zenon
    <2>2. CASE \E h \in Bytes : Holds(Heard, <<Data0>>, h, o)
        <3>1. PICK h \in Bytes : Holds(Heard, <<Data0>>, h, o)
            BY <2>2
        <3> DEFINE f == <<Data0>> \o h
        <3>2. Heard = At(f, o) \/ Heard = Escaping(f, o)
            BY <3>1 DEF Holds
        <3> HIDE DEF f
        <3> QED BY <1>2, <3>2
    <2> QED BY <1>3, <2>1, <2>2 DEF Peered
<1>5. CASE faults = 0
    <2>1. Heard = At(<< >>, SubSeq(dgrams, 1, Written))
        BY <1>5 DEF ToPtyInv, PtyWritten
    <2>2. Heard.out = SubSeq(dgrams, 1, Written)
        BY <1>2, <2>1, Zenon
    <2> QED BY <1>1, <1>5, <2>2 DEF PtyStreamDecodes, Written
<1>6. CASE faults # 0
    BY <1>1, <1>3, <1>4, <1>6 DEF PtyStreamDecodes, Explained, Written
<1> QED BY <1>5, <1>6

(* No datagram is lost, damaged or overtaken on its way to the pty, and a  *)
(* write that is cut short adds no more than a beginning of the one that   *)
(* is written again (UDPIngress::read, KISSQueue::enqueue, Queue::send).   *)
THEOREM PtyDecodes == Spec => []PtyStreamDecodes
BY ToPtyCorrect, ToPtyShows, PTL
=============================================================================
