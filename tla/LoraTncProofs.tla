---------------------------- MODULE LoraTncProofs ---------------------------
(***************************************************************************)
(* What holds of loratnc for every traffic of packets, garbage, refusals   *)
(* and radio errors:                                                       *)
(*   - what program and chip know of each other when nothing is under way  *)
(*     (FlagIsTrue, DeafOnlyThen);                                         *)
(*   - from the chip to the pty (HeardArrives);                            *)
(*   - from the pty to send() (FramesReachSend);                           *)
(*   - from send() to the air (OnlyFramesOnAir).                           *)
(***************************************************************************)
EXTENDS LoraTnc, SequenceTheorems, TLAPS

-----------------------------------------------------------------------------
(* KISS frames: what is framed, a decoder of the protocol reads back, for  *)
(* every packet.                                                           *)

(* enqueue()'s escaping and the peer's decoder as folds over the bytes.    *)
Esc == INSTANCE FoldFacts WITH Op <- EscapeStep
Peer == INSTANCE FoldFacts WITH Op <- PeerByte

(* The named bytes are strings, but the provers do not know it.            *)
Byte == STRING \cup {FEND, FESC, TFEND, TFESC, Data0}
Bytes == Seq(Byte)

LEMMA Cat ==
    /\ << >> \in Bytes
    /\ \A b \in Byte : <<b>> \in Bytes
    /\ \A b, c \in Byte : <<b, c>> \in Bytes
    /\ \A s, t \in Bytes : s \o t \in Bytes
    /\ \A s \in Bytes : s \o << >> = s /\ << >> \o s = s
    /\ \A s \in Bytes : \A b \in Byte :
           Append(s, b) \in Bytes /\ Append(s, b) = s \o <<b>>
BY EmptySeq, ConcatProperties, ConcatEmptySeq, AppendProperties, AppendIsConcat DEF Bytes

LEMMA Assoc == \A s, t, u \in Bytes : (s \o t) \o u = s \o (t \o u)
<1> TAKE s, t, u \in Bytes
<1> QED BY ConcatAssociative DEF Bytes

LEMMA NamedBytes ==
    FEND \in Byte /\ FESC \in Byte /\ TFEND \in Byte /\ TFESC \in Byte /\ Data0 \in Byte
BY DEF Byte

LEMMA EscapedUnfold ==
    /\ Escaped(<< >>) = << >>
    /\ \A p \in Bytes : \A b \in Byte : Escaped(Append(p, b)) = Escaped(p) \o Escape(b)
<1>1. \A p : Escaped(p) = Esc!Fold(<< >>, p)
    BY DEF Escaped, Esc!Fold, FoldLeft, MapThenFoldSet, Esc!FoldLeft,
           Esc!MapThenFoldSet, Max, Esc!Max
<1>2. Escaped(<< >>) = << >>
    BY <1>1, Esc!FoldEmpty
<1>3. ASSUME NEW p \in Bytes, NEW b \in Byte
      PROVE  Escaped(Append(p, b)) = Escaped(p) \o Escape(b)
    <2>1. Esc!Fold(<< >>, Append(p, b)) = EscapeStep(Esc!Fold(<< >>, p), b)
        BY Esc!FoldAppend DEF Bytes
    <2> QED BY <1>1, <2>1 DEF EscapeStep
<1> QED BY <1>2, <1>3

LEMMA EscapeType == \A b \in Byte : Escape(b) \in Bytes
BY Cat, NamedBytes DEF Escape

LEMMA EscapedType == \A p \in Bytes : Escaped(p) \in Bytes
<1> DEFINE P == {p \in Bytes : Escaped(p) \in Bytes}
<1>1. << >> \in P
    BY EscapedUnfold, Cat
<1>2. \A p \in Seq(Byte) : p \in P => \A b \in Byte : Append(p, b) \in P
    BY EscapedUnfold, EscapeType, Cat DEF Bytes
<1> HIDE DEF P
<1>3. \A p \in Seq(Byte) : p \in P
    BY <1>1, <1>2, Esc!SeqInduction
<1> QED BY <1>3 DEF P, Bytes

-----------------------------------------------------------------------------
(* The decoder, from any of its states.                                    *)
PeerRun(s, bytes) == FoldLeft(PeerByte, s, bytes)

LEMMA PeerUnfold ==
    /\ \A s : PeerRun(s, << >>) = s
    /\ \A s : \A b \in Byte : PeerRun(s, <<b>>) = PeerByte(s, b)
    /\ \A s : \A t, u \in Bytes : PeerRun(s, t \o u) = PeerRun(PeerRun(s, t), u)
<1>1. \A s, t : PeerRun(s, t) = Peer!Fold(s, t)
    BY DEF PeerRun, Peer!Fold, FoldLeft, MapThenFoldSet, Peer!FoldLeft,
           Peer!MapThenFoldSet, Max, Peer!Max
<1>2. \A s : PeerRun(s, << >>) = s
    BY <1>1, Peer!FoldEmpty
<1>3. ASSUME NEW s, NEW b \in Byte PROVE PeerRun(s, <<b>>) = PeerByte(s, b)
    BY <1>1, Peer!FoldOne
<1>4. ASSUME NEW s, NEW t \in Bytes, NEW u \in Bytes
      PROVE  PeerRun(s, t \o u) = PeerRun(PeerRun(s, t), u)
    BY <1>1, Peer!FoldConcat DEF Bytes
<1> QED BY <1>2, <1>3, <1>4

(* Inside a frame of which f was read, and after an escape in it.          *)
At(f, o) == [frame |-> f, esc |-> FALSE, bad |-> FALSE, out |-> o]
Escaping(f, o) == [frame |-> f, esc |-> TRUE, bad |-> FALSE, out |-> o]

LEMMA PeerRules ==
    ASSUME NEW f, NEW o
    PROVE  /\ PeerByte(At(f, o), FEND)
              = At(<< >>, IF Len(f) < 2 THEN o ELSE Append(o, Tail(f)))
           /\ PeerByte(At(f, o), FESC) = Escaping(f, o)
           /\ \A b : b \notin {FEND, FESC} => PeerByte(At(f, o), b) = At(Append(f, b), o)
           /\ PeerByte(Escaping(f, o), TFEND) = At(Append(f, FEND), o)
           /\ PeerByte(Escaping(f, o), TFESC) = At(Append(f, FESC), o)
<1>1. PeerByte(At(f, o), FEND)
      = At(<< >>, IF Len(f) < 2 THEN o ELSE Append(o, Tail(f)))
    <2>1. PeerByte(At(f, o), FEND) = PeerEnd(At(f, o))
        BY DEF PeerByte, At, FEND, FESC
    <2>2. /\ At(f, o).frame = f /\ At(f, o).out = o
          /\ ~At(f, o).esc /\ ~At(f, o).bad
        BY DEF At
    <2>3. PeerEnd(At(f, o))
          = At(<< >>, IF Len(At(f, o).frame) < 2 THEN At(f, o).out
                      ELSE Append(At(f, o).out, Tail(At(f, o).frame)))
        BY <2>2, Zenon DEF PeerEnd, At
    <2> QED BY <2>1, <2>2, <2>3
<1>2. PeerByte(At(f, o), FESC) = Escaping(f, o)
    BY DEF PeerByte, At, Escaping, FEND, FESC
<1>3. ASSUME NEW b, b \notin {FEND, FESC} PROVE PeerByte(At(f, o), b) = At(Append(f, b), o)
    BY <1>3 DEF PeerByte, At
<1>4. PeerByte(Escaping(f, o), TFEND) = At(Append(f, FEND), o)
    BY DEF PeerByte, At, Escaping, FEND, TFEND
<1>5. PeerByte(Escaping(f, o), TFESC) = At(Append(f, FESC), o)
    BY DEF PeerByte, At, Escaping, FEND, TFEND, TFESC
<1> QED BY <1>1, <1>2, <1>3, <1>4, <1>5

LEMMA PeerEscapeByte ==
    ASSUME NEW f, NEW o, NEW b \in Byte
    PROVE  PeerRun(At(f, o), Escape(b)) = At(Append(f, b), o)
<1>1. ASSUME NEW c \in Byte
      PROVE  PeerRun(At(f, o), <<FESC, c>>) = PeerByte(Escaping(f, o), c)
    <2>1. <<FESC, c>> = <<FESC>> \o <<c>> /\ <<FESC>> \in Bytes /\ <<c>> \in Bytes
        BY NamedBytes, Cat
    <2>2. PeerRun(At(f, o), <<FESC>> \o <<c>>)
          = PeerRun(PeerRun(At(f, o), <<FESC>>), <<c>>)
        BY <2>1, PeerUnfold, Zenon
    <2>3. PeerRun(At(f, o), <<FESC>>) = Escaping(f, o)
        BY NamedBytes, PeerUnfold, PeerRules, Zenon
    <2>4. PeerRun(Escaping(f, o), <<c>>) = PeerByte(Escaping(f, o), c)
        BY PeerUnfold, Zenon
    <2> QED BY <2>1, <2>2, <2>3, <2>4, Zenon
<1>2. CASE b = FEND
    <2>1. Escape(b) = <<FESC, TFEND>>
        BY <1>2 DEF Escape, FEND, FESC
    <2> QED BY <1>1, <1>2, <2>1, NamedBytes, PeerRules, Zenon
<1>3. CASE b = FESC
    <2>1. Escape(b) = <<FESC, TFESC>>
        BY <1>3 DEF Escape, FEND, FESC
    <2> QED BY <1>1, <1>3, <2>1, NamedBytes, PeerRules, Zenon
<1>4. CASE b \notin {FEND, FESC}
    <2>1. Escape(b) = <<b>>
        BY <1>4 DEF Escape
    <2>2. PeerByte(At(f, o), b) = At(Append(f, b), o)
        BY <1>4, PeerRules, Zenon
    <2>3. PeerRun(At(f, o), <<b>>) = PeerByte(At(f, o), b)
        BY PeerUnfold, Zenon
    <2> QED BY <2>1, <2>2, <2>3, Zenon
<1> QED BY <1>2, <1>3, <1>4

(* The decoder undoes the escaping.                                        *)
LEMMA PeerEscaped ==
    ASSUME NEW f \in Bytes, NEW o
    PROVE  \A p \in Bytes : PeerRun(At(f, o), Escaped(p)) = At(f \o p, o)
<1> DEFINE P == {p \in Bytes : PeerRun(At(f, o), Escaped(p)) = At(f \o p, o)}
<1>1. << >> \in P
    <2>1. Escaped(<< >>) = << >> /\ f \o << >> = f /\ << >> \in Bytes
        BY EscapedUnfold, Cat
    <2>2. PeerRun(At(f, o), << >>) = At(f, o)
        BY PeerUnfold, Zenon
    <2> QED BY <2>1, <2>2
<1>2. \A p \in Seq(Byte) : p \in P => \A b \in Byte : Append(p, b) \in P
    <2> TAKE p \in Seq(Byte)
    <2> SUFFICES ASSUME p \in P, NEW b \in Byte PROVE Append(p, b) \in P
        OBVIOUS
    <2>1. /\ p \in Bytes /\ Append(p, b) \in Bytes /\ Append(p, b) = p \o <<b>>
          /\ <<b>> \in Bytes /\ f \o p \in Bytes
        BY Cat
    <2>2. Append(f \o p, b) = f \o Append(p, b)
        <3>1. Append(f \o p, b) = (f \o p) \o <<b>>
            BY <2>1, Cat
        <3>2. (f \o p) \o <<b>> = f \o (p \o <<b>>)
            BY <2>1, Assoc
        <3> QED BY <2>1, <3>1, <3>2
    <2>3. Escaped(Append(p, b)) = Escaped(p) \o Escape(b)
        BY <2>1, EscapedUnfold
    <2>4. Escaped(p) \in Bytes /\ Escape(b) \in Bytes
        BY <2>1, EscapedType, EscapeType
    <2>5. PeerRun(At(f, o), Escaped(p) \o Escape(b))
          = PeerRun(PeerRun(At(f, o), Escaped(p)), Escape(b))
        BY <2>4, PeerUnfold, Zenon
    <2>6. PeerRun(At(f, o), Escaped(p)) = At(f \o p, o)
        OBVIOUS
    <2>7. PeerRun(At(f \o p, o), Escape(b)) = At(Append(f \o p, b), o)
        BY PeerEscapeByte, Zenon
    <2>8. PeerRun(At(f, o), Escaped(Append(p, b))) = At(f \o Append(p, b), o)
        BY <2>2, <2>3, <2>5, <2>6, <2>7, Zenon
    <2> QED BY <2>1, <2>8
<1> HIDE DEF P
<1>3. \A p \in Seq(Byte) : p \in P
    BY <1>1, <1>2, Esc!SeqInduction
<1> QED BY <1>3 DEF P, Bytes

(* A frame that is escaped and ended adds its packet, without the command  *)
(* byte, unless there is no more than that byte.                           *)
LEMMA PeerEnded ==
    ASSUME NEW f \in Bytes, NEW p \in Bytes, NEW o
    PROVE  PeerRun(At(f, o), Escaped(p) \o <<FEND>>)
           = At(<< >>, IF Len(f \o p) < 2 THEN o ELSE Append(o, Tail(f \o p)))
<1>1. Escaped(p) \in Bytes /\ <<FEND>> \in Bytes
    BY EscapedType, NamedBytes, Cat
<1>2. PeerRun(At(f, o), Escaped(p) \o <<FEND>>)
      = PeerRun(PeerRun(At(f, o), Escaped(p)), <<FEND>>)
    BY <1>1, PeerUnfold, Zenon
<1>3. PeerRun(At(f, o), Escaped(p)) = At(f \o p, o)
    BY PeerEscaped
<1>4. PeerRun(At(f \o p, o), <<FEND>>) = PeerByte(At(f \o p, o), FEND)
    BY NamedBytes, PeerUnfold, Zenon
<1>5. PeerByte(At(f \o p, o), FEND)
      = At(<< >>, IF Len(f \o p) < 2 THEN o ELSE Append(o, Tail(f \o p)))
    BY PeerRules, Zenon
<1> QED BY <1>2, <1>3, <1>4, <1>5, Zenon

-----------------------------------------------------------------------------
(* What a command carries is a packet out of the parser; only that there   *)
(* is a sequence of commands matters here.                                 *)
IsSeq(s) == Len(s) \in Nat /\ s = [i \in 1..Len(s) |-> s[i]]

Lines ==
    {Line(k) : k \in {"ok", "busy", "value", "tx_ok", "err"}}
    \cup {RxLine(<<Data0>> \o p) : p \in Packets}

TypeInv ==
    /\ fromChip \in Seq(Lines) /\ swallowed \in Seq(Lines)
    /\ IsSeq(todo) /\ IsSeq(onAir)
    /\ asked \in BOOLEAN /\ sending \in BOOLEAN
    /\ mode \in {"idle", "rx", "tx"} /\ refusals \in Nat

(* No operation is begun before the last one's exchanges are over.         *)
LoopInv ==
    /\ pc \in {"poll", "kiss", "stik"} => todo = << >>
    /\ todo = << >> => ~asked

Awaiting == todo # << >> /\ asked /\ Head(todo).cmd # "line"

(* A line of the chip's own was, or is about to be, taken for a reply.     *)
Mistaken ==
    \/ swallowed # << >>
    \/ Awaiting /\ fromChip # << >> /\ ~IsReply(fromChip[1])

(* Until then, program and chip are in step: one command at a time, and at *)
(* most one line of the chip's own behind its reply.                       *)
InStep ==
    IF Awaiting
    THEN \/ toChip = <<Head(todo)>> /\ fromChip = << >>
         \/ /\ toChip = << >> /\ Len(fromChip) \in {1, 2}
            /\ IsReply(fromChip[1])
            /\ Len(fromChip) = 2 => ~IsReply(fromChip[2])
    ELSE /\ toChip = << >> /\ Len(fromChip) \in {0, 1}
         /\ Len(fromChip) = 1 => ~IsReply(fromChip[1])

(* The line of the chip's own that is not read yet.                        *)
OwnLine(kinds) ==
    /\ fromChip # << >> /\ ~IsReply(fromChip[Len(fromChip)])
    /\ fromChip[Len(fromChip)].kind \in kinds
Own == {"rx", "tx_ok", "err"}

(* The chip accepted a transmission and the program does not know yet.     *)
Accepted ==
    /\ Awaiting /\ toChip = << >> /\ fromChip # << >>
    /\ Head(todo).cmd = "tx" /\ fromChip[1].kind = "ok"

FlagInv ==
    IF onAir = << >> THEN ~sending /\ ~Accepted
    ELSE sending \/ Accepted <=> mode = "tx" \/ OwnLine({"tx_ok"})

(* Every operation but the wait for a line ends by that.                   *)
LastInv ==
    todo # << >> => \/ todo[Len(todo)].cmd \in {"rx", "tx"}
                    \/ Len(todo) = 1 /\ todo[1].cmd = "line"

(* An idle chip is about to be asked to listen or to transmit, or has a    *)
(* line for the program, which answers it by that.                         *)
ListenInv ==
    refusals = 0 /\ mode = "idle" =>
        \/ OwnLine(Own)
        \/ /\ todo # << >> /\ todo[Len(todo)].cmd \in {"rx", "tx"}
           /\ ~(Len(todo) = 1 /\ asked /\ toChip = << >>)

InStepInv ==
    ~Mistaken => /\ InStep
                 /\ OwnLine(Own) => mode = "idle"
                 /\ FlagInv
                 /\ LastInv
                 /\ ListenInv

IInv == TypeInv /\ LoopInv /\ InStepInv

-----------------------------------------------------------------------------
LEMMA IsSeqIsSeq ==
    ASSUME NEW s, IsSeq(s)
    PROVE  s \in Seq({s[i] : i \in 1..Len(s)}) /\ Len(s) \in Nat
BY DEF IsSeq

LEMMA SeqIsIsSeq ==
    ASSUME NEW S, NEW s \in Seq(S)
    PROVE  IsSeq(s)
BY DEF IsSeq

LEMMA IsSeqTail ==
    ASSUME NEW s, IsSeq(s), s # << >>
    PROVE  /\ Len(s) \in Nat /\ Len(s) >= 1 /\ Head(s) = s[1]
           /\ IsSeq(Tail(s)) /\ Len(Tail(s)) = Len(s) - 1
           /\ Tail(s) # << >> <=> Len(s) # 1
           /\ Tail(s) # << >> => Tail(s)[Len(s) - 1] = s[Len(s)]
<1> DEFINE S == {s[i] : i \in 1..Len(s)}
<1>1. s \in Seq(S) /\ Len(s) \in Nat
    BY IsSeqIsSeq
<1> HIDE DEF S
<1>2. Len(s) >= 1 /\ Head(s) = s[1]
    BY <1>1
<1>3. Tail(s) \in Seq(S) /\ Len(Tail(s)) = Len(s) - 1
      /\ \A i \in 1..(Len(s) - 1) : Tail(s)[i] = s[i + 1]
    BY <1>1
<1>4. Tail(s) # << >> <=> Len(s) # 1
    BY <1>1, <1>2, <1>3, EmptySeq
<1>5. Tail(s) # << >> => Tail(s)[Len(s) - 1] = s[Len(s)]
    BY <1>1, <1>2, <1>3, <1>4
<1> QED BY <1>1, <1>2, <1>3, <1>4, <1>5, SeqIsIsSeq

LEMMA IsSeqAppend ==
    ASSUME NEW s, NEW e, IsSeq(s)
    PROVE  IsSeq(Append(s, e)) /\ Append(s, e) # << >>
<1> DEFINE R == {s[i] : i \in 1..Len(s)}
           S == R \cup {e}
<1>1. s \in Seq(R)
    BY IsSeqIsSeq
<1> HIDE DEF R
<1>2. s \in Seq(S) /\ e \in S
    BY <1>1, SeqMonotonic
<1> HIDE DEF S
<1>3. Append(s, e) \in Seq(S) /\ Len(Append(s, e)) = Len(s) + 1 /\ Len(s) \in Nat
    BY <1>2
<1>4. Append(s, e) # << >>
    BY <1>3, EmptySeq
<1> QED BY <1>3, <1>4, SeqIsIsSeq

LEMMA IsSeqTuple ==
    ASSUME NEW a, NEW b, NEW c
    PROVE  IsSeq(<< >>) /\ IsSeq(<<a>>) /\ IsSeq(<<a, b>>) /\ IsSeq(<<a, b, c>>)
<1>1. /\ << >> \in Seq({a, b, c}) /\ <<a>> \in Seq({a, b, c})
      /\ <<a, b>> \in Seq({a, b, c}) /\ <<a, b, c>> \in Seq({a, b, c})
    OBVIOUS
<1> QED BY <1>1, SeqIsIsSeq

LEMMA SixIsSeq ==
    ASSUME NEW a, NEW b, NEW c, NEW d, NEW e, NEW f
    PROVE  LET s == <<a, b, c, d, e, f>> IN IsSeq(s) /\ Len(s) = 6 /\ s[6] = f
<1>1. <<a, b, c, d, e, f>> \in Seq({a, b, c, d, e, f})
    OBVIOUS
<1> QED BY <1>1, SeqIsIsSeq

(* A line is a reply or one of the chip's own.                             *)
LEMMA LineKinds ==
    /\ \A l \in Lines : IsReply(l) <=> l.kind \notin Own
    /\ \A k \in {"ok", "busy", "value", "tx_ok", "err"} :
          Line(k) \in Lines /\ Line(k).kind = k
    /\ \A p \in Packets :
          RxLine(<<Data0>> \o p) \in Lines /\ RxLine(<<Data0>> \o p).kind = "rx"
<1>1. \A k \in {"ok", "busy", "value", "tx_ok", "err"} :
          Line(k) \in Lines /\ Line(k).kind = k
    BY DEF Lines, Line
<1>2. \A p \in Packets :
          RxLine(<<Data0>> \o p) \in Lines /\ RxLine(<<Data0>> \o p).kind = "rx"
    <2> TAKE p \in Packets
    <2>1. RxLine(<<Data0>> \o p) \in Lines
        BY DEF Lines
    <2>2. RxLine(<<Data0>> \o p).kind = "rx"
        BY DEF RxLine
    <2> QED BY <2>1, <2>2
<1>3. ASSUME NEW l \in Lines
      PROVE  l.kind \in {"ok", "busy", "value", "tx_ok", "err", "rx"}
    <2>1. CASE l \in {Line(k) : k \in {"ok", "busy", "value", "tx_ok", "err"}}
        BY <2>1 DEF Line
    <2>2. CASE l \in {RxLine(<<Data0>> \o p) : p \in Packets}
        BY <1>2, <2>2
    <2> QED BY <2>1, <2>2 DEF Lines
<1> QED BY <1>1, <1>2, <1>3 DEF IsReply, Own

-----------------------------------------------------------------------------
exchanged ==
    <<todo, asked, sending, toChip, fromChip, mode, onAir, refusals, swallowed>>

LEMMA UnrelatedKeeps ==
    ASSUME TypeInv, InStepInv, UNCHANGED exchanged
    PROVE  TypeInv' /\ InStepInv'
BY DEF exchanged, TypeInv, InStepInv, Mistaken, Awaiting, InStep, OwnLine,
       FlagInv, Accepted, LastInv, ListenInv

LEMMA InitIInv == Init => IInv
<1> SUFFICES ASSUME Init PROVE IInv
    OBVIOUS
<1>1. Len(Setup) = 6 /\ Setup # << >> /\ Setup[6].cmd = "rx" /\ IsSeq(Setup)
    <2>1. /\ IsSeq(Setup) /\ Len(Setup) = 6 /\ Setup[6] = Cmd("rx")
        BY SixIsSeq DEF Setup
    <2>2. Setup # << >>
        BY <2>1, EmptySeq
    <2> QED BY <2>1, <2>2 DEF Cmd
<1>2. TypeInv
    <2>1. << >> \in Seq(Lines) /\ IsSeq(<< >>)
        BY EmptySeq, SeqIsIsSeq
    <2>2. sending \in BOOLEAN /\ asked \in BOOLEAN /\ refusals \in Nat
        BY DEF Init
    <2> QED BY <1>1, <2>1, <2>2 DEF TypeInv, Init
<1>3. LoopInv
    BY <1>1 DEF LoopInv, Init
<1>4. InStepInv
    BY <1>1 DEF Init, InStepInv, InStep, Awaiting, OwnLine, FlagInv,
                    Accepted, LastInv, ListenInv
<1> QED BY <1>2, <1>3, <1>4 DEF IInv

(* The chip writes a line of its own and is idle afterwards.               *)
LEMMA OwnLineKeeps ==
    ASSUME TypeInv, InStepInv, NEW l \in Lines, ~IsReply(l),
           fromChip' = Append(fromChip, l), mode # "idle", mode' = "idle",
           mode = "tx" <=> l.kind = "tx_ok",
           UNCHANGED <<todo, asked, sending, toChip, onAir, refusals, swallowed>>
    PROVE  TypeInv' /\ InStepInv'
<1>1. fromChip \in Seq(Lines) /\ Len(fromChip) \in Nat
    BY DEF TypeInv
<1>2. /\ fromChip' \in Seq(Lines) /\ Len(fromChip') = Len(fromChip) + 1
      /\ fromChip' # << >> /\ fromChip'[Len(fromChip) + 1] = l
      /\ \A i \in 1..Len(fromChip) : fromChip'[i] = fromChip[i]
    BY <1>1
<1>3. TypeInv'
    BY <1>2 DEF TypeInv
<1>4. Awaiting' = Awaiting
    BY DEF Awaiting
<1>5. ASSUME ~Mistaken'
      PROVE  /\ InStep' /\ (OwnLine(Own) => mode = "idle")'
             /\ FlagInv' /\ LastInv' /\ ListenInv'
    <2>1. ~Mistaken
        <3>1. fromChip # << >> => fromChip'[1] = fromChip[1]
            BY <1>1, <1>2
        <3> QED BY <1>2, <1>4, <1>5, <3>1 DEF Mistaken
    <2>2. InStep /\ ~OwnLine(Own) /\ FlagInv /\ LastInv
        BY <2>1 DEF InStepInv
    <2>3. \A K : OwnLine(K)' <=> l.kind \in K
        BY <1>2 DEF OwnLine
    <2>4. l.kind \in Own
        BY LineKinds
    <2>5. CASE Awaiting
        <3>1. fromChip # << >>
            BY <1>2, <1>4, <1>5, <1>1, <2>5 DEF Mistaken
        <3>2. toChip = << >> /\ Len(fromChip) = 1 /\ IsReply(fromChip[1])
            <4>1. /\ toChip = << >> /\ Len(fromChip) \in {1, 2}
                  /\ IsReply(fromChip[1])
                  /\ Len(fromChip) = 2 => ~IsReply(fromChip[2])
                BY <2>2, <2>5, <3>1 DEF InStep
            <4>2. Len(fromChip) # 2
                <5> SUFFICES ASSUME Len(fromChip) = 2 PROVE FALSE
                    OBVIOUS
                <5>1. fromChip[2] \in Lines
                    BY <1>1
                <5> QED BY <2>2, <3>1, <4>1, <5>1, LineKinds DEF OwnLine
            <4> QED BY <4>1, <4>2
        <3>3. fromChip'[1] = fromChip[1] /\ Len(fromChip') = 2 /\ fromChip'[2] = l
            BY <1>2, <3>2
        <3>4. InStep'
            BY <1>4, <2>5, <3>2, <3>3 DEF InStep
        <3>5. Accepted' <=> Accepted
            BY <1>2, <1>4, <3>1, <3>3 DEF Accepted
        <3>6. ~OwnLine({"tx_ok"})
            BY <2>2 DEF OwnLine, Own
        <3>7. FlagInv'
            BY <2>2, <2>3, <3>5, <3>6 DEF FlagInv
        <3> QED BY <2>2, <2>3, <2>4, <3>4, <3>7 DEF LastInv, ListenInv
    <2>6. CASE ~Awaiting
        <3>1. toChip = << >> /\ Len(fromChip) = 0
            <4>1. /\ toChip = << >> /\ Len(fromChip) \in {0, 1}
                  /\ Len(fromChip) = 1 => ~IsReply(fromChip[1])
                BY <2>2, <2>6 DEF InStep
            <4>2. Len(fromChip) # 1
                <5> SUFFICES ASSUME Len(fromChip) = 1 PROVE FALSE
                    OBVIOUS
                <5>1. fromChip[1] \in Lines /\ fromChip # << >>
                    BY <1>1
                <5> QED BY <2>2, <4>1, <5>1, LineKinds DEF OwnLine
            <4> QED BY <4>1, <4>2
        <3>2. InStep'
            BY <1>2, <1>4, <2>6, <3>1 DEF InStep
        <3>3. ~Accepted /\ ~Accepted'
            BY <1>4, <2>6 DEF Accepted
        <3>4. ~OwnLine({"tx_ok"})
            BY <2>2 DEF OwnLine, Own
        <3>5. FlagInv'
            BY <2>2, <2>3, <3>3, <3>4 DEF FlagInv
        <3> QED BY <2>2, <2>3, <2>4, <3>2, <3>5 DEF LastInv, ListenInv
    <2> QED BY <2>5, <2>6
<1> QED BY <1>3, <1>5 DEF InStepInv

(* The chip answers a command.                                             *)
LEMMA AnswersKeeps ==
    ASSUME TypeInv, InStepInv, ChipAnswers
    PROVE  TypeInv' /\ InStepInv'
<1> USE DEF exchange
<1> DEFINE c == Head(toChip)
<1>0. /\ toChip # << >> /\ Answers(c) /\ toChip' = Tail(toChip)
      /\ UNCHANGED <<todo, asked, sending, swallowed>>
    BY DEF ChipAnswers
<1> HIDE DEF c
<1>1. PICK k \in {"ok", "busy", "value"} :
         /\ fromChip' = Append(fromChip, Line(k))
         /\ mode' \in {"idle", "rx", "tx"} /\ refusals' \in Nat
         /\ IsSeq(onAir')
         /\ refusals' = 0 => refusals = 0
         /\ mode' = "idle" /\ refusals' = 0 /\ mode # "idle" => c.cmd = "rxstop"
         /\ mode' = "idle" /\ refusals' = 0 => c.cmd \notin {"rx", "tx"} \/ mode # "idle"
         /\ \/ /\ c.cmd = "tx" /\ k = "ok" /\ mode = "idle" /\ mode' = "tx"
               /\ onAir' # << >>
            \/ /\ ~(c.cmd = "tx" /\ k = "ok") /\ (mode' = "tx" <=> mode = "tx")
               /\ onAir' = onAir
    <2> USE <1>0 DEF Answers, TypeInv
    <2>1. CASE c.cmd = "rxstop"
        BY <2>1
    <2>2. CASE c.cmd = "rx"
        BY <2>2
    <2>3. CASE c.cmd = "tx" /\ mode # "idle"
        BY <2>3
    <2>4. CASE c.cmd = "tx" /\ mode = "idle"
        <3>1. \/ /\ mode' = "tx" /\ onAir' = Append(onAir, c.data)
                 /\ fromChip' = Append(fromChip, Line("ok"))
                 /\ refusals' = refusals
              \/ /\ refusals' = refusals + 1
                 /\ fromChip' = Append(fromChip, Line("busy"))
                 /\ mode' = mode /\ onAir' = onAir
            BY <2>4
        <3>2. IsSeq(Append(onAir, c.data)) /\ Append(onAir, c.data) # << >>
            BY IsSeqAppend
        <3> HIDE DEF Answers
        <3>3. CASE mode' = "tx"
            <4>1. /\ onAir' = Append(onAir, c.data) /\ refusals' = refusals
                  /\ fromChip' = Append(fromChip, Line("ok"))
                BY <2>4, <3>1, <3>3
            <4>2. IsSeq(onAir') /\ onAir' # << >> /\ refusals' \in Nat
                BY <3>2, <4>1
            <4> QED BY <2>4, <3>3, <4>1, <4>2
        <3>4. CASE mode' = "idle"
            BY <2>4, <3>1, <3>4
        <3> QED BY <3>1, <3>3, <3>4
    <2>5. CASE c.cmd \notin {"rxstop", "rx", "tx"}
        BY <2>5
    <2> QED BY <2>1, <2>2, <2>3, <2>4, <2>5
<1>2. fromChip \in Seq(Lines) /\ Line(k) \in Lines /\ IsReply(Line(k))
      /\ Line(k).kind = k
    BY LineKinds DEF TypeInv, IsReply
<1>3. /\ fromChip' \in Seq(Lines) /\ fromChip' # << >>
      /\ Len(fromChip') = Len(fromChip) + 1
      /\ fromChip # << >> => fromChip'[1] = fromChip[1]
      /\ fromChip = << >> => fromChip'[1] = Line(k) /\ Len(fromChip') = 1
    BY <1>1, <1>2
<1>4. TypeInv'
    BY <1>0, <1>1, <1>3 DEF TypeInv
<1>5. Awaiting' = Awaiting
    BY <1>0 DEF Awaiting
<1>6. ASSUME ~Mistaken'
      PROVE  /\ InStep' /\ (OwnLine(Own) => mode = "idle")'
             /\ FlagInv' /\ LastInv' /\ ListenInv'
    <2>1. ~Mistaken
        BY <1>0, <1>3, <1>5, <1>6 DEF Mistaken
    <2>2. InStep /\ FlagInv /\ LastInv /\ ListenInv
        BY <2>1 DEF InStepInv
    <2>3. Awaiting /\ toChip = <<Head(todo)>> /\ fromChip = << >>
        BY <1>0, <2>2 DEF InStep
    <2>4. c = Head(todo) /\ toChip' = << >> /\ todo # << >>
        BY <1>0, <2>3 DEF c, Awaiting
    <2>5. InStep' /\ Head(todo)' = Head(todo)
        BY <1>0, <1>2, <1>3, <1>5, <2>3, <2>4 DEF InStep
    <2>6. \A K : ~OwnLine(K) /\ ~OwnLine(K)'
        BY <1>2, <1>3, <2>3 DEF OwnLine
    <2>7. ~Accepted /\ (Accepted' <=> c.cmd = "tx" /\ k = "ok")
        BY <1>0, <1>2, <1>3, <1>5, <2>3, <2>4, <2>5 DEF Accepted
    <2>8. FlagInv'
        BY <1>0, <1>1, <2>2, <2>6, <2>7 DEF FlagInv
    <2>9. LastInv'
        BY <1>0, <2>2 DEF LastInv
    <2>10. ListenInv'
        <3> SUFFICES ASSUME mode' = "idle", refusals' = 0 PROVE ListenInv'
            BY DEF ListenInv
        <3>1. Len(todo) \in Nat /\ Head(todo) = todo[1]
            BY <2>4, IsSeqTail DEF TypeInv
        <3>2. todo[Len(todo)].cmd \in {"rx", "tx"} /\ Len(todo) # 1
            <4>1. CASE mode = "idle"
                BY <1>1, <2>2, <2>4, <2>6, <3>1, <4>1 DEF ListenInv
            <4>2. CASE mode # "idle"
                BY <1>1, <2>2, <2>4, <3>1, <4>2 DEF LastInv
            <4> QED BY <4>1, <4>2
        <3> QED BY <1>0, <2>4, <3>2 DEF ListenInv
    <2> QED BY <2>5, <2>6, <2>8, <2>9, <2>10
<1> QED BY <1>4, <1>6 DEF InStepInv

(* The program writes the next command, or waits for a line.               *)
LEMMA WriteKeeps ==
    ASSUME IInv, Write PROVE IInv'
<1> USE DEF IInv, loop, radio
<1>1. /\ todo # << >> /\ ~asked /\ asked' = TRUE
      /\ UNCHANGED <<pc, todo, sending, fromChip, mode, onAir, refusals, swallowed>>
    BY DEF Write
<1>2. TypeInv' /\ LoopInv'
    BY <1>1 DEF TypeInv, LoopInv
<1>3. ~Awaiting /\ (Awaiting' <=> Head(todo).cmd # "line")
    BY <1>1 DEF Awaiting
<1>4. ASSUME ~Mistaken'
      PROVE  /\ InStep' /\ (OwnLine(Own) => mode = "idle")'
             /\ FlagInv' /\ LastInv' /\ ListenInv'
    <2>1. ~Mistaken
        BY <1>1, <1>3, <1>4 DEF Mistaken
    <2>2. InStep /\ (OwnLine(Own) => mode = "idle") /\ FlagInv /\ LastInv /\ ListenInv
        BY <2>1 DEF InStepInv
    <2>3. /\ toChip = << >> /\ Len(fromChip) \in {0, 1}
          /\ Len(fromChip) = 1 => ~IsReply(fromChip[1])
        BY <1>3, <2>2 DEF InStep
    <2>4. \A K : OwnLine(K)' <=> OwnLine(K)
        BY <1>1 DEF OwnLine
    <2>5. LastInv'
        BY <1>1, <2>2 DEF LastInv
    <2>6. CASE Head(todo).cmd = "line"
        <3>1. toChip' = << >>
            BY <2>3, <2>6 DEF Write
        <3>2. InStep' /\ ~Accepted /\ ~Accepted'
            BY <1>1, <1>3, <2>3, <2>6, <3>1 DEF InStep, Accepted
        <3>3. FlagInv'
            BY <1>1, <2>2, <2>4, <3>2 DEF FlagInv
        <3>4. Len(todo) = 1 => todo[Len(todo)].cmd = "line"
            BY <1>1, <2>6, IsSeqTail DEF TypeInv
        <3>5. ListenInv'
            BY <1>1, <2>2, <2>4, <3>4 DEF ListenInv
        <3> QED BY <1>1, <2>2, <2>4, <2>5, <3>2, <3>3, <3>5
    <2>7. CASE Head(todo).cmd # "line"
        <3>1. fromChip = << >>
            <4>1. fromChip # << >> => Len(fromChip) = 1
                BY <2>3, EmptySeq DEF TypeInv
            <4> QED BY <1>1, <1>3, <1>4, <2>3, <2>7, <4>1 DEF Mistaken
        <3>2. toChip' = <<Head(todo)>>
            <4>1. toChip' = Append(toChip, Head(todo))
                BY <2>7 DEF Write
            <4> QED BY <2>3, <4>1
        <3>3. InStep' /\ ~Accepted /\ ~Accepted'
            BY <1>1, <1>3, <2>7, <3>1, <3>2 DEF InStep, Accepted
        <3>4. FlagInv'
            BY <1>1, <2>2, <2>4, <3>3 DEF FlagInv
        <3>5. ListenInv'
            BY <1>1, <2>2, <2>4, <3>2 DEF ListenInv
        <3> QED BY <1>1, <2>2, <2>4, <2>5, <3>3, <3>4, <3>5
    <2> QED BY <2>6, <2>7
<1> QED BY <1>2, <1>4 DEF InStepInv

(* The program reads a line.                                               *)
LEMMA ReadKeeps ==
    ASSUME IInv, Read PROVE IInv'
<1> USE DEF IInv, loop, radio
<1> DEFINE c == Head(todo)
           l == Head(fromChip)
<1>1. /\ asked /\ fromChip # << >> /\ asked' = FALSE
      /\ fromChip' = Tail(fromChip)
      /\ todo' = LedOff(l) \o (IF c.cmd = "line" THEN ToListen(l) ELSE Tail(todo))
      /\ sending' = SendingAfter(c, l)
      /\ swallowed' = (IF c.cmd = "line" \/ IsReply(l) THEN swallowed
                       ELSE Append(swallowed, l))
      /\ UNCHANGED <<pc, toChip, mode, onAir, refusals>>
    BY DEF Read
<1> HIDE DEF c, l
<1>2. /\ fromChip \in Seq(Lines) /\ Len(fromChip) \in Nat /\ Len(fromChip) >= 1
      /\ l = fromChip[1] /\ l \in Lines
      /\ fromChip' \in Seq(Lines) /\ Len(fromChip') = Len(fromChip) - 1
      /\ Len(fromChip) = 2 => fromChip'[1] = fromChip[2]
    BY <1>1 DEF l, TypeInv
<1>3. /\ todo # << >> /\ c = todo[1] /\ Len(todo) \in Nat /\ Len(todo) >= 1
      /\ IsSeq(Tail(todo)) /\ Len(Tail(todo)) = Len(todo) - 1
      /\ Tail(todo) # << >> <=> Len(todo) # 1
      /\ Tail(todo) # << >> => Tail(todo)[Len(todo) - 1] = todo[Len(todo)]
    BY <1>1, IsSeqTail DEF c, LoopInv, TypeInv
<1>4. Awaiting <=> c.cmd # "line"
    BY <1>1, <1>3 DEF Awaiting, c
<1>5. LoopInv'
    <2>1. pc \notin {"poll", "kiss", "stik"}
        BY <1>3 DEF LoopInv
    <2> QED BY <1>1, <2>1 DEF LoopInv
<1>6. swallowed' \in Seq(Lines) /\ (swallowed # << >> => swallowed' # << >>)
      /\ (c.cmd # "line" /\ ~IsReply(l) => swallowed' # << >>)
    <2>1. swallowed \in Seq(Lines)
        BY DEF TypeInv
    <2>2. /\ Append(swallowed, l) \in Seq(Lines)
          /\ Len(Append(swallowed, l)) = Len(swallowed) + 1
          /\ Len(swallowed) \in Nat
        BY <1>2, <2>1
    <2>3. Append(swallowed, l) # << >>
        BY <2>2, EmptySeq
    <2> QED BY <1>1, <2>1, <2>2, <2>3
<1>7. ASSUME ~Mistaken' PROVE ~Mistaken
    BY <1>1, <1>2, <1>4, <1>6, <1>7 DEF Mistaken
<1>8. /\ IsSeq(todo')
      /\ IsReply(l) /\ c.cmd # "line" => todo' = Tail(todo)
      /\ c.cmd = "line" => todo' # << >> /\ todo'[Len(todo')].cmd = "rx"
    <2>1. CASE c.cmd = "line"
        <3>1. LedOff(l) \in {<< >>, <<Cmd("set")>>}
              /\ ToListen(l) \in {<<Cmd("get"), Cmd("rx")>>, <<Cmd("rx")>>}
            BY DEF LedOff, ToListen
        <3> DEFINE S == {Cmd("set"), Cmd("get"), Cmd("rx")}
        <3>2. LedOff(l) \in Seq(S)
            <4>1. Cmd("set") \in S
                OBVIOUS
            <4> HIDE DEF S
            <4>2. << >> \in Seq(S) /\ <<Cmd("set")>> \in Seq(S)
                BY <4>1
            <4> QED BY <3>1, <4>2
        <3>3. /\ ToListen(l) \in Seq(S)
              /\ ToListen(l)[Len(ToListen(l))] = Cmd("rx") /\ Len(ToListen(l)) >= 1
            <4>1. CASE ToListen(l) = <<Cmd("rx")>>
                BY <4>1
            <4>2. CASE ToListen(l) = <<Cmd("get"), Cmd("rx")>>
                BY <4>2
            <4> QED BY <3>1, <4>1, <4>2
        <3> HIDE DEF S
        <3>4. /\ todo' \in Seq(S) /\ Len(todo') >= 1
              /\ todo'[Len(todo')] = Cmd("rx")
            BY <1>1, <2>1, <3>2, <3>3, ConcatProperties
        <3> QED BY <2>1, <3>4, SeqIsIsSeq, EmptySeq DEF Cmd
    <2>2. CASE c.cmd # "line"
        <3> DEFINE R == {Tail(todo)[i] : i \in 1..Len(Tail(todo))}
                   S == R \cup {Cmd("set")}
        <3>1. Tail(todo) \in Seq(R)
            BY <1>3, IsSeqIsSeq
        <3> HIDE DEF R
        <3>2. Tail(todo) \in Seq(S)
            BY <3>1, SeqMonotonic
        <3> Cmd("set") \in S
            OBVIOUS
        <3> HIDE DEF S
        <3>3. LedOff(l) \in Seq(S) /\ (IsReply(l) => LedOff(l) = << >>)
            <4>1. << >> \in Seq(S) /\ <<Cmd("set")>> \in Seq(S)
                OBVIOUS
            <4> QED BY <4>1 DEF LedOff, IsReply
        <3>4. todo' \in Seq(S) /\ (IsReply(l) => todo' = Tail(todo))
            BY <1>1, <2>2, <3>2, <3>3, ConcatProperties, ConcatEmptySeq
        <3> QED BY <2>2, <3>4, SeqIsIsSeq
    <2> QED BY <2>1, <2>2
<1>9. TypeInv'
    BY <1>1, <1>2, <1>6, <1>8 DEF TypeInv, SendingAfter
<1>10. ASSUME ~Mistaken'
       PROVE  /\ InStep' /\ (OwnLine(Own) => mode = "idle")'
              /\ FlagInv' /\ LastInv' /\ ListenInv'
    <2>1. ~Mistaken /\ InStep /\ (OwnLine(Own) => mode = "idle") /\ FlagInv
          /\ LastInv /\ ListenInv
        BY <1>7, <1>10 DEF InStepInv
    <2>2. ~Awaiting' /\ ~Accepted'
        BY <1>1 DEF Awaiting, Accepted
    <2>3. CASE Awaiting
        <3>1. /\ toChip = << >> /\ Len(fromChip) \in {1, 2} /\ IsReply(l)
              /\ Len(fromChip) = 2 => ~IsReply(fromChip[2])
            BY <1>1, <1>2, <2>1, <2>3 DEF InStep
        <3>2. InStep'
            BY <1>1, <1>2, <2>2, <3>1 DEF InStep
        <3>3. \A K : OwnLine(K)' <=> OwnLine(K)
            <4>1. CASE Len(fromChip) = 1
                <5>1. fromChip' = << >>
                    BY <1>2, <4>1, EmptySeq
                <5> QED BY <1>2, <3>1, <4>1, <5>1 DEF OwnLine
            <4>2. CASE Len(fromChip) = 2
                <5>1. fromChip' # << >> /\ Len(fromChip') = 1
                    BY <1>2, <4>2, EmptySeq
                <5> QED BY <1>1, <1>2, <4>2, <5>1 DEF OwnLine
            <4> QED BY <3>1, <4>1, <4>2
        <3>4. Accepted <=> c.cmd = "tx" /\ l.kind = "ok"
            BY <1>1, <1>2, <2>3, <3>1 DEF Accepted, c
        <3>5. sending' <=> sending \/ Accepted
            BY <1>1, <1>4, <2>3, <3>4 DEF SendingAfter
        <3>6. FlagInv'
            BY <1>1, <2>1, <2>2, <3>3, <3>5 DEF FlagInv
        <3>7. todo' = Tail(todo)
            BY <1>4, <1>8, <2>3, <3>1
        <3>8. LastInv'
            BY <1>3, <1>4, <2>1, <2>3, <3>7 DEF LastInv
        <3>9. ListenInv'
            BY <1>1, <1>3, <2>1, <3>1, <3>3, <3>7 DEF ListenInv
        <3> QED BY <1>1, <2>1, <3>2, <3>3, <3>6, <3>8, <3>9
    <2>4. CASE ~Awaiting
        <3>1. toChip = << >> /\ Len(fromChip) = 1 /\ ~IsReply(l)
            BY <1>2, <2>1, <2>4 DEF InStep
        <3>2. fromChip' = << >>
            BY <1>2, <3>1, EmptySeq
        <3>3. InStep' /\ \A K : ~OwnLine(K)'
            <4>1. InStep'
                BY <1>1, <1>2, <2>2, <3>1, <3>2 DEF InStep
            <4>2. \A K : ~OwnLine(K)'
                BY <3>2 DEF OwnLine
            <4> QED BY <4>1, <4>2
        <3>4. mode = "idle" /\ (OwnLine({"tx_ok"}) <=> l.kind = "tx_ok")
            BY <1>1, <1>2, <2>1, <3>1, LineKinds DEF OwnLine
        <3>5. ~Accepted /\ (sending' <=> sending /\ l.kind # "tx_ok")
            <4>1. l.kind # "ok"
                BY <3>1 DEF IsReply
            <4> QED BY <1>1, <1>4, <2>4, <4>1 DEF Accepted, SendingAfter
        <3>6. FlagInv'
            BY <1>1, <2>1, <2>2, <3>3, <3>4, <3>5 DEF FlagInv
        <3>7. LastInv' /\ ListenInv'
            BY <1>1, <1>4, <1>8, <2>4 DEF LastInv, ListenInv
        <3> QED BY <3>3, <3>6, <3>7
    <2> QED BY <2>3, <2>4
<1> QED BY <1>5, <1>9, <1>10 DEF InStepInv

(* An operation is begun.                                                  *)
LEMMA BeginKeeps ==
    ASSUME IInv, todo = << >>, IsSeq(todo'),
           todo' # << >> => \/ todo'[Len(todo')].cmd = "tx"
                            \/ Len(todo') = 1 /\ todo'[1].cmd = "line",
           UNCHANGED <<asked, sending, toChip, fromChip, mode, onAir, refusals,
                       swallowed>>
    PROVE  TypeInv' /\ InStepInv' /\ ~asked'
<1> USE DEF IInv
<1>1. ~asked /\ ~asked'
    BY DEF LoopInv
<1>2. TypeInv'
    BY DEF TypeInv
<1>3. ~Awaiting /\ ~Awaiting' /\ ~Accepted /\ ~Accepted'
    BY <1>1 DEF Awaiting, Accepted
<1>4. \A K : OwnLine(K)' <=> OwnLine(K)
    BY DEF OwnLine
<1>5. InStep' = InStep /\ FlagInv' = FlagInv /\ Mistaken' = Mistaken
    BY <1>3, <1>4 DEF InStep, FlagInv, Mistaken
<1>6. LastInv' /\ (ListenInv => ListenInv')
    BY <1>1, <1>4 DEF LastInv, ListenInv
<1> QED BY <1>1, <1>2, <1>4, <1>5, <1>6 DEF InStepInv

LEMMA ProgramKeeps ==
    ASSUME IInv, Program PROVE IInv'
<1> USE DEF IInv, loop, tnc, exchange, radio, kernel
<1>1. CASE Write
    BY <1>1, WriteKeeps
<1>2. CASE Read
    BY <1>2, ReadKeeps
<1>3. CASE EndSetup \/ EndSend \/ Poll \/ Receive
    <2>1. UNCHANGED exchanged
        BY <1>3 DEF EndSetup, EndSend, Poll, Receive, exchanged
    <2>2. todo = << >>
        BY <1>3 DEF EndSetup, EndSend, Poll, Receive, LoopInv
    <2>3. LoopInv'
        BY <2>1, <2>2 DEF LoopInv, exchanged
    <2> QED BY <2>1, <2>3, UnrelatedKeeps
<1>4. CASE Kiss
    <2>1. todo = << >> /\ pc' = "send"
        BY <1>4 DEF Kiss, LoopInv
    <2>2. \/ todo' = << >>
          \/ \E b : todo' = <<Cmd("rxstop"), Cmd("set"), Tx(b)>>
        BY <1>4, <2>1 DEF Kiss
    <2>3. IsSeq(todo') /\ (todo' # << >> => todo'[Len(todo')].cmd = "tx")
        <3>1. CASE todo' = << >>
            BY <3>1, EmptySeq, SeqIsIsSeq
        <3>2. ASSUME NEW b, todo' = <<Cmd("rxstop"), Cmd("set"), Tx(b)>>
              PROVE  IsSeq(todo') /\ todo'[Len(todo')].cmd = "tx"
            <4>1. IsSeq(<<Cmd("rxstop"), Cmd("set"), Tx(b)>>)
                BY IsSeqTuple
            <4>2. Len(todo') = 3 /\ todo'[3] = Tx(b)
                BY <3>2
            <4> QED BY <3>2, <4>1, <4>2 DEF Tx
        <3> QED BY <2>2, <3>1, <3>2
    <2>4. TypeInv' /\ InStepInv' /\ ~asked'
        BY <1>4, <2>1, <2>3, BeginKeeps DEF Kiss
    <2> QED BY <2>1, <2>4 DEF LoopInv
<1>5. CASE Stik
    <2>1. todo = << >>
        BY <1>5 DEF Stik, LoopInv
    <2>2. \/ todo' = << >> /\ pc' = "poll"
          \/ todo' = <<Cmd("line")>> /\ pc' = "process"
        BY <1>5, <2>1 DEF Stik
    <2>3. IsSeq(todo') /\ (todo' # << >> => Len(todo') = 1 /\ todo'[1].cmd = "line")
        <3>1. CASE todo' = << >>
            BY <3>1, EmptySeq, SeqIsIsSeq
        <3>2. CASE todo' = <<Cmd("line")>>
            <4>1. IsSeq(<<Cmd("line")>>)
                BY IsSeqTuple
            <4>2. Len(todo') = 1 /\ todo'[1] = Cmd("line")
                BY <3>2
            <4> QED BY <3>2, <4>1, <4>2 DEF Cmd
        <3> QED BY <2>2, <3>1, <3>2
    <2>4. TypeInv' /\ InStepInv' /\ ~asked'
        BY <1>5, <2>1, <2>3, BeginKeeps DEF Stik
    <2>5. LoopInv'
        BY <2>2, <2>4 DEF LoopInv
    <2> QED BY <2>4, <2>5
<1> QED BY <1>1, <1>2, <1>3, <1>4, <1>5 DEF Program

LEMMA ChipKeeps ==
    ASSUME IInv, Chip PROVE IInv'
<1> USE DEF IInv, loop, tnc, exchange, kernel
<1>1. LoopInv'
    BY DEF Chip, ChipAnswers, ChipSent, ChipErr, ChipHears, LoopInv
<1>2. CASE ChipAnswers
    BY <1>1, <1>2, AnswersKeeps
<1>3. CASE ChipSent
    <2>1. Line("tx_ok") \in Lines /\ Line("tx_ok").kind = "tx_ok"
        BY LineKinds
    <2> QED BY <1>1, <1>3, <2>1, OwnLineKeeps DEF ChipSent, IsReply
<1>4. CASE ChipErr
    <2>1. Line("err") \in Lines /\ Line("err").kind = "err"
        BY LineKinds
    <2> QED BY <1>1, <1>4, <2>1, OwnLineKeeps DEF ChipErr, IsReply
<1>5. ASSUME NEW p \in Packets, ChipHears(p) PROVE IInv'
    <2> DEFINE l == RxLine(<<Data0>> \o p)
    <2>1. l \in Lines /\ l.kind = "rx"
        BY LineKinds
    <2>2. /\ fromChip' = Append(fromChip, l) /\ mode = "rx" /\ mode' = "idle"
          /\ UNCHANGED <<todo, asked, sending, toChip, onAir, refusals, swallowed>>
        BY <1>5 DEF ChipHears
    <2> HIDE DEF l
    <2>3. TypeInv' /\ InStepInv'
        BY <2>1, <2>2, OwnLineKeeps DEF IsReply
    <2> QED BY <1>1, <2>3
<1> QED BY <1>2, <1>3, <1>4, <1>5 DEF Chip

LEMMA Invariance == Spec => []IInv
<1>1. ASSUME IInv, [Next]_vars PROVE IInv'
    <2>1. CASE Program
        BY <1>1, <2>1, ProgramKeeps
    <2>2. CASE Chip
        BY <1>1, <2>2, ChipKeeps
    <2>3. CASE (\E p \in Packets : KernelSends(p)) \/ UNCHANGED vars
        <3>1. UNCHANGED exchanged /\ pc' = pc
            BY <2>3 DEF KernelSends, vars, loop, exchange, radio, exchanged
        <3>2. LoopInv'
            BY <1>1, <3>1 DEF IInv, LoopInv, exchanged
        <3> QED BY <1>1, <3>1, <3>2, UnrelatedKeeps DEF IInv
    <2> QED BY <1>1, <2>1, <2>2, <2>3 DEF Next
<1> QED BY InitIInv, <1>1, PTL DEF Spec

-----------------------------------------------------------------------------
(* As long as no line of the chip's own was taken for a reply, the flag    *)
(* send_in_progress_, which keeps the pty from being read, says at rest    *)
(* what the chip does, whatever sends it refused.                          *)
THEOREM FlagIsTrue == Spec => []FlagIsTrueAtRest
<1>1. IInv => FlagIsTrueAtRest
    BY EmptySeq DEF IInv, InStepInv, Mistaken, Awaiting, FlagInv, Accepted, OwnLine,
           FlagIsTrueAtRest, AtRest
<1> QED BY <1>1, Invariance, PTL

(* The only ways for loratnc to come to rest with a radio that neither     *)
(* listens nor transmits are a refused transmission and a line of the      *)
(* chip's own taken for a reply.                                           *)
THEOREM DeafOnlyThen == Spec => []DeafOnlyAfterRefusalOrSwallow
<1>1. IInv => DeafOnlyAfterRefusalOrSwallow
    BY DEF IInv, TypeInv, InStepInv, Mistaken, Awaiting, ListenInv, OwnLine,
           DeafOnlyAfterRefusalOrSwallow, AtRest
<1> QED BY <1>1, Invariance, PTL

-----------------------------------------------------------------------------
(* Sequences embedded in sequences.                                        *)
(* The elements of one sequence among those of another, in order.          *)
LEMMA EmbDef ==
    ASSUME NEW s, NEW t
    PROVE  EmbeddedIn(s, t) <=>
           \E f \in [DOMAIN s -> DOMAIN t] :
               /\ \A i \in DOMAIN s : s[i] = t[f[i]]
               /\ \A i, j \in DOMAIN s : i < j => f[i] < f[j]
BY DEF EmbeddedIn, Embedded

LEMMA EmbTrans ==
    ASSUME NEW S, NEW s \in Seq(S), NEW t \in Seq(S), NEW u \in Seq(S),
           EmbeddedIn(s, t), EmbeddedIn(t, u)
    PROVE  EmbeddedIn(s, u)
<1>1. PICK f \in [DOMAIN s -> DOMAIN t] :
         /\ \A i \in DOMAIN s : s[i] = t[f[i]]
         /\ \A i, j \in DOMAIN s : i < j => f[i] < f[j]
    BY EmbDef
<1>2. PICK g \in [DOMAIN t -> DOMAIN u] :
         /\ \A i \in DOMAIN t : t[i] = u[g[i]]
         /\ \A i, j \in DOMAIN t : i < j => g[i] < g[j]
    BY EmbDef
<1> DEFINE h == [i \in DOMAIN s |-> g[f[i]]]
<1>3. h \in [DOMAIN s -> DOMAIN u]
    OBVIOUS
<1>4. \A i \in DOMAIN s : s[i] = u[h[i]]
    BY <1>1, <1>2
<1>5. \A i, j \in DOMAIN s : i < j => h[i] < h[j]
    BY <1>1, <1>2
<1> HIDE DEF h
<1> QED BY <1>3, <1>4, <1>5, EmbDef

(* With the same element added to both, or one to the longer.              *)
LEMMA EmbBoth ==
    ASSUME NEW S, NEW s \in Seq(S), NEW t \in Seq(S), NEW x \in S, EmbeddedIn(s, t)
    PROVE  EmbeddedIn(Append(s, x), Append(t, x))
<1>1. PICK f \in [DOMAIN s -> DOMAIN t] :
         /\ \A i \in DOMAIN s : s[i] = t[f[i]]
         /\ \A i, j \in DOMAIN s : i < j => f[i] < f[j]
    BY EmbDef
<1> DEFINE m == Len(s)
           n == Len(t)
           a == Append(s, x)
           b == Append(t, x)
           g == [i \in 1..(m + 1) |-> IF i = m + 1 THEN n + 1 ELSE f[i]]
<1>2. /\ m \in Nat /\ n \in Nat /\ DOMAIN s = 1..m /\ DOMAIN t = 1..n
      /\ DOMAIN a = 1..(m + 1) /\ DOMAIN b = 1..(n + 1)
      /\ \A i \in 1..m : a[i] = s[i]
      /\ \A i \in 1..n : b[i] = t[i]
      /\ a[m + 1] = x /\ b[n + 1] = x
    OBVIOUS
<1> HIDE DEF m, n, a, b
<1>3. g \in [DOMAIN a -> DOMAIN b]
    BY <1>1, <1>2
<1>4. \A i \in DOMAIN a : a[i] = b[g[i]]
    BY <1>1, <1>2
<1>5. \A i, j \in DOMAIN a : i < j => g[i] < g[j]
    BY <1>1, <1>2
<1> HIDE DEF g
<1>6. EmbeddedIn(a, b)
    BY <1>3, <1>4, <1>5, EmbDef
<1> QED BY <1>6 DEF a, b

LEMMA EmbRight ==
    ASSUME NEW S, NEW s \in Seq(S), NEW t \in Seq(S), NEW x \in S, EmbeddedIn(s, t)
    PROVE  EmbeddedIn(s, Append(t, x))
<1>1. PICK f \in [DOMAIN s -> DOMAIN t] :
         /\ \A i \in DOMAIN s : s[i] = t[f[i]]
         /\ \A i, j \in DOMAIN s : i < j => f[i] < f[j]
    BY EmbDef
<1> DEFINE b == Append(t, x)
<1>2. /\ DOMAIN t \subseteq DOMAIN b
      /\ \A i \in DOMAIN t : b[i] = t[i]
    OBVIOUS
<1> HIDE DEF b
<1>3. f \in [DOMAIN s -> DOMAIN b]
    BY <1>2
<1>4. EmbeddedIn(s, b)
    BY <1>1, <1>2, <1>3, EmbDef
<1> QED BY <1>4 DEF b

(* Without one of its elements a sequence is embedded in itself, and so    *)
(* are its beginning and its end.                                          *)
LEMMA EmbDrop ==
    ASSUME NEW S, NEW a \in Seq(S), NEW b \in Seq(S), NEW x \in S
    PROVE  EmbeddedIn(a \o b, a \o (<<x>> \o b))
<1> DEFINE m == Len(a)
           n == Len(b)
           s == a \o b
           t == a \o (<<x>> \o b)
           f == [i \in 1..(m + n) |-> IF i <= m THEN i ELSE i + 1]
<1>1. m \in Nat /\ n \in Nat
    OBVIOUS
<1>2. DOMAIN s = 1..(m + n) /\ DOMAIN t = 1..(m + n + 1)
    OBVIOUS
<1>3. ASSUME NEW i \in 1..(m + n) PROVE s[i] = t[f[i]]
    OBVIOUS
<1> HIDE DEF m, n, s, t
<1>4. f \in [DOMAIN s -> DOMAIN t]
    BY <1>1, <1>2
<1>5. \A i, j \in DOMAIN s : i < j => f[i] < f[j]
    BY <1>1, <1>2
<1> HIDE DEF f
<1>6. EmbeddedIn(s, t)
    BY <1>2, <1>3, <1>4, <1>5, EmbDef
<1> QED BY <1>6 DEF s, t

LEMMA EmbPrefix ==
    ASSUME NEW S, NEW a \in Seq(S), NEW b \in Seq(S)
    PROVE  EmbeddedIn(a, a \o b)
<1> DEFINE t == a \o b
           f == [i \in DOMAIN a |-> i]
<1>1. DOMAIN a \subseteq DOMAIN t /\ \A i \in DOMAIN a : a[i] = t[i]
    OBVIOUS
<1> HIDE DEF t
<1>2. f \in [DOMAIN a -> DOMAIN t]
    BY <1>1
<1>3. EmbeddedIn(a, t)
    BY <1>1, <1>2, EmbDef
<1> QED BY <1>3 DEF t

LEMMA EmbSuffix ==
    ASSUME NEW S, NEW a \in Seq(S), NEW b \in Seq(S)
    PROVE  EmbeddedIn(b, a \o b)
<1> DEFINE t == a \o b
           m == Len(a)
           n == Len(b)
           f == [i \in 1..n |-> m + i]
<1>1. /\ m \in Nat /\ n \in Nat /\ DOMAIN b = 1..n /\ DOMAIN t = 1..(m + n)
      /\ \A i \in 1..n : b[i] = t[m + i]
    OBVIOUS
<1> HIDE DEF t, m, n
<1>2. f \in [DOMAIN b -> DOMAIN t]
    BY <1>1
<1>3. \A i, j \in DOMAIN b : i < j => f[i] < f[j]
    BY <1>1
<1>4. EmbeddedIn(b, t)
    BY <1>1, <1>2, <1>3, EmbDef
<1> QED BY <1>4 DEF t

LEMMA EmbEmpty == \A t : EmbeddedIn(<< >>, t)
<1> TAKE t
<1>1. DOMAIN << >> = {}
    OBVIOUS
<1> DEFINE f == [i \in {} |-> i]
<1>2. f \in [{} -> DOMAIN t]
    OBVIOUS
<1> QED BY <1>1, <1>2, EmbDef

-----------------------------------------------------------------------------
(* From the chip to the pty: a packet is in a line of the chip, in packet, *)
(* written, or in a line that was taken for a reply.                       *)

(* The packets lines carry, as a fold over the lines.                      *)
Taken == INSTANCE FoldFacts WITH Op <- TakePacket
Brings(l) == IF l.kind = "rx" THEN <<Tail(l.data)>> ELSE << >>

LEMMA PacketsAreBytes ==
    /\ Packets \subseteq Bytes /\ Garbage \subseteq Bytes
    /\ \A p \in Packets : p # << >>
BY LoraAssumption, SeqMonotonic DEF Bytes, Byte

LEMMA PacketSeqs ==
    /\ << >> \in Seq(Packets) /\ << >> \in Seq(Lines)
    /\ \A p \in Packets : <<p>> \in Seq(Packets)
    /\ \A t \in Seq(Packets) : t \o << >> = t /\ << >> \o t = t
    /\ \A t, u \in Seq(Packets) : t \o u \in Seq(Packets)
    /\ \A t \in Seq(Packets) : \A p \in Packets :
           Append(t, p) \in Seq(Packets) /\ Append(t, p) = t \o <<p>>
BY EmptySeq, ConcatProperties, ConcatEmptySeq, AppendProperties, AppendIsConcat

LEMMA BringsWhat ==
    /\ \A l \in Lines : Brings(l) \in Seq(Packets)
    /\ \A k \in {"ok", "busy", "value", "tx_ok", "err"} : Brings(Line(k)) = << >>
    /\ \A p \in Packets :
           /\ Brings(RxLine(<<Data0>> \o p)) = <<p>>
           /\ Tail(<<Data0>> \o p) = p /\ Len(<<Data0>> \o p) >= 2
           /\ <<Data0>> \o p # << >> /\ <<Data0>> \o p \in Bytes
<1>1. ASSUME NEW p \in Packets
      PROVE  /\ Tail(<<Data0>> \o p) = p /\ Len(<<Data0>> \o p) >= 2
             /\ <<Data0>> \o p # << >> /\ <<Data0>> \o p \in Bytes
    <2>1. p \in Seq(Byte) /\ p # << >> /\ Data0 \in Byte
        BY PacketsAreBytes, NamedBytes DEF Bytes
    <2>2. <<Data0>> \o p \in Seq(Byte)
        BY <2>1, Cat DEF Bytes
    <2>3. Len(<<Data0>> \o p) = 1 + Len(p) /\ Len(p) \in Nat /\ Len(p) # 0
        BY <2>1, EmptySeq
    <2>4. Tail(<<Data0>> \o p) = p
        BY <2>1
    <2> QED BY <2>2, <2>3, <2>4, EmptySeq DEF Bytes
<1>2. ASSUME NEW p \in Packets PROVE Brings(RxLine(<<Data0>> \o p)) = <<p>>
    BY <1>1, Zenon DEF Brings, RxLine
<1>3. \A k \in {"ok", "busy", "value", "tx_ok", "err"} : Brings(Line(k)) = << >>
    BY DEF Brings, Line
<1>4. ASSUME NEW l \in Lines PROVE Brings(l) \in Seq(Packets)
    <2>1. CASE l \in {Line(k) : k \in {"ok", "busy", "value", "tx_ok", "err"}}
        <3>1. PICK k \in {"ok", "busy", "value", "tx_ok", "err"} : l = Line(k)
            BY <2>1, Zenon
        <3> QED BY <3>1, <1>3, PacketSeqs, Zenon
    <2>2. CASE l \in {RxLine(<<Data0>> \o p) : p \in Packets}
        <3>1. PICK p \in Packets : l = RxLine(<<Data0>> \o p)
            BY <2>2, Zenon
        <3> QED BY <3>1, <1>2, PacketSeqs, Zenon
    <2> QED BY <2>1, <2>2 DEF Lines
<1> QED BY <1>1, <1>2, <1>3, <1>4

LEMMA PacketsInUnfold ==
    /\ PacketsIn(<< >>) = << >>
    /\ \A s \in Seq(Lines) : PacketsIn(s) \in Seq(Packets)
    /\ \A s \in Seq(Lines) : \A l \in Lines :
           PacketsIn(Append(s, l)) = PacketsIn(s) \o Brings(l)
    /\ \A s \in Seq(Lines) : s # << >> =>
           PacketsIn(s) = Brings(Head(s)) \o PacketsIn(Tail(s))
<1>1. \A s : PacketsIn(s) = Taken!Fold(<< >>, s)
    BY DEF PacketsIn, Taken!Fold, FoldLeft, MapThenFoldSet, Taken!FoldLeft,
           Taken!MapThenFoldSet, Max, Taken!Max
<1>2. ASSUME NEW t \in Seq(Packets), NEW l \in Lines
      PROVE  TakePacket(t, l) = t \o Brings(l)
    <2>1. CASE l.kind = "rx"
        <3> DEFINE d == Tail(l.data)
        <3>1. Brings(l) = <<d>> /\ TakePacket(t, l) = Append(t, d)
            BY <2>1 DEF Brings, TakePacket
        <3>2. <<d>> \in Seq(Packets)
            BY BringsWhat, <3>1
        <3> HIDE DEF d
        <3>3. d \in Packets
            BY <3>2
        <3> QED BY <3>1, <3>3, PacketSeqs
    <2>2. CASE l.kind # "rx"
        BY <2>2, PacketSeqs DEF Brings, TakePacket
    <2> QED BY <2>1, <2>2
<1> DEFINE g == [l \in Lines |-> Brings(l)]
<1>3. g \in [Lines -> Seq(Packets)] /\ \A l \in Lines : g[l] = Brings(l)
    BY BringsWhat
<1> HIDE DEF g
<1>4. \A t \in Seq(Packets) : \A l \in Lines : TakePacket(t, l) = t \o g[l]
    BY <1>2, <1>3
<1>5. Taken!Collects(Lines, Packets, g)
    BY <1>3, <1>4, Taken!FoldCollects
<1>6. \A s \in Seq(Lines) : s # << >> => Head(s) \in Lines
    BY EmptySeq
<1> QED BY <1>1, <1>3, <1>5, <1>6 DEF Taken!Collects

-----------------------------------------------------------------------------
(* What the chip received, on its way: decoded from the pty, in process(), *)
(* in lines that are not read.                                             *)
Delivered == PeerDecode(ptyOut)
Held == IF packet = << >> THEN << >> ELSE <<Tail(packet)>>
Pipe == Delivered \o (Held \o PacketsIn(fromChip))

(* readline() of process() stands alone, with no packet yet.               *)
LineInv ==
    /\ \A i \in 1..Len(todo) :
           todo[i].cmd = "line" => i = 1 /\ pc = "process" /\ packet = << >>
    /\ packet = << >> \/ \E p \in Packets : packet = <<Data0>> \o p
    /\ pc # "process" => packet = << >>

(* Between two frames the decoder has nothing in hand.                     *)
PtyInv ==
    /\ ptyOut \in Bytes /\ Delivered \in Seq(Packets)
    /\ PeerRun(PeerStart, ptyOut) = At(<< >>, Delivered)

PipeInv ==
    /\ heard \in Seq(Packets)
    /\ EmbeddedIn(Pipe, heard)
    /\ Len(heard) = Len(Pipe) + Len(PacketsIn(swallowed))

HeardInv == LineInv /\ PtyInv /\ PipeInv

LEMMA HeldType ==
    ASSUME LineInv
    PROVE  Held \in Seq(Packets) /\ (packet # << >> => Len(Held) = 1)
           /\ (packet = << >> => Len(Held) = 0)
<1>1. CASE packet = << >>
    BY <1>1, PacketSeqs DEF Held
<1>2. CASE packet # << >>
    <2>1. PICK p \in Packets : packet = <<Data0>> \o p
        BY <1>2 DEF LineInv
    <2>2. Held = <<p>>
        BY <1>2, <2>1, BringsWhat DEF Held
    <2> QED BY <1>2, <2>2, PacketSeqs
<1> QED BY <1>1, <1>2

LEMMA PipeType ==
    ASSUME TypeInv, LineInv, PtyInv
    PROVE  /\ PacketsIn(fromChip) \in Seq(Packets)
           /\ PacketsIn(swallowed) \in Seq(Packets)
           /\ Held \in Seq(Packets) /\ Delivered \in Seq(Packets)
           /\ Held \o PacketsIn(fromChip) \in Seq(Packets)
           /\ Pipe \in Seq(Packets)
<1>1. PacketsIn(fromChip) \in Seq(Packets) /\ PacketsIn(swallowed) \in Seq(Packets)
    BY PacketsInUnfold DEF TypeInv
<1>2. Held \in Seq(Packets) /\ Delivered \in Seq(Packets)
    BY HeldType DEF PtyInv
<1> QED BY <1>1, <1>2, PacketSeqs DEF Pipe

(* What leaves bytes, packets and lines alone, but for lines without a     *)
(* packet, keeps the pipe.                                                 *)
LEMMA PipeKept ==
    ASSUME PtyInv, PipeInv, PacketsIn(fromChip)' = PacketsIn(fromChip),
           PacketsIn(swallowed)' = PacketsIn(swallowed),
           UNCHANGED <<packet, ptyOut, heard>>
    PROVE  PtyInv' /\ PipeInv'
BY DEF PtyInv, PipeInv, Pipe, Held, Delivered

LEMMA InitHeard == Init => HeardInv
<1> SUFFICES ASSUME Init PROVE HeardInv
    OBVIOUS
<1>1. LineInv
    <2>1. Len(Setup) = 6
        BY SixIsSeq DEF Setup
    <2>2. \A i \in 1..6 : Setup[i].cmd # "line"
        BY DEF Setup, Cmd
    <2> QED BY <2>1, <2>2 DEF LineInv, Init
<1>2. PeerRun(PeerStart, << >>) = PeerStart /\ PeerStart = At(<< >>, << >>)
    <2>1. PeerStart = At(<< >>, << >>)
        BY DEF PeerStart, At
    <2> QED BY <2>1, PeerUnfold
<1>3. Delivered = << >>
    <2>1. Delivered = PeerRun(PeerStart, << >>).out
        BY DEF Delivered, PeerDecode, PeerRun, Init
    <2> QED BY <1>2, <2>1 DEF At
<1>4. PtyInv
    BY <1>2, <1>3, Cat, PacketSeqs DEF PtyInv, Init
<1>5. Held = << >> /\ PacketsIn(fromChip) = << >> /\ PacketsIn(swallowed) = << >>
    BY PacketsInUnfold DEF Held, Init
<1>6. Pipe = << >>
    BY <1>3, <1>5, PacketSeqs DEF Pipe
<1>7. PipeInv
    BY <1>5, <1>6, PacketSeqs, EmbEmpty DEF PipeInv, Init
<1> QED BY <1>1, <1>4, <1>7 DEF HeardInv

LEMMA HearsKeeps ==
    ASSUME TypeInv, HeardInv, NEW p \in Packets, ChipHears(p)
    PROVE  HeardInv'
<1> USE DEF HeardInv, loop, exchange
<1> DEFINE l == RxLine(<<Data0>> \o p)
           h == Held
           c == PacketsIn(fromChip)
<1>1. LineInv' /\ PtyInv' /\ UNCHANGED <<Held, Delivered, swallowed>>
    BY DEF ChipHears, LineInv, PtyInv, Held, Delivered
<1>2. l \in Lines /\ Brings(l) = <<p>> /\ fromChip \in Seq(Lines)
    BY LineKinds, BringsWhat DEF TypeInv
<1>3. c' = Append(c, p) /\ c \in Seq(Packets)
    <2>1. fromChip' = Append(fromChip, l)
        BY DEF ChipHears
    <2>2. c \in Seq(Packets)
        BY <1>2, PacketsInUnfold
    <2>3. PacketsIn(Append(fromChip, l)) = c \o Brings(l)
        BY <1>2, PacketsInUnfold
    <2> HIDE DEF l
    <2>4. c' = c \o <<p>>
        BY <1>2, <2>1, <2>3
    <2> HIDE DEF c
    <2> QED BY <2>2, <2>4, PacketSeqs
<1>4. h \in Seq(Packets) /\ Delivered \in Seq(Packets) /\ Pipe \in Seq(Packets)
      /\ Pipe = Delivered \o (h \o c) /\ h \o c \in Seq(Packets)
    BY PipeType DEF Pipe
<1>5. Pipe' = Append(Pipe, p)
    <2>1. Pipe' = Delivered \o (h \o Append(c, p))
        BY <1>1, <1>3 DEF Pipe
    <2> HIDE DEF h, c
    <2>2. h \o Append(c, p) = Append(h \o c, p)
        BY <1>3, <1>4
    <2>3. Delivered \o Append(h \o c, p) = Append(Delivered \o (h \o c), p)
        BY <1>4
    <2> QED BY <1>4, <2>1, <2>2, <2>3
<1>6. heard' = Append(heard, p) /\ heard \in Seq(Packets)
    BY DEF ChipHears, PipeInv
<1>7. EmbeddedIn(Pipe', heard')
    BY <1>4, <1>5, <1>6, EmbBoth DEF PipeInv
<1>8. Len(heard') = Len(Pipe') + Len(PacketsIn(swallowed)')
    <2>1. PacketsIn(swallowed)' = PacketsIn(swallowed)
          /\ Len(PacketsIn(swallowed)) \in Nat
        BY <1>1, PipeType
    <2>2. Len(heard') = Len(heard) + 1 /\ Len(Pipe') = Len(Pipe) + 1
          /\ Len(heard) \in Nat /\ Len(Pipe) \in Nat
        BY <1>4, <1>5, <1>6
    <2> QED BY <2>1, <2>2 DEF PipeInv
<1> QED BY <1>1, <1>6, <1>7, <1>8 DEF PipeInv

(* A line without a packet.                                                *)
LEMMA PlainLineKeeps ==
    ASSUME TypeInv, HeardInv,
           NEW k \in {"ok", "busy", "value", "tx_ok", "err"},
           fromChip' = Append(fromChip, Line(k)),
           UNCHANGED <<todo, pc, packet, ptyOut, heard, swallowed>>
    PROVE  HeardInv'
<1>1. LineInv'
    BY DEF HeardInv, LineInv
<1>2. PacketsIn(fromChip)' = PacketsIn(fromChip)
    <2>1. fromChip \in Seq(Lines) /\ Line(k) \in Lines /\ Brings(Line(k)) = << >>
        BY LineKinds, BringsWhat DEF TypeInv
    <2> QED BY <2>1, PacketsInUnfold, PacketSeqs
<1> QED BY <1>1, <1>2, PipeKept DEF HeardInv

LEMMA ReceiveKeepsHeard ==
    ASSUME TypeInv, HeardInv, Receive
    PROVE  HeardInv'
<1> USE DEF HeardInv, exchange, radio, loop
<1> DEFINE o == Delivered
<1>1. /\ todo = << >> /\ todo' = << >> /\ packet' = << >>
      /\ ptyOut' = ptyOut \o (Escaped(packet) \o <<FEND>>)
      /\ UNCHANGED <<fromChip, swallowed, heard>>
    BY DEF Receive, Written
<1>2. LineInv'
    BY <1>1, EmptySeq DEF LineInv
<1>3. /\ packet \in Bytes /\ Held = (IF Len(packet) < 2 THEN << >> ELSE <<Tail(packet)>>)
    <2>1. CASE packet = << >>
        BY <2>1, Cat DEF Held
    <2>2. ASSUME NEW p \in Packets, packet = <<Data0>> \o p
          PROVE  packet \in Bytes /\ packet # << >> /\ Len(packet) >= 2
        BY <2>2, BringsWhat
    <2>3. CASE packet # << >>
        <3>1. packet \in Bytes /\ Len(packet) >= 2 /\ Len(packet) \in Nat
            BY <2>2, <2>3 DEF LineInv, Bytes
        <3> QED BY <2>3, <3>1 DEF Held
    <2> QED BY <2>1, <2>3
<1>4. PeerRun(PeerStart, ptyOut') = At(<< >>, o \o Held)
    <2>1. Escaped(packet) \o <<FEND>> \in Bytes /\ ptyOut \in Bytes
        BY <1>3, EscapedType, NamedBytes, Cat DEF PtyInv
    <2>2. PeerRun(PeerStart, ptyOut') = PeerRun(At(<< >>, o), Escaped(packet) \o <<FEND>>)
        BY <1>1, <2>1, PeerUnfold DEF PtyInv
    <2>3. << >> \in Bytes /\ << >> \o packet = packet
        BY <1>3, Cat
    <2>4. PeerRun(At(<< >>, o), Escaped(packet) \o <<FEND>>)
          = At(<< >>, IF Len(packet) < 2 THEN o ELSE Append(o, Tail(packet)))
        BY <1>3, <2>3, PeerEnded
    <2>5. o \in Seq(Packets) /\ Held \in Seq(Packets)
        BY PipeType
    <2>6. (IF Len(packet) < 2 THEN o ELSE Append(o, Tail(packet))) = o \o Held
        <3>1. CASE Len(packet) < 2
            BY <1>3, <2>5, <3>1, PacketSeqs
        <3>2. CASE ~(Len(packet) < 2)
            <4> DEFINE t == Tail(packet)
            <4>1. Held = <<t>>
                BY <1>3, <3>2
            <4>2. t \in Packets
                <5> HIDE DEF t
                <5> QED BY <2>5, <4>1
            <4> QED BY <2>5, <3>2, <4>1, <4>2, PacketSeqs
        <3> QED BY <3>1, <3>2
    <2> QED BY <2>2, <2>4, <2>6
<1>5. Delivered' = o \o Held
    <2>1. Delivered' = PeerRun(PeerStart, ptyOut').out
        BY DEF Delivered, PeerDecode, PeerRun
    <2> QED BY <1>4, <2>1 DEF At
<1>6. PtyInv'
    <2>1. ptyOut' \in Bytes
        BY <1>1, <1>3, EscapedType, NamedBytes, Cat DEF PtyInv
    <2>2. Delivered' \in Seq(Packets)
        BY <1>5, PipeType, PacketSeqs
    <2> QED BY <1>4, <1>5, <2>1, <2>2 DEF PtyInv
<1>7. Pipe' = Pipe
    <2> DEFINE c == PacketsIn(fromChip)
    <2>1. Held' = << >> /\ c' = c
        BY <1>1 DEF Held
    <2>2. Pipe' = (o \o Held) \o (<< >> \o c)
        BY <1>5, <2>1 DEF Pipe
    <2>3. o \in Seq(Packets) /\ Held \in Seq(Packets) /\ c \in Seq(Packets)
        BY PipeType
    <2> HIDE DEF o, c
    <2>4. << >> \o c = c /\ (o \o Held) \o c = o \o (Held \o c)
        BY <2>3, PacketSeqs, ConcatAssociative
    <2> QED BY <2>2, <2>4 DEF Pipe, o, c
<1>8. PipeInv'
    BY <1>1, <1>7 DEF PipeInv
<1> QED BY <1>2, <1>6, <1>8

NoLine(s) == IsSeq(s) /\ \A i \in 1..Len(s) : s[i].cmd # "line"

LEMMA NoLineOf ==
    /\ NoLine(<< >>) /\ NoLine(<<Cmd("rx")>>) /\ NoLine(<<Cmd("set")>>)
    /\ NoLine(<<Cmd("get"), Cmd("rx")>>)
<1>1. ASSUME NEW a, a.cmd # "line" PROVE NoLine(<<a>>)
    <2>1. \A i \in 1..Len(<<a>>) : <<a>>[i].cmd # "line"
        BY <1>1
    <2>2. IsSeq(<<a>>)
        BY IsSeqTuple, Zenon
    <2> QED BY <2>1, <2>2, Zenon DEF NoLine
<1>2. ASSUME NEW a, NEW b, a.cmd # "line", b.cmd # "line" PROVE NoLine(<<a, b>>)
    <2>1. \A i \in 1..Len(<<a, b>>) : <<a, b>>[i].cmd # "line"
        BY <1>2
    <2>2. IsSeq(<<a, b>>)
        BY IsSeqTuple, Zenon
    <2> QED BY <2>1, <2>2, Zenon DEF NoLine
<1>3. NoLine(<< >>)
    <2>1. \A i \in 1..Len(<< >>) : << >>[i].cmd # "line"
        OBVIOUS
    <2>2. IsSeq(<< >>)
        BY IsSeqTuple, Zenon
    <2> QED BY <2>1, <2>2, Zenon DEF NoLine
<1>4. \A k \in {"rx", "set", "get"} : Cmd(k).cmd # "line"
    BY DEF Cmd
<1> QED BY <1>1, <1>2, <1>3, <1>4, Zenon

LEMMA NoLineConcat ==
    ASSUME NEW a, NEW b, NoLine(a), NoLine(b)
    PROVE  NoLine(a \o b)
<1> DEFINE Q == {a[i] : i \in 1..Len(a)}
           R == {b[i] : i \in 1..Len(b)}
           S == Q \cup R
<1>1. a \in Seq(Q) /\ b \in Seq(R)
    BY IsSeqIsSeq DEF NoLine
<1> HIDE DEF Q, R
<1>2. a \in Seq(S) /\ b \in Seq(S)
    BY <1>1, SeqMonotonic
<1> HIDE DEF S
<1>3. /\ a \o b \in Seq(S) /\ Len(a \o b) = Len(a) + Len(b)
      /\ Len(a) \in Nat /\ Len(b) \in Nat
      /\ \A i \in 1..Len(a \o b) :
             (a \o b)[i] = (IF i <= Len(a) THEN a[i] ELSE b[i - Len(a)])
    BY <1>2, ConcatProperties
<1>4. IsSeq(a \o b)
    BY <1>3, SeqIsIsSeq
<1> QED BY <1>3, <1>4 DEF NoLine

LEMMA ReadKeepsHeard ==
    ASSUME TypeInv, LoopInv, HeardInv, Read
    PROVE  HeardInv'
<1> USE DEF HeardInv, loop, radio
<1> DEFINE c == Head(todo)
           l == Head(fromChip)
           rest == PacketsIn(Tail(fromChip))
           h == Held
           o == Delivered
<1>1. /\ asked /\ fromChip # << >> /\ fromChip' = Tail(fromChip)
      /\ todo' = LedOff(l) \o (IF c.cmd = "line" THEN ToListen(l) ELSE Tail(todo))
      /\ packet' = (IF c.cmd = "line" /\ l.kind = "rx" THEN l.data ELSE packet)
      /\ swallowed' = (IF c.cmd = "line" \/ IsReply(l) THEN swallowed
                       ELSE Append(swallowed, l))
      /\ UNCHANGED <<pc, ptyOut, heard>>
    BY DEF Read
<1>2. /\ fromChip \in Seq(Lines) /\ l \in Lines /\ Tail(fromChip) \in Seq(Lines)
      /\ PacketsIn(fromChip) = Brings(l) \o rest
      /\ rest \in Seq(Packets) /\ Brings(l) \in Seq(Packets)
      /\ h \in Seq(Packets) /\ o \in Seq(Packets)
      /\ PacketsIn(swallowed) \in Seq(Packets)
    <2>1. fromChip \in Seq(Lines) /\ l \in Lines /\ Tail(fromChip) \in Seq(Lines)
        BY <1>1, EmptySeq DEF TypeInv
    <2>2. PacketsIn(fromChip) = Brings(l) \o rest
        BY <1>1, <2>1, PacketsInUnfold
    <2>3. rest \in Seq(Packets)
        BY <2>1, PacketsInUnfold
    <2> QED BY <2>1, <2>2, <2>3, BringsWhat, PipeType
<1>3. /\ todo # << >> /\ c = todo[1] /\ IsSeq(Tail(todo)) /\ Len(todo) \in Nat
      /\ Len(Tail(todo)) = Len(todo) - 1 /\ Len(todo) >= 1
      /\ \A i \in 1..(Len(todo) - 1) : Tail(todo)[i] = todo[i + 1]
    <2>1. IsSeq(todo) /\ todo # << >>
        BY <1>1 DEF TypeInv, LoopInv
    <2>2. PICK S : todo \in Seq(S)
        BY <2>1, IsSeqIsSeq
    <2> QED BY <2>1, <2>2, IsSeqTail
<1> HIDE DEF c, l, rest, h, o
<1>4. \A i \in 1..Len(todo') : todo'[i].cmd # "line"
    <2>1. NoLine(LedOff(l))
        BY NoLineOf DEF LedOff
    <2>2. NoLine(IF c.cmd = "line" THEN ToListen(l) ELSE Tail(todo))
        <3>1. NoLine(ToListen(l))
            BY NoLineOf DEF ToListen
        <3>2. \A i \in 1..(Len(todo) - 1) : todo[i + 1].cmd # "line"
            BY <1>3 DEF LineInv
        <3>3. NoLine(Tail(todo))
            BY <1>3, <3>2 DEF NoLine
        <3> QED BY <3>1, <3>3
    <2>3. NoLine(todo')
        BY <1>1, <2>1, <2>2, NoLineConcat
    <2> QED BY <2>3 DEF NoLine
<1>5. c.cmd = "line" => packet = << >> /\ pc = "process"
    BY <1>3 DEF LineInv
<1>6. l.kind = "rx" => \E p \in Packets : l.data = <<Data0>> \o p /\ Brings(l) = <<p>>
    <2> SUFFICES ASSUME l.kind = "rx"
                 PROVE  \E p \in Packets : l.data = <<Data0>> \o p /\ Brings(l) = <<p>>
        OBVIOUS
    <2>1. l \notin {Line(k) : k \in {"ok", "busy", "value", "tx_ok", "err"}}
        BY LineKinds
    <2>2. PICK p \in Packets : l = RxLine(<<Data0>> \o p)
        BY <1>2, <2>1, Zenon DEF Lines
    <2>3. l.data = <<Data0>> \o p
        BY <2>2, Zenon DEF RxLine
    <2> QED BY <2>2, <2>3, BringsWhat, Zenon
<1>7. LineInv'
    <2>1. packet' = << >> \/ \E p \in Packets : packet' = <<Data0>> \o p
        BY <1>1, <1>6 DEF LineInv
    <2>2. pc # "process" => packet' = << >>
        BY <1>1, <1>5 DEF LineInv
    <2> QED BY <1>1, <1>4, <2>1, <2>2 DEF LineInv
<1>8. Pipe = o \o (h \o (Brings(l) \o rest)) /\ Pipe' = o \o (Held' \o rest)
    BY <1>1, <1>2 DEF Pipe, Delivered, rest, h, o
<1>9. PtyInv'
    BY <1>1 DEF PtyInv, Delivered
<1>10. CASE c.cmd = "line" \/ l.kind # "rx"
    <2>1. h \o Brings(l) = Held'
        <3>1. CASE l.kind # "rx"
            BY <1>1, <1>2, <3>1, PacketSeqs DEF Brings, Held, h
        <3>2. CASE c.cmd = "line" /\ l.kind = "rx"
            <4>1. PICK p \in Packets : l.data = <<Data0>> \o p /\ Brings(l) = <<p>>
                BY <1>6, <3>2
            <4>2. h = << >>
                BY <1>5, <3>2 DEF h, Held
            <4>3. packet' = <<Data0>> \o p
                BY <1>1, <3>2, <4>1
            <4>4. Held' = <<p>>
                BY <4>3, BringsWhat DEF Held
            <4> QED BY <4>1, <4>2, <4>4, PacketSeqs
        <3> QED BY <1>10, <3>1, <3>2
    <2>2. Pipe' = Pipe
        <3>1. (h \o Brings(l)) \o rest = h \o (Brings(l) \o rest)
            BY <1>2, ConcatAssociative
        <3> QED BY <1>8, <2>1, <3>1
    <2>3. PacketsIn(swallowed') = PacketsIn(swallowed)
        <3>1. CASE swallowed' = swallowed
            BY <3>1
        <3>2. CASE swallowed' = Append(swallowed, l) /\ l.kind # "rx"
            <4>1. swallowed \in Seq(Lines) /\ Brings(l) = << >>
                BY <3>2 DEF TypeInv, Brings
            <4>2. PacketsIn(Append(swallowed, l)) = PacketsIn(swallowed) \o Brings(l)
                BY <1>2, <4>1, PacketsInUnfold
            <4> QED BY <1>2, <3>2, <4>1, <4>2, PacketSeqs
        <3> QED BY <1>1, <1>10, <3>1, <3>2
    <2> QED BY <1>1, <1>7, <1>9, <2>2, <2>3 DEF PipeInv
<1>11. CASE c.cmd # "line" /\ l.kind = "rx"
    <2>1. PICK p \in Packets : Brings(l) = <<p>>
        BY <1>6, <1>11
    <2>2. Held' = h
        BY <1>1, <1>11 DEF h, Held
    <2> DEFINE a == o \o h
    <2>3. a \in Seq(Packets) /\ <<p>> \o rest \in Seq(Packets)
        BY <1>2, PacketSeqs
    <2>4. Pipe = a \o (<<p>> \o rest) /\ Pipe' = a \o rest
        <3>1. Pipe = o \o (h \o (<<p>> \o rest)) /\ Pipe' = o \o (h \o rest)
            BY <1>8, <2>1, <2>2
        <3>2. o \o (h \o (<<p>> \o rest)) = a \o (<<p>> \o rest)
              /\ o \o (h \o rest) = a \o rest
            <4>1. \A t \in Seq(Packets) : o \o (h \o t) = a \o t
                <5> TAKE t \in Seq(Packets)
                <5> o \in Seq(Packets) /\ h \in Seq(Packets)
                    BY <1>2
                <5> QED BY ConcatAssociative
            <4> HIDE DEF a
            <4> QED BY <1>2, <2>3, <4>1
        <3> QED BY <3>1, <3>2
    <2> HIDE DEF a
    <2>5. Pipe \in Seq(Packets) /\ Pipe' \in Seq(Packets) /\ heard \in Seq(Packets)
        BY <1>2, <2>3, <2>4, PacketSeqs DEF PipeInv
    <2>6. EmbeddedIn(Pipe', Pipe)
        BY <1>2, <2>3, <2>4, EmbDrop
    <2>7. EmbeddedIn(Pipe', heard)
        BY <2>5, <2>6, EmbTrans DEF PipeInv
    <2>8. swallowed \in Seq(Lines) /\ swallowed' = Append(swallowed, l)
        BY <1>1, <1>11 DEF TypeInv, IsReply
    <2>9. PacketsIn(swallowed') = Append(PacketsIn(swallowed), p)
        <3>1. PacketsIn(swallowed') = PacketsIn(swallowed) \o Brings(l)
            BY <1>2, <2>8, PacketsInUnfold
        <3> QED BY <1>2, <2>1, <3>1, PacketSeqs
    <2>10. Len(PacketsIn(swallowed')) = Len(PacketsIn(swallowed)) + 1
           /\ Len(PacketsIn(swallowed)) \in Nat
        BY <1>2, <2>9
    <2>11. Len(Pipe) = Len(Pipe') + 1 /\ Len(Pipe') \in Nat
        BY <1>2, <2>3, <2>4
    <2>12. Len(heard) = Len(Pipe') + Len(PacketsIn(swallowed'))
        BY <2>10, <2>11 DEF PipeInv
    <2> QED BY <1>1, <1>7, <1>9, <2>5, <2>7, <2>12 DEF PipeInv
<1> QED BY <1>10, <1>11

LEMMA NextKeepsHeard ==
    ASSUME TypeInv, LoopInv, HeardInv, [Next]_vars
    PROVE  HeardInv'
<1> USE DEF loop, tnc, exchange, kernel, radio
<1>1. ASSUME UNCHANGED <<fromChip, swallowed, packet, ptyOut, heard>>, LineInv'
      PROVE  HeardInv'
    BY <1>1, PipeKept DEF HeardInv
<1>2. CASE Write
    <2>1. todo' = todo /\ UNCHANGED <<pc, fromChip, swallowed, packet, ptyOut, heard>>
        BY <1>2 DEF Write
    <2>2. LineInv'
        BY <2>1 DEF HeardInv, LineInv
    <2> QED BY <1>1, <2>1, <2>2
<1>3. CASE Read
    BY <1>3, ReadKeepsHeard
<1>4. CASE EndSetup \/ EndSend \/ Poll
    <2>1. /\ todo' = todo /\ UNCHANGED <<fromChip, swallowed, packet, ptyOut, heard>>
          /\ todo = << >> /\ pc # "process"
        BY <1>4 DEF EndSetup, EndSend, Poll, LoopInv
    <2>2. LineInv'
        BY <2>1, EmptySeq DEF HeardInv, LineInv
    <2> QED BY <1>1, <2>1, <2>2
<1>5. CASE Kiss
    <2>1. /\ UNCHANGED <<fromChip, swallowed, packet, ptyOut, heard>>
          /\ pc = "kiss" /\ todo = << >>
        BY <1>5 DEF Kiss, LoopInv
    <2>2. \/ todo' = << >>
          \/ \E b : todo' = <<Cmd("rxstop"), Cmd("set"), Tx(b)>>
        BY <1>5, <2>1 DEF Kiss
    <2>3. \A i \in 1..Len(todo') : todo'[i].cmd # "line"
        <3>1. ASSUME NEW b, todo' = <<Cmd("rxstop"), Cmd("set"), Tx(b)>>
              PROVE  \A i \in 1..Len(todo') : todo'[i].cmd # "line"
            <4>1. Len(todo') = 3 /\ todo'[1] = Cmd("rxstop") /\ todo'[2] = Cmd("set")
                  /\ todo'[3] = Tx(b)
                BY <3>1
            <4> QED BY <4>1 DEF Cmd, Tx
        <3> QED BY <2>2, <3>1, EmptySeq
    <2>4. LineInv'
        BY <2>1, <2>3 DEF HeardInv, LineInv
    <2> QED BY <1>1, <2>1, <2>4
<1>6. CASE Stik
    <2>1. /\ UNCHANGED <<fromChip, swallowed, packet, ptyOut, heard>>
          /\ pc = "stik" /\ todo = << >>
        BY <1>6 DEF Stik, LoopInv
    <2>2. \/ todo' = << >>
          \/ Len(todo') = 1 /\ pc' = "process"
        BY <1>6, <2>1 DEF Stik
    <2>3. LineInv'
        BY <2>1, <2>2, EmptySeq DEF HeardInv, LineInv
    <2> QED BY <1>1, <2>1, <2>3
<1>7. CASE Receive
    BY <1>7, ReceiveKeepsHeard
<1>8. CASE ChipAnswers
    <2>1. PICK k \in {"ok", "busy", "value", "tx_ok", "err"} :
             fromChip' = Append(fromChip, Line(k))
        BY <1>8 DEF ChipAnswers, Answers
    <2>2. UNCHANGED <<todo, pc, packet, ptyOut, heard, swallowed>>
        BY <1>8 DEF ChipAnswers
    <2> QED BY <2>1, <2>2, PlainLineKeeps
<1>9. CASE ChipSent
    BY <1>9, PlainLineKeeps DEF ChipSent
<1>10. CASE ChipErr
    BY <1>10, PlainLineKeeps DEF ChipErr
<1>11. ASSUME NEW p \in Packets, ChipHears(p) PROVE HeardInv'
    BY <1>11, HearsKeeps
<1>12. CASE (\E p \in Packets : KernelSends(p)) \/ UNCHANGED vars
    <2>1. UNCHANGED <<todo, pc, fromChip, swallowed, packet, ptyOut, heard>>
        BY <1>12 DEF KernelSends, vars
    <2>2. LineInv'
        BY <2>1 DEF HeardInv, LineInv
    <2> QED BY <1>1, <2>1, <2>2
<1> QED BY <1>2, <1>3, <1>4, <1>5, <1>6, <1>7, <1>8, <1>9, <1>10, <1>11, <1>12
        DEF Next, Program, Chip

(* What the chip received reaches the pty intact and in order, whatever    *)
(* lines arrive among the replies and whatever bytes the packets hold; the *)
(* packets missing are exactly those whose line was taken for a reply or   *)
(* is still under way.                                                     *)
THEOREM HeardArrives == Spec => []HeardReachesPty
<1>1. TypeInv /\ LoopInv /\ HeardInv => HeardReachesPty
    <2> SUFFICES ASSUME TypeInv, LoopInv, HeardInv PROVE HeardReachesPty
        OBVIOUS
    <2> USE DEF HeardInv
    <2> DEFINE o == Delivered
               h == Held
               c == PacketsIn(fromChip)
    <2>1. /\ o \in Seq(Packets) /\ h \in Seq(Packets) /\ c \in Seq(Packets)
          /\ h \o c \in Seq(Packets) /\ Pipe \in Seq(Packets)
          /\ PacketsIn(swallowed) \in Seq(Packets)
        BY PipeType
    <2>2. Pipe = o \o (h \o c)
        BY DEF Pipe
    <2>3. Len(h) = IF packet = << >> THEN 0 ELSE 1
        BY HeldType
    <2>4. Len(Pipe) = Len(o) + (Len(h) + Len(c)) /\ Len(h) \in Nat
          /\ Len(o) \in Nat /\ Len(c) \in Nat /\ Len(PacketsIn(swallowed)) \in Nat
        <3> HIDE DEF o, h, c
        <3> QED BY <2>1, <2>2, ConcatProperties
    <2>5. EmbeddedIn(o, heard)
        <3>1. EmbeddedIn(o, Pipe)
            <4> HIDE DEF o, h, c
            <4> QED BY <2>1, <2>2, EmbPrefix
        <3> QED BY <2>1, <3>1, EmbTrans DEF PipeInv
    <2>6. Len(heard) = Len(o) + Len(PacketsIn(swallowed)) + Len(c)
                       + (IF packet = << >> THEN 0 ELSE 1)
        <3> HIDE DEF o, h, c
        <3> QED BY <2>3, <2>4 DEF PipeInv
    <2> QED BY <2>5, <2>6 DEF HeardReachesPty, Delivered
<1>2. HeardInv /\ TypeInv /\ LoopInv /\ [Next]_vars => HeardInv'
    BY NextKeepsHeard
<1>3. IInv => TypeInv /\ LoopInv
    BY DEF IInv
<1> QED BY <1>1, <1>2, <1>3, InitHeard, Invariance, PTL DEF Spec

-----------------------------------------------------------------------------
(* The state machine of the pty as a function of its state and a byte.     *)
M(k, f, h) == [kiss |-> k, buf |-> f, handed |-> h]
Machines == [kiss : {"unsync", "reading", "escape"}, buf : Bytes, handed : Seq(Bytes)]

Complete(f, h) == IF f = << >> THEN h ELSE Append(h, f)

MachineByte(m, b) ==
    CASE m.kiss = "unsync" ->
            M(IF b = FEND THEN "reading" ELSE "unsync", m.buf, m.handed)
      [] m.kiss = "reading" /\ b = FEND ->
            M("reading", << >>, Complete(m.buf, m.handed))
      [] m.kiss = "reading" /\ b = FESC -> M("escape", m.buf, m.handed)
      [] m.kiss = "reading" /\ b \notin {FEND, FESC} ->
            M("reading", Append(m.buf, b), m.handed)
      [] m.kiss = "escape" /\ b = TFESC ->
            M("reading", Append(m.buf, FESC), m.handed)
      [] m.kiss = "escape" /\ b = TFEND ->
            M("reading", Append(m.buf, FEND), m.handed)
      [] OTHER -> M("unsync", m.buf, m.handed)

Tnc == INSTANCE FoldFacts WITH Op <- MachineByte
Run(m, bytes) == FoldLeft(MachineByte, m, bytes)

LEMMA RunUnfold ==
    /\ \A m : Run(m, << >>) = m
    /\ \A m : \A b \in Byte : Run(m, <<b>>) = MachineByte(m, b)
    /\ \A m : \A t, u \in Bytes : Run(m, t \o u) = Run(Run(m, t), u)
    /\ \A m : \A t \in Bytes : \A b \in Byte :
           Run(m, Append(t, b)) = MachineByte(Run(m, t), b)
    /\ \A m : \A t \in Bytes : t # << >> =>
           Run(m, t) = Run(MachineByte(m, Head(t)), Tail(t))
<1>1. \A m, t : Run(m, t) = Tnc!Fold(m, t)
    BY DEF Run, Tnc!Fold, FoldLeft, MapThenFoldSet, Tnc!FoldLeft,
           Tnc!MapThenFoldSet, Max, Tnc!Max
<1>2. \A m : Run(m, << >>) = m
    BY <1>1, Tnc!FoldEmpty
<1>3. ASSUME NEW m, NEW b \in Byte PROVE Run(m, <<b>>) = MachineByte(m, b)
    BY <1>1, Tnc!FoldOne
<1>4. ASSUME NEW m, NEW t \in Bytes, NEW u \in Bytes
      PROVE  Run(m, t \o u) = Run(Run(m, t), u)
    BY <1>1, Tnc!FoldConcat DEF Bytes
<1>5. ASSUME NEW m, NEW t \in Bytes, NEW b \in Byte
      PROVE  Run(m, Append(t, b)) = MachineByte(Run(m, t), b)
    <2>1. Append(t, b) = t \o <<b>> /\ <<b>> \in Bytes
        BY Cat
    <2>2. Run(m, t \o <<b>>) = Run(Run(m, t), <<b>>)
        BY <1>4, <2>1
    <2> QED BY <1>3, <2>1, <2>2
<1>6. ASSUME NEW m, NEW t \in Bytes, t # << >>
      PROVE  Run(m, t) = Run(MachineByte(m, Head(t)), Tail(t))
    BY <1>1, <1>6, Tnc!FoldHead DEF Bytes
<1> QED BY <1>2, <1>3, <1>4, <1>5, <1>6, Zenon

LEMMA MFields ==
    \A k, f, h : M(k, f, h).kiss = k /\ M(k, f, h).buf = f /\ M(k, f, h).handed = h
BY DEF M

LEMMA MachineIs ==
    /\ \A m \in Machines : m = M(m.kiss, m.buf, m.handed)
    /\ \A k \in {"unsync", "reading", "escape"} : \A f \in Bytes : \A h \in Seq(Bytes) :
           M(k, f, h) \in Machines
BY DEF Machines, M

LEMMA MachineRules ==
    ASSUME NEW f, NEW h
    PROVE  /\ MachineByte(M("unsync", f, h), FEND) = M("reading", f, h)
           /\ \A b : b # FEND => MachineByte(M("unsync", f, h), b) = M("unsync", f, h)
           /\ MachineByte(M("reading", f, h), FEND) = M("reading", << >>, Complete(f, h))
           /\ MachineByte(M("reading", f, h), FESC) = M("escape", f, h)
           /\ \A b : b \notin {FEND, FESC} =>
                  MachineByte(M("reading", f, h), b) = M("reading", Append(f, b), h)
           /\ MachineByte(M("escape", f, h), TFESC) = M("reading", Append(f, FESC), h)
           /\ MachineByte(M("escape", f, h), TFEND) = M("reading", Append(f, FEND), h)
           /\ \A b : b \notin {TFESC, TFEND} =>
                  MachineByte(M("escape", f, h), b) = M("unsync", f, h)
<1> USE MFields
<1>1. /\ MachineByte(M("unsync", f, h), FEND) = M("reading", f, h)
      /\ \A b : b # FEND => MachineByte(M("unsync", f, h), b) = M("unsync", f, h)
    BY DEF MachineByte, FEND, FESC, TFESC, TFEND
<1>2. MachineByte(M("reading", f, h), FEND) = M("reading", << >>, Complete(f, h))
    BY DEF MachineByte, FEND, FESC, TFESC, TFEND
<1>3. MachineByte(M("reading", f, h), FESC) = M("escape", f, h)
    BY DEF MachineByte, FEND, FESC, TFESC, TFEND
<1>4. ASSUME NEW b, b \notin {FEND, FESC}
      PROVE  MachineByte(M("reading", f, h), b) = M("reading", Append(f, b), h)
    BY <1>4 DEF MachineByte, FEND, FESC, TFESC, TFEND
<1>5. MachineByte(M("escape", f, h), TFESC) = M("reading", Append(f, FESC), h)
    BY DEF MachineByte, FEND, FESC, TFESC, TFEND
<1>6. MachineByte(M("escape", f, h), TFEND) = M("reading", Append(f, FEND), h)
    BY DEF MachineByte, FEND, FESC, TFESC, TFEND
<1>7. ASSUME NEW b, b \notin {TFESC, TFEND}
      PROVE  MachineByte(M("escape", f, h), b) = M("unsync", f, h)
    BY <1>7 DEF MachineByte, FEND, FESC, TFESC, TFEND
<1> QED BY <1>1, <1>2, <1>3, <1>4, <1>5, <1>6, <1>7

(* What was handed to send() stays, and only FESC starts an escape.        *)
LEMMA PacketSeq ==
    /\ << >> \in Seq(Bytes)
    /\ \A f \in Bytes : <<f>> \in Seq(Bytes)
    /\ \A h \in Seq(Bytes) : h \o << >> = h /\ << >> \o h = h
    /\ \A h, e \in Seq(Bytes) : h \o e \in Seq(Bytes)
    /\ \A h \in Seq(Bytes) : \A f \in Bytes :
           Append(h, f) \in Seq(Bytes) /\ Append(h, f) = h \o <<f>>
    /\ \A h, e, d \in Seq(Bytes) : (h \o e) \o d = h \o (e \o d)
<1>1. \A h, e, d \in Seq(Bytes) : (h \o e) \o d = h \o (e \o d)
    <2> TAKE h, e, d \in Seq(Bytes)
    <2> QED BY ConcatAssociative
<1> QED BY <1>1, EmptySeq, ConcatProperties, ConcatEmptySeq, AppendProperties,
           AppendIsConcat

LEMMA MachineByteKeeps ==
    ASSUME NEW m \in Machines, NEW b \in Byte
    PROVE  /\ MachineByte(m, b) \in Machines
           /\ MachineByte(m, b).kiss = "escape" => b = FESC
           /\ \E e \in Seq(Bytes) : MachineByte(m, b).handed = m.handed \o e
<1> DEFINE f == m.buf
           h == m.handed
<1>0. f \in Bytes /\ h \in Seq(Bytes) /\ m.kiss \in {"unsync", "reading", "escape"}
      /\ m = M(m.kiss, f, h)
    BY MachineIs DEF Machines
<1> HIDE DEF f, h
<1>1. /\ << >> \in Seq(Bytes) /\ h \o << >> = h
      /\ Append(h, f) \in Seq(Bytes) /\ Append(h, f) = h \o <<f>> /\ <<f>> \in Seq(Bytes)
      /\ << >> \in Bytes /\ \A c \in Byte : Append(f, c) \in Bytes
    BY <1>0, PacketSeq, Cat
<1>2. PICK k \in {"unsync", "reading", "escape"}, g \in Bytes, i \in {h, Append(h, f)} :
         MachineByte(m, b) = M(k, g, i) /\ (k = "escape" => b = FESC)
    <2>1. CASE m.kiss = "unsync"
        <3>1. MachineByte(m, b) \in {M("reading", f, h), M("unsync", f, h)}
            BY <1>0, <2>1, MachineRules
        <3> QED BY <1>0, <3>1
    <2>2. CASE m.kiss = "reading"
        <3>1. CASE b = FEND
            <4>1. MachineByte(m, b) = M("reading", << >>, Complete(f, h))
                BY <1>0, <2>2, <3>1, MachineRules
            <4>2. Complete(f, h) \in {h, Append(h, f)}
                BY DEF Complete
            <4> QED BY <1>1, <4>1, <4>2
        <3>2. CASE b = FESC
            BY <1>0, <1>1, <2>2, <3>2, MachineRules
        <3>3. CASE b \notin {FEND, FESC}
            BY <1>0, <1>1, <2>2, <3>3, MachineRules
        <3> QED BY <3>1, <3>2, <3>3
    <2>3. CASE m.kiss = "escape"
        <3>1. MachineByte(m, b) \in {M("reading", Append(f, FESC), h),
                                     M("reading", Append(f, FEND), h), M("unsync", f, h)}
            <4>1. CASE b = TFESC
                BY <1>0, <2>3, <4>1, MachineRules
            <4>2. CASE b = TFEND
                BY <1>0, <2>3, <4>2, MachineRules
            <4>3. CASE b \notin {TFESC, TFEND}
                BY <1>0, <2>3, <4>3, MachineRules
            <4> QED BY <4>1, <4>2, <4>3
        <3>2. Append(f, FESC) \in Bytes /\ Append(f, FEND) \in Bytes
            BY <1>1, NamedBytes
        <3> QED BY <1>0, <3>1, <3>2
    <2> QED BY <1>0, <2>1, <2>2, <2>3
<1>3. i \in Seq(Bytes) /\ \E e \in Seq(Bytes) : i = h \o e
    BY <1>0, <1>1
<1>4. MachineByte(m, b) \in Machines /\ MachineByte(m, b).kiss = k
      /\ MachineByte(m, b).handed = i
    <2>1. M(k, g, i) \in Machines
        BY <1>3, MachineIs
    <2>2. M(k, g, i).kiss = k /\ M(k, g, i).handed = i
        BY MFields
    <2> QED BY <1>2, <2>1, <2>2
<1> QED BY <1>2, <1>3, <1>4 DEF h

LEMMA RunKeeps ==
    ASSUME NEW m \in Machines
    PROVE  \A s \in Bytes :
               /\ Run(m, s) \in Machines
               /\ \E e \in Seq(Bytes) : Run(m, s).handed = m.handed \o e
<1> DEFINE P == {s \in Bytes : /\ Run(m, s) \in Machines
                               /\ \E e \in Seq(Bytes) : Run(m, s).handed = m.handed \o e}
<1>1. << >> \in P
    <2>1. m.handed \in Seq(Bytes)
        BY DEF Machines
    <2>2. << >> \in Seq(Bytes) /\ m.handed \o << >> = m.handed
        BY <2>1, EmptySeq, ConcatEmptySeq
    <2> QED BY <2>2, RunUnfold, Cat
<1>2. \A s \in Seq(Byte) : s \in P => \A b \in Byte : Append(s, b) \in P
    <2> SUFFICES ASSUME NEW s \in Seq(Byte), s \in P, NEW b \in Byte
                 PROVE  Append(s, b) \in P
        OBVIOUS
    <2>1. s \in Bytes /\ Append(s, b) \in Bytes
        BY Cat DEF Bytes
    <2>2. Run(m, Append(s, b)) = MachineByte(Run(m, s), b)
        BY <2>1, RunUnfold
    <2>3. PICK e \in Seq(Bytes) : Run(m, s).handed = m.handed \o e
        OBVIOUS
    <2>4. PICK d \in Seq(Bytes) :
             MachineByte(Run(m, s), b).handed = Run(m, s).handed \o d
        BY MachineByteKeeps
    <2>5. m.handed \in Seq(Bytes)
        BY DEF Machines
    <2>6. (m.handed \o e) \o d = m.handed \o (e \o d) /\ e \o d \in Seq(Bytes)
        BY <2>5, PacketSeq
    <2> QED BY <2>1, <2>2, <2>3, <2>4, <2>6, MachineByteKeeps
<1> HIDE DEF P
<1>3. \A s \in Seq(Byte) : s \in P
    BY <1>1, <1>2, Tnc!SeqInduction
<1> QED BY <1>3 DEF P, Bytes

LEMMA RunNotEscaping ==
    ASSUME NEW m \in Machines
    PROVE  \A s \in Bytes : s # << >> /\ Last(s) # FESC => Run(m, s).kiss # "escape"
<1> DEFINE P == {s \in Bytes : s # << >> /\ Last(s) # FESC => Run(m, s).kiss # "escape"}
<1>1. << >> \in P
    BY Cat
<1>2. \A s \in Seq(Byte) : s \in P => \A b \in Byte : Append(s, b) \in P
    <2> SUFFICES ASSUME NEW s \in Seq(Byte), NEW b \in Byte
                 PROVE  Append(s, b) \in P
        OBVIOUS
    <2>1. s \in Bytes /\ Append(s, b) \in Bytes
        BY Cat DEF Bytes
    <2>2. Last(Append(s, b)) = b
        BY DEF Last
    <2>3. Run(m, Append(s, b)) = MachineByte(Run(m, s), b)
        BY <2>1, RunUnfold
    <2>4. MachineByte(Run(m, s), b).kiss = "escape" => b = FESC
        <3>1. Run(m, s) \in Machines
            BY <2>1, RunKeeps
        <3> QED BY <3>1, MachineByteKeeps
    <2> QED BY <2>1, <2>2, <2>3, <2>4
<1> HIDE DEF P
<1>3. \A s \in Seq(Byte) : s \in P
    BY <1>1, <1>2, Tnc!SeqInduction
<1> QED BY <1>3 DEF P, Bytes

(* The machine undoes the escaping, and hands a frame over with its        *)
(* command byte and what was in buf before it.                             *)
LEMMA RunEscapeByte ==
    ASSUME NEW f, NEW h, NEW b \in Byte
    PROVE  Run(M("reading", f, h), Escape(b)) = M("reading", Append(f, b), h)
<1>1. ASSUME NEW c \in Byte
      PROVE  Run(M("reading", f, h), <<FESC, c>>) = MachineByte(M("escape", f, h), c)
    <2>1. <<FESC, c>> = <<FESC>> \o <<c>> /\ <<FESC>> \in Bytes /\ <<c>> \in Bytes
        BY NamedBytes, Cat
    <2>2. Run(M("reading", f, h), <<FESC>> \o <<c>>)
          = Run(Run(M("reading", f, h), <<FESC>>), <<c>>)
        BY <2>1, RunUnfold, Zenon
    <2>3. Run(M("reading", f, h), <<FESC>>) = M("escape", f, h)
        <3>1. Run(M("reading", f, h), <<FESC>>) = MachineByte(M("reading", f, h), FESC)
            BY NamedBytes, RunUnfold, Zenon
        <3> QED BY <3>1, MachineRules
    <2>4. Run(M("escape", f, h), <<c>>) = MachineByte(M("escape", f, h), c)
        BY RunUnfold, Zenon
    <2> QED BY <2>1, <2>2, <2>3, <2>4, Zenon
<1>2. CASE b = FEND
    <2>1. Escape(b) = <<FESC, TFEND>>
        BY <1>2 DEF Escape, FEND, FESC
    <2> QED BY <1>1, <1>2, <2>1, NamedBytes, MachineRules, Zenon
<1>3. CASE b = FESC
    <2>1. Escape(b) = <<FESC, TFESC>>
        BY <1>3 DEF Escape, FEND, FESC
    <2> QED BY <1>1, <1>3, <2>1, NamedBytes, MachineRules, Zenon
<1>4. CASE b \notin {FEND, FESC}
    <2>1. Escape(b) = <<b>>
        BY <1>4 DEF Escape
    <2>2. MachineByte(M("reading", f, h), b) = M("reading", Append(f, b), h)
        BY <1>4, MachineRules
    <2>3. Run(M("reading", f, h), <<b>>) = MachineByte(M("reading", f, h), b)
        BY RunUnfold, Zenon
    <2> QED BY <2>1, <2>2, <2>3, Zenon
<1> QED BY <1>2, <1>3, <1>4

LEMMA RunEscaped ==
    ASSUME NEW f \in Bytes, NEW h
    PROVE  \A p \in Bytes : Run(M("reading", f, h), Escaped(p)) = M("reading", f \o p, h)
<1> DEFINE P == {p \in Bytes :
                    Run(M("reading", f, h), Escaped(p)) = M("reading", f \o p, h)}
<1>1. << >> \in P
    <2>1. Escaped(<< >>) = << >> /\ f \o << >> = f /\ << >> \in Bytes
        BY EscapedUnfold, Cat
    <2>2. Run(M("reading", f, h), << >>) = M("reading", f, h)
        BY RunUnfold, Zenon
    <2> QED BY <2>1, <2>2
<1>2. \A p \in Seq(Byte) : p \in P => \A b \in Byte : Append(p, b) \in P
    <2> TAKE p \in Seq(Byte)
    <2> SUFFICES ASSUME p \in P, NEW b \in Byte PROVE Append(p, b) \in P
        OBVIOUS
    <2>1. /\ p \in Bytes /\ Append(p, b) \in Bytes /\ Append(p, b) = p \o <<b>>
          /\ <<b>> \in Bytes /\ f \o p \in Bytes
        BY Cat
    <2>2. Append(f \o p, b) = f \o Append(p, b)
        <3>1. Append(f \o p, b) = (f \o p) \o <<b>>
            BY <2>1, Cat
        <3>2. (f \o p) \o <<b>> = f \o (p \o <<b>>)
            BY <2>1, Assoc
        <3> QED BY <2>1, <3>1, <3>2
    <2>3. Escaped(Append(p, b)) = Escaped(p) \o Escape(b)
        BY <2>1, EscapedUnfold
    <2>4. Escaped(p) \in Bytes /\ Escape(b) \in Bytes
        BY <2>1, EscapedType, EscapeType
    <2>5. Run(M("reading", f, h), Escaped(p) \o Escape(b))
          = Run(Run(M("reading", f, h), Escaped(p)), Escape(b))
        BY <2>4, RunUnfold, Zenon
    <2>6. Run(M("reading", f, h), Escaped(p)) = M("reading", f \o p, h)
        OBVIOUS
    <2>7. Run(M("reading", f \o p, h), Escape(b)) = M("reading", Append(f \o p, b), h)
        BY RunEscapeByte, Zenon
    <2>8. Run(M("reading", f, h), Escaped(Append(p, b)))
          = M("reading", f \o Append(p, b), h)
        BY <2>2, <2>3, <2>5, <2>6, <2>7, Zenon
    <2> QED BY <2>1, <2>8
<1> HIDE DEF P
<1>3. \A p \in Seq(Byte) : p \in P
    BY <1>1, <1>2, Tnc!SeqInduction
<1> QED BY <1>3 DEF P, Bytes

LEMMA RunFramed ==
    ASSUME NEW f \in Bytes, NEW h \in Seq(Bytes), NEW p \in Packets
    PROVE  LET q == <<Data0>> \o p IN
           /\ Run(M("unsync", f, h), Framed(p)) = M("reading", << >>, Append(h, f \o q))
           /\ Run(M("reading", f, h), Framed(p))
              = M("reading", << >>, Append(Complete(f, h), q))
<1> DEFINE q == <<Data0>> \o p
           open == <<FEND, Data0>>
           body == Escaped(p)
           close == <<FEND>>
<1>1. /\ p \in Bytes /\ open \in Bytes /\ body \in Bytes /\ close \in Bytes
      /\ <<FEND>> \in Bytes /\ <<Data0>> \in Bytes /\ q \in Bytes
      /\ open \o body \in Bytes /\ open = <<FEND>> \o <<Data0>>
    <2>1. p \in Bytes
        BY PacketsAreBytes
    <2>2. open = <<FEND>> \o <<Data0>>
        BY NamedBytes, Cat
    <2> QED BY <2>1, <2>2, EscapedType, NamedBytes, Cat
<1>2. Framed(p) = (open \o body) \o close
    BY DEF Framed
<1> HIDE DEF open, body, close, q
<1>3. \A m : Run(m, Framed(p)) = Run(Run(Run(m, open), body), close)
    <2> TAKE m
    <2>1. Run(m, (open \o body) \o close) = Run(Run(m, open \o body), close)
        BY <1>1, RunUnfold
    <2>2. Run(m, open \o body) = Run(Run(m, open), body)
        BY <1>1, RunUnfold
    <2> QED BY <1>2, <2>1, <2>2
<1>4. \A m : Run(m, open) = MachineByte(MachineByte(m, FEND), Data0)
    <2> TAKE m
    <2>1. Run(m, <<FEND>> \o <<Data0>>) = Run(Run(m, <<FEND>>), <<Data0>>)
        BY <1>1, RunUnfold
    <2>2. \A n : Run(n, <<FEND>>) = MachineByte(n, FEND)
                 /\ Run(n, <<Data0>>) = MachineByte(n, Data0)
        BY NamedBytes, RunUnfold
    <2> QED BY <1>1, <2>1, <2>2
(* The rest of the frame, behind g in buf.                                 *)
<1>5. ASSUME NEW g \in Bytes, NEW i
      PROVE  Run(Run(MachineByte(M("reading", g, i), Data0), body), close)
             = M("reading", << >>, Append(i, g \o q))
    <2>1. MachineByte(M("reading", g, i), Data0) = M("reading", Append(g, Data0), i)
        <3>1. Data0 \notin {FEND, FESC}
            BY DEF Data0, FEND, FESC
        <3> QED BY <3>1, MachineRules
    <2>2. Append(g, Data0) \in Bytes /\ Append(g, Data0) \o p = g \o q
        <3>1. Append(g, Data0) \in Bytes /\ Append(g, Data0) = g \o <<Data0>>
            BY NamedBytes, Cat
        <3>2. (g \o <<Data0>>) \o p = g \o (<<Data0>> \o p)
            <4> DEFINE z == <<Data0>>
            <4>1. z \in Bytes /\ p \in Bytes /\ g \in Bytes
                BY <1>1, <1>5
            <4> HIDE DEF z
            <4>2. (g \o z) \o p = g \o (z \o p)
                BY <4>1, Assoc
            <4> QED BY <4>2 DEF z
        <3> QED BY <3>1, <3>2 DEF q
    <2>3. Run(M("reading", Append(g, Data0), i), body) = M("reading", g \o q, i)
        <3>1. Run(M("reading", Append(g, Data0), i), Escaped(p))
              = M("reading", Append(g, Data0) \o p, i)
            BY <1>1, <2>2, RunEscaped
        <3> QED BY <2>2, <3>1 DEF body
    <2>4. Run(M("reading", g \o q, i), close) = MachineByte(M("reading", g \o q, i), FEND)
        BY NamedBytes, RunUnfold DEF close
    <2>5. MachineByte(M("reading", g \o q, i), FEND)
          = M("reading", << >>, Complete(g \o q, i))
        BY MachineRules, Zenon
    <2>6. Complete(g \o q, i) = Append(i, g \o q)
        <3>1. q # << >>
            BY BringsWhat DEF q
        <3>2. g \o q # << >>
            <4>1. g \in Seq(Byte) /\ q \in Seq(Byte)
                BY <1>1 DEF Bytes
            <4> QED BY <3>1, <4>1, EmptySeq
        <3> QED BY <3>2 DEF Complete
    <2> QED BY <2>1, <2>3, <2>4, <2>5, <2>6
<1>6. Run(M("unsync", f, h), Framed(p)) = M("reading", << >>, Append(h, f \o q))
    <2>1. MachineByte(M("unsync", f, h), FEND) = M("reading", f, h)
        BY MachineRules, Zenon
    <2> QED BY <1>3, <1>4, <1>5, <2>1
<1>7. Run(M("reading", f, h), Framed(p)) = M("reading", << >>, Append(Complete(f, h), q))
    <2>1. MachineByte(M("reading", f, h), FEND) = M("reading", << >>, Complete(f, h))
        BY MachineRules, Zenon
    <2>2. << >> \in Bytes /\ << >> \o q = q
        BY <1>1, Cat
    <2> QED BY <1>3, <1>4, <1>5, <2>1, <2>2
<1> QED BY <1>6, <1>7 DEF q

LEMMA FramedType == \A p \in Packets : Framed(p) \in Bytes /\ <<Data0>> \o p \in Bytes
<1> TAKE p \in Packets
<1>1. p \in Bytes /\ Escaped(p) \in Bytes
    BY PacketsAreBytes, EscapedType
<1>2. <<FEND, Data0>> \in Bytes /\ <<FEND>> \in Bytes /\ <<Data0>> \in Bytes
    BY NamedBytes, Cat
<1> QED BY <1>1, <1>2, Cat DEF Framed

(* A frame behind garbage is handed over as the end of a packet; what the  *)
(* garbage made of itself is handed over before it.                        *)
LEMMA FrameArrives ==
    ASSUME NEW m \in Machines, m.kiss # "escape",
           NEW g \in Garbage \cup {<< >>}, NEW p \in Packets
    PROVE  \E e \in Seq(Bytes), x \in Bytes :
               /\ Run(m, g \o Framed(p))
                  = M("reading", << >>, Append(m.handed \o e, x \o (<<Data0>> \o p)))
               /\ g = << >> /\ m.buf = << >> => e = << >> /\ x = << >>
<1> DEFINE q == <<Data0>> \o p
           n == Run(m, g)
<1>1. g \in Bytes /\ Framed(p) \in Bytes /\ q \in Bytes /\ << >> \in Bytes
    BY PacketsAreBytes, FramedType, Cat
<1>2. Run(m, g \o Framed(p)) = Run(n, Framed(p))
    BY <1>1, RunUnfold
<1>3. /\ n \in Machines
      /\ \E e \in Seq(Bytes) : n.handed = m.handed \o e
    BY <1>1, RunKeeps
<1>4. n.kiss # "escape" /\ (g = << >> => n = m)
    <2>1. CASE g = << >>
        BY <2>1, RunUnfold
    <2>2. CASE g # << >>
        BY <1>1, <2>2, LoraAssumption, RunNotEscaping
    <2> QED BY <2>1, <2>2
<1> HIDE DEF n, q
<1>5. n = M(n.kiss, n.buf, n.handed) /\ n.buf \in Bytes /\ n.handed \in Seq(Bytes)
      /\ m.handed \in Seq(Bytes) /\ n.kiss \in {"unsync", "reading"}
    BY <1>3, <1>4, MachineIs DEF Machines
<1>6. PICK e \in Seq(Bytes) : n.handed = m.handed \o e /\ (g = << >> => e = << >>)
    <2>1. CASE g = << >>
        <3>1. << >> \in Seq(Bytes) /\ m.handed = m.handed \o << >>
            BY <1>5, PacketSeq
        <3> QED BY <1>4, <2>1, <3>1
    <2>2. CASE g # << >>
        BY <1>3, <2>2
    <2> QED BY <2>1, <2>2
<1>7. CASE n.kiss = "unsync"
    <2>1. Run(M("unsync", n.buf, n.handed), Framed(p))
          = M("reading", << >>, Append(n.handed, n.buf \o q))
        BY <1>5, RunFramed DEF q
    <2>2. Run(m, g \o Framed(p)) = M("reading", << >>, Append(m.handed \o e, n.buf \o q))
        BY <1>2, <1>5, <1>6, <1>7, <2>1
    <2> QED BY <1>4, <1>5, <1>6, <2>2 DEF q
<1>8. CASE n.kiss = "reading"
    <2>1. Run(M("reading", n.buf, n.handed), Framed(p))
          = M("reading", << >>, Append(Complete(n.buf, n.handed), q))
        BY <1>5, RunFramed DEF q
    <2>2. PICK d \in Seq(Bytes) : Complete(n.buf, n.handed) = n.handed \o d
                                  /\ (n.buf = << >> => d = << >>)
        <3>1. CASE n.buf = << >>
            BY <1>5, <3>1, PacketSeq DEF Complete
        <3>2. CASE n.buf # << >>
            <4>1. Complete(n.buf, n.handed) = n.handed \o <<n.buf>>
                  /\ <<n.buf>> \in Seq(Bytes)
                BY <1>5, <3>2, PacketSeq DEF Complete
            <4> QED BY <3>2, <4>1
        <3> QED BY <3>1, <3>2
    <2>3. /\ (m.handed \o e) \o d = m.handed \o (e \o d) /\ e \o d \in Seq(Bytes)
          /\ e = << >> /\ d = << >> => e \o d = << >>
        BY <1>5, PacketSeq
    <2>4. << >> \o q = q
        BY <1>1, Cat
    <2>5. Run(m, g \o Framed(p))
          = M("reading", << >>, Append(m.handed \o (e \o d), << >> \o q))
        BY <1>2, <1>5, <1>6, <1>8, <2>1, <2>2, <2>3, <2>4
    <2> QED BY <1>1, <1>4, <1>6, <2>2, <2>3, <2>5 DEF q
<1> QED BY <1>5, <1>7, <1>8

-----------------------------------------------------------------------------
(* What the machine will have done when the bytes on the pty are read.     *)
Final == Run(M(kiss, buf, handed), ptyIn)

TncType ==
    /\ kiss \in {"unsync", "reading", "escape"} /\ buf \in Bytes
    /\ handed \in Seq(Bytes) /\ ptyIn \in Bytes /\ frames \in Seq(Packets)

ReadyInv == pc = "kiss" /\ "master" \in ready => ptyIn # << >>

EndsIn(u) ==
    /\ Len(u) = Len(frames)
    /\ \A i \in 1..Len(frames) : IsSuffix(<<Data0>> \o frames[i], u[i])

FinalInv ==
    /\ Final.kiss # "escape"
    /\ ~noise => Final.buf = << >> /\ Final.handed = WithCommand
    /\ \E u \in Seq(Bytes) : EndsIn(u) /\ EmbeddedIn(u, Final.handed)

FramesInv == TncType /\ ReadyInv /\ FinalInv

LEMMA EndIsSuffix ==
    \A x, q \in Bytes : IsSuffix(q, x \o q)
<1> TAKE x, q \in Bytes
<1> DEFINE m == Len(x)
           n == Len(q)
           t == x \o q
           a == Reverse(q)
           b == Reverse(t)
<1>1. /\ m \in Nat /\ n \in Nat /\ t \in Seq(Byte) /\ Len(t) = m + n
      /\ \A i \in 1..n : t[m + i] = q[i]
      /\ \A i \in 1..n : q[i] \in Byte
      /\ \A i \in 1..(m + n) : t[i] \in Byte
    BY DEF Bytes
<1> HIDE DEF m, t
<1>2. /\ a \in Seq(Byte) /\ Len(a) = n /\ \A i \in 1..n : a[i] = q[n - i + 1]
    <2>1. a = [i \in 1..n |-> q[(n - i) + 1]]
        BY DEF Reverse
    <2>2. \A i \in 1..n : (n - i) + 1 \in 1..n
        BY <1>1
    <2> QED BY <1>1, <2>1, <2>2
<1>3. /\ b \in Seq(Byte) /\ Len(b) = m + n
      /\ \A i \in 1..(m + n) : b[i] = t[m + n - i + 1]
    <2>1. b = [i \in 1..(m + n) |-> t[((m + n) - i) + 1]]
        BY <1>1 DEF Reverse
    <2>2. \A i \in 1..(m + n) : ((m + n) - i) + 1 \in 1..(m + n)
        BY <1>1
    <2> QED BY <1>1, <2>1, <2>2
<1> HIDE DEF n, a, b
<1>4. \A i \in 1..n : a[i] = b[i]
    <2> TAKE i \in 1..n
    <2>1. i \in 1..(m + n) /\ n - i + 1 \in 1..n
          /\ m + (n - i + 1) = m + n - i + 1
        BY <1>1
    <2> QED BY <1>1, <1>2, <1>3, <2>1
<1>5. SubSeq(a, 1, Len(a)) = SubSeq(b, 1, Len(a))
    <2>1. n <= m + n /\ n \in Nat
        BY <1>1
    <2>2. SubSeq(a, 1, n) = a
        BY <1>2, SubSeqFull
    <2>3. \A i \in 1..n : b[i] \in Byte
        BY <1>1, <1>2, <1>3
    <2>4. SubSeq(b, 1, n) \in Seq(Byte) /\ Len(SubSeq(b, 1, n)) = n
          /\ \A i \in 1..n : SubSeq(b, 1, n)[i] = b[i]
        <3>1. b \in Seq(Byte) /\ Len(b) = m + n
            BY <1>3
        <3> QED BY <1>1, <2>1, <2>3, <3>1
    <2>5. SubSeq(b, 1, n) = a
        BY <1>2, <1>4, <2>4, SeqEqual
    <2> QED BY <1>2, <2>2, <2>5
<1>6. IsPrefix(a, b)
    BY <1>1, <1>2, <1>3, <1>5 DEF IsPrefix
<1> QED BY <1>6 DEF IsSuffix, a, b, t

(* One byte of the pty: what the model's state does, the machine does.     *)
LEMMA KissIsMachine ==
    ASSUME TncType, ReadyInv, Kiss
    PROVE  \/ /\ ptyIn # << >> /\ ptyIn' = Tail(ptyIn)
              /\ M(kiss, buf, handed)' = MachineByte(M(kiss, buf, handed), Head(ptyIn))
           \/ UNCHANGED <<kiss, buf, handed, ptyIn>>
<1>1. CASE "master" \notin ready
    BY <1>1 DEF Kiss, tnc
<1>2. CASE "master" \in ready
    <2> DEFINE b == Head(ptyIn)
               s == Handle(b)
    <2>1. /\ ptyIn # << >> /\ ptyIn' = Tail(ptyIn)
          /\ kiss' = s.kiss
          /\ buf' = (IF s.complete THEN << >> ELSE s.buf)
          /\ handed' = (IF s.complete /\ s.buf # << >> THEN Append(handed, s.buf)
                        ELSE handed)
        BY <1>2 DEF Kiss, ReadyInv, Cleared
    <2> HIDE DEF b, s
    <2>2. ASSUME NEW k, NEW f, NEW c, s = To(k, f, c)
          PROVE  /\ kiss' = k /\ buf' = (IF c THEN << >> ELSE f)
                 /\ handed' = (IF c /\ f # << >> THEN Append(handed, f) ELSE handed)
        <3>1. s.kiss = k /\ s.buf = f /\ s.complete = c
            BY <2>2 DEF To
        <3> QED BY <2>1, <3>1
    <2>3. M(kiss, buf, handed)' = M(kiss', buf', handed')
        BY DEF M
    <2> DEFINE n == MachineByte(M(kiss, buf, handed), b)
    <2>4. M(kiss', buf', handed') = n
        <3>1. CASE kiss = "unsync"
            <4>1. s = To(IF b = FEND THEN "reading" ELSE "unsync", buf, FALSE)
                BY <3>1 DEF s, Handle, UnsyncByte
            <4>2. kiss' = (IF b = FEND THEN "reading" ELSE "unsync") /\ buf' = buf
                  /\ handed' = handed
                BY <2>1, <2>2, <4>1
            <4>3. CASE b = FEND
                BY <3>1, <4>2, <4>3, MachineRules
            <4>4. CASE b # FEND
                BY <3>1, <4>2, <4>4, MachineRules
            <4> QED BY <4>3, <4>4
        <3>2. CASE kiss = "reading"
            <4>1. s = ReadingByte(b)
                BY <3>2 DEF s, Handle
            <4>2. CASE b = FEND
                <5>1. s = To("reading", buf, TRUE)
                    BY <4>1, <4>2 DEF ReadingByte, FEND, FESC
                <5>2. kiss' = "reading" /\ buf' = << >> /\ handed' = Complete(buf, handed)
                    BY <2>1, <2>2, <5>1 DEF Complete
                <5> QED BY <3>2, <4>2, <5>2, MachineRules
            <4>3. CASE b = FESC
                <5>1. s = To("escape", buf, FALSE)
                    BY <4>1, <4>3 DEF ReadingByte, FEND, FESC
                <5>2. kiss' = "escape" /\ buf' = buf /\ handed' = handed
                    BY <2>1, <2>2, <5>1
                <5> QED BY <3>2, <4>3, <5>2, MachineRules
            <4>4. CASE b \notin {FEND, FESC}
                <5>1. s = To("reading", Append(buf, b), FALSE)
                    BY <4>1, <4>4 DEF ReadingByte, FEND, FESC
                <5>2. kiss' = "reading" /\ buf' = Append(buf, b) /\ handed' = handed
                    BY <2>1, <2>2, <5>1
                <5> QED BY <3>2, <4>4, <5>2, MachineRules
            <4> QED BY <4>2, <4>3, <4>4
        <3>3. CASE kiss = "escape"
            <4>1. s = EscapeByte(b)
                BY <3>3 DEF s, Handle
            <4>2. CASE b = TFESC
                <5>1. s = To("reading", Append(buf, FESC), FALSE)
                    BY <4>1, <4>2 DEF EscapeByte, TFESC, TFEND
                <5>2. kiss' = "reading" /\ buf' = Append(buf, FESC) /\ handed' = handed
                    BY <2>1, <2>2, <5>1
                <5> QED BY <3>3, <4>2, <5>2, MachineRules
            <4>3. CASE b = TFEND
                <5>1. s = To("reading", Append(buf, FEND), FALSE)
                    BY <4>1, <4>3 DEF EscapeByte, TFESC, TFEND
                <5>2. kiss' = "reading" /\ buf' = Append(buf, FEND) /\ handed' = handed
                    BY <2>1, <2>2, <5>1
                <5> QED BY <3>3, <4>3, <5>2, MachineRules
            <4>4. CASE b \notin {TFESC, TFEND}
                <5>1. s = To("unsync", buf, FALSE)
                    BY <4>1, <4>4 DEF EscapeByte, TFESC, TFEND
                <5>2. kiss' = "unsync" /\ buf' = buf /\ handed' = handed
                    BY <2>1, <2>2, <5>1
                <5> QED BY <3>3, <4>4, <5>2, MachineRules
            <4> QED BY <4>2, <4>3, <4>4
        <3> QED BY <3>1, <3>2, <3>3 DEF TncType
    <2> QED BY <2>1, <2>3, <2>4 DEF b
<1> QED BY <1>1, <1>2

LEMMA KissKeepsFrames ==
    ASSUME FramesInv, Kiss
    PROVE  FramesInv'
<1> USE DEF FramesInv
<1> DEFINE m == M(kiss, buf, handed)
           b == Head(ptyIn)
<1>1. m \in Machines
    BY MachineIs DEF TncType
<1>2. pc' = "send" /\ UNCHANGED <<frames, noise>>
    BY DEF Kiss
<1>3. M(kiss, buf, handed)' = M(kiss', buf', handed')
    BY DEF M
<1>4. CASE ptyIn # << >> /\ ptyIn' = Tail(ptyIn) /\ m' = MachineByte(m, b)
    <2>1. b \in Byte /\ ptyIn' \in Bytes /\ ptyIn \in Bytes
        BY <1>4, EmptySeq DEF TncType, Bytes
    <2>2. Final' = Final
        <3>1. Final' = Run(m', ptyIn')
            BY DEF Final
        <3>2. Run(m, ptyIn) = Run(MachineByte(m, b), Tail(ptyIn))
            BY <1>4, <2>1, RunUnfold
        <3> QED BY <1>4, <3>1, <3>2 DEF Final
    <2>3. MachineByte(m, b) \in Machines
        BY <1>1, <2>1, MachineByteKeeps
    <2>4. M(kiss', buf', handed') \in Machines
        BY <1>3, <1>4, <2>3
    <2>5. TncType'
        <3>1. /\ kiss' \in {"unsync", "reading", "escape"} /\ buf' \in Bytes
              /\ handed' \in Seq(Bytes)
            BY <2>4 DEF Machines, M
        <3> QED BY <1>2, <2>1, <3>1 DEF TncType
    <2> QED BY <1>2, <2>2, <2>5 DEF ReadyInv, FinalInv, WithCommand, EndsIn
<1>5. CASE UNCHANGED <<kiss, buf, handed, ptyIn>>
    <2>1. Final' = Final
        BY <1>5 DEF Final
    <2> QED BY <1>2, <1>5, <2>1 DEF TncType, ReadyInv, FinalInv, WithCommand, EndsIn
<1> QED BY <1>4, <1>5, KissIsMachine

LEMMA KernelKeepsFrames ==
    ASSUME FramesInv, NEW p \in Packets, KernelSends(p)
    PROVE  FramesInv'
<1> USE DEF FramesInv, tnc, loop
<1> DEFINE q == <<Data0>> \o p
           m == Final
           M0 == M(kiss, buf, handed)
<1>1. PICK g \in Garbage \cup {<< >>} :
         ptyIn' = ptyIn \o g \o Framed(p) /\ noise' = (noise \/ g # << >>)
    BY DEF KernelSends
<1>2. /\ frames' = Append(frames, p)
      /\ UNCHANGED <<pc, ready, kiss, buf, handed>>
    BY DEF KernelSends
<1>3. /\ g \in Bytes /\ Framed(p) \in Bytes /\ q \in Bytes /\ ptyIn \in Bytes
      /\ g \o Framed(p) \in Bytes /\ M0 \in Machines
    BY PacketsAreBytes, FramedType, Cat, MachineIs DEF TncType
<1>4. ptyIn' = ptyIn \o (g \o Framed(p)) /\ ptyIn' \in Bytes
    <2>1. (ptyIn \o g) \o Framed(p) = ptyIn \o (g \o Framed(p))
        BY <1>3, Assoc
    <2> QED BY <1>1, <1>3, <2>1, Cat
<1>5. Final' = Run(m, g \o Framed(p)) /\ m \in Machines
    <2>1. Final' = Run(M0, ptyIn')
        BY <1>2 DEF Final, M
    <2>2. Run(M0, ptyIn \o (g \o Framed(p))) = Run(Run(M0, ptyIn), g \o Framed(p))
        BY <1>3, RunUnfold
    <2>3. m = Run(M0, ptyIn)
        BY DEF Final
    <2>4. m \in Machines
        BY <1>3, <2>3, RunKeeps
    <2> QED BY <1>4, <2>1, <2>2, <2>3, <2>4
<1>6. TncType'
    <2>1. frames \in Seq(Packets)
        BY DEF TncType
    <2>2. frames' \in Seq(Packets)
        BY <1>2, <2>1
    <2> QED BY <1>2, <1>4, <2>2 DEF TncType
<1>7. ReadyInv'
    <2>1. ptyIn # << >> => ptyIn' # << >>
        <3> DEFINE z == g \o Framed(p)
        <3>1. ptyIn \in Seq(Byte) /\ z \in Seq(Byte) /\ ptyIn' = ptyIn \o z
            BY <1>3, <1>4 DEF Bytes
        <3> HIDE DEF z
        <3> QED BY <3>1, EmptySeq
    <2> QED BY <1>2, <2>1 DEF ReadyInv
<1> HIDE DEF m, q
<1>8. PICK e \in Seq(Bytes), x \in Bytes :
         /\ Final' = M("reading", << >>, Append(m.handed \o e, x \o q))
         /\ g = << >> /\ m.buf = << >> => e = << >> /\ x = << >>
    <2>1. m.kiss # "escape"
        BY DEF FinalInv, m
    <2> QED BY <1>5, <2>1, FrameArrives DEF q
<1>9. /\ (Final.kiss)' = "reading" /\ (Final.buf)' = << >>
      /\ (Final.handed)' = Append(m.handed \o e, x \o q)
      /\ m.handed \in Seq(Bytes) /\ m.handed \o e \in Seq(Bytes) /\ x \o q \in Bytes
    <2>1. m.handed \in Seq(Bytes)
        BY <1>5 DEF Machines
    <2>2. \A z : /\ M("reading", << >>, z).kiss = "reading"
                /\ M("reading", << >>, z).buf = << >>
                /\ M("reading", << >>, z).handed = z
        BY MFields
    <2>3. m.handed \o e \in Seq(Bytes)
        BY <2>1, PacketSeq
    <2>4. x \o q \in Bytes
        <3>1. q \in Bytes
            BY <1>3 DEF q
        <3> QED BY <3>1, Cat
    <2> QED BY <1>8, <2>1, <2>2, <2>3, <2>4
<1>10. WithCommand' = Append(WithCommand, q) /\ WithCommand \in Seq(Bytes)
    <2>1. frames \in Seq(Packets) /\ Len(frames) \in Nat /\ DOMAIN frames = 1..Len(frames)
        BY DEF TncType
    <2>2. /\ Len(frames') = Len(frames) + 1 /\ DOMAIN frames' = 1..(Len(frames) + 1)
          /\ frames'[Len(frames) + 1] = p
          /\ \A i \in 1..Len(frames) : frames'[i] = frames[i] /\ frames[i] \in Packets
        BY <1>2, <2>1
    <2> DEFINE w == WithCommand
    <2>3. w = [i \in 1..Len(frames) |-> <<Data0>> \o frames[i]]
        BY <2>1 DEF WithCommand
    <2>4. \A i \in 1..Len(frames) : <<Data0>> \o frames[i] \in Bytes
        BY <2>2, FramedType
    <2>5. w \in Seq(Bytes) /\ Len(w) = Len(frames)
        BY <2>1, <2>3, <2>4
    <2>6. w' = [i \in 1..(Len(frames) + 1) |-> <<Data0>> \o frames'[i]]
        BY <2>2 DEF WithCommand
    <2>7. w' = [i \in 1..(Len(frames) + 1) |-> IF i <= Len(frames) THEN w[i] ELSE q]
        <3>1. \A i \in 1..(Len(frames) + 1) :
                 <<Data0>> \o frames'[i] = IF i <= Len(frames) THEN w[i] ELSE q
            <4>1. \A i \in 1..Len(frames) : w[i] = <<Data0>> \o frames[i]
                BY <2>3
            <4> HIDE DEF w
            <4> TAKE i \in 1..(Len(frames) + 1)
            <4>2. CASE i = Len(frames) + 1
                BY <2>1, <2>2, <4>2 DEF q
            <4>3. CASE i # Len(frames) + 1
                <5>1. i \in 1..Len(frames)
                    BY <2>1, <4>3
                <5>2. i <= Len(frames) /\ frames'[i] = frames[i]
                    BY <2>1, <2>2, <5>1
                <5>3. w[i] = <<Data0>> \o frames[i]
                    BY <4>1, <5>1
                <5> QED BY <5>2, <5>3
            <4> QED BY <4>2, <4>3
        <3> HIDE DEF w
        <3> QED BY <2>6, <3>1
    <2> HIDE DEF w
    <2>8. w' = Append(w, q)
        <3>1. q \in Bytes
            BY <1>3 DEF q
        <3>2. /\ Append(w, q) \in Seq(Bytes) /\ Len(Append(w, q)) = Len(frames) + 1
              /\ \A i \in 1..(Len(frames) + 1) :
                     Append(w, q)[i] = IF i <= Len(frames) THEN w[i] ELSE q
            BY <2>1, <2>5, <3>1
        <3>3. w' \in Seq(Bytes) /\ Len(w') = Len(frames) + 1
            BY <2>1, <2>5, <2>7, <3>1
        <3> QED BY <2>7, <3>2, <3>3, SeqEqual
    <2> QED BY <2>5, <2>8 DEF w
<1>11. ~noise' => (Final.handed)' = WithCommand'
    <2> SUFFICES ASSUME ~noise' PROVE (Final.handed)' = WithCommand'
        OBVIOUS
    <2>1. g = << >> /\ ~noise
        BY <1>1
    <2>2. m.buf = << >> /\ m.handed = WithCommand
        BY <2>1 DEF FinalInv, m
    <2>3. e = << >> /\ x = << >>
        BY <1>8, <2>1, <2>2
    <2>4. m.handed \o << >> = m.handed /\ << >> \o q = q
        <3>1. q \in Bytes
            BY <1>3 DEF q
        <3> QED BY <1>9, <3>1, PacketSeq, Cat
    <2> QED BY <1>9, <1>10, <2>2, <2>3, <2>4
<1>12. \E u \in Seq(Bytes) : EndsIn(u)' /\ EmbeddedIn(u, (Final.handed)')
    <2>1. PICK u \in Seq(Bytes) : EndsIn(u) /\ EmbeddedIn(u, m.handed)
        BY DEF FinalInv, m
    <2> DEFINE v == Append(u, x \o q)
    <2>2. EmbeddedIn(u, m.handed \o e)
        <3>1. EmbeddedIn(m.handed, m.handed \o e)
            BY <1>9, EmbPrefix
        <3> QED BY <1>9, <2>1, <3>1, EmbTrans
    <2>3. v \in Seq(Bytes) /\ EmbeddedIn(v, (Final.handed)')
        <3>1. EmbeddedIn(Append(u, x \o q), Append(m.handed \o e, x \o q))
            BY <1>9, <2>2, EmbBoth
        <3> QED BY <1>9, <3>1, PacketSeq
    <2>4. EndsIn(v)'
        <3>1. /\ frames \in Seq(Packets) /\ Len(frames) \in Nat /\ Len(u) = Len(frames)
              /\ \A i \in 1..Len(frames) : IsSuffix(<<Data0>> \o frames[i], u[i])
            BY <2>1 DEF TncType, EndsIn
        <3>2. /\ Len(frames') = Len(frames) + 1 /\ frames'[Len(frames) + 1] = p
              /\ \A i \in 1..Len(frames) : frames'[i] = frames[i]
            BY <1>2, <3>1
        <3>3. /\ Len(v) = Len(frames) + 1 /\ v[Len(frames) + 1] = x \o q
              /\ \A i \in 1..Len(frames) : v[i] = u[i]
            BY <1>9, <3>1
        <3> HIDE DEF v
        <3>4. IsSuffix(<<Data0>> \o p, x \o q)
            BY <1>3, EndIsSuffix DEF q
        <3>5. ASSUME NEW i \in 1..(Len(frames) + 1)
              PROVE  IsSuffix(<<Data0>> \o frames'[i], v[i])
            <4>1. CASE i = Len(frames) + 1
                BY <3>2, <3>3, <3>4, <4>1
            <4>2. CASE i # Len(frames) + 1
                <5>1. i \in 1..Len(frames)
                    BY <3>1, <4>2
                <5> QED BY <3>1, <3>2, <3>3, <5>1
            <4> QED BY <4>1, <4>2
        <3> QED BY <3>2, <3>3, <3>5 DEF EndsIn
    <2> QED BY <2>3, <2>4
<1>13. FinalInv'
    BY <1>9, <1>11, <1>12 DEF FinalInv
<1> QED BY <1>6, <1>7, <1>13

LEMMA InitFrames == Init => FramesInv
<1> SUFFICES ASSUME Init PROVE FramesInv
    OBVIOUS
<1>1. << >> \in Bytes /\ << >> \in Seq(Bytes) /\ << >> \in Seq(Packets)
    BY Cat, PacketSeq, PacketSeqs
<1>2. Final = M("unsync", << >>, << >>)
    BY RunUnfold DEF Final, Init
<1>3. Final.kiss = "unsync" /\ Final.buf = << >> /\ Final.handed = << >>
    BY <1>2, MFields
<1>4. WithCommand = << >>
    BY DEF WithCommand, Init
<1>5. EndsIn(<< >>) /\ EmbeddedIn(<< >>, Final.handed)
    BY EmbEmpty DEF EndsIn, Init
<1> QED BY <1>1, <1>3, <1>4, <1>5 DEF FramesInv, TncType, ReadyInv, FinalInv, Init

LEMMA NextKeepsFrames ==
    ASSUME FramesInv, [Next]_vars
    PROVE  FramesInv'
<1> USE DEF loop, tnc, exchange, kernel, radio
<1>1. ASSUME UNCHANGED <<kiss, buf, handed, ptyIn, frames, noise>>, ReadyInv'
      PROVE  FramesInv'
    <2>1. Final' = Final /\ WithCommand' = WithCommand
        BY <1>1 DEF Final, WithCommand
    <2> QED BY <1>1, <2>1 DEF FramesInv, TncType, FinalInv, EndsIn
<1>2. CASE Poll
    <2>1. UNCHANGED <<kiss, buf, handed, ptyIn, frames, noise>>
        BY <1>2 DEF Poll
    <2>2. ReadyInv'
        BY <1>2 DEF Poll, Polled, HasInput, ReadyInv
    <2> QED BY <1>1, <2>1, <2>2
<1>3. CASE EndSetup \/ EndSend \/ Stik \/ Receive
    BY <1>1, <1>3 DEF EndSetup, EndSend, Stik, Receive, ReadyInv
<1>4. CASE Write \/ Read \/ Chip \/ UNCHANGED vars
    <2>1. UNCHANGED <<pc, ready, kiss, buf, handed, ptyIn, frames, noise>>
        BY <1>4 DEF Write, Read, Chip, ChipAnswers, ChipSent, ChipErr, ChipHears, vars
    <2> QED BY <1>1, <2>1 DEF FramesInv, ReadyInv
<1> QED BY <1>2, <1>3, <1>4, KissKeepsFrames, KernelKeepsFrames DEF Next, Program

LEMMA FramesInvariance == Spec => []FramesInv
<1> QED BY InitFrames, NextKeepsFrames, PTL DEF Spec

(* Whatever garbage stands between them, every frame the kernel writes is  *)
(* handed to send(), in order, as the end of a packet.                     *)
THEOREM FramesReachSend == Spec => []EveryFrameReachesSend
<1>1. FramesInv => EveryFrameReachesSend
    <2> SUFFICES ASSUME FramesInv, ptyIn = << >>
                 PROVE  Embedded(IsSuffix, WithCommand, handed)
        BY DEF EveryFrameReachesSend
    <2>1. Final.handed = handed
        BY RunUnfold, MFields DEF Final
    <2>2. PICK u \in Seq(Bytes) : EndsIn(u) /\ EmbeddedIn(u, handed)
        BY <2>1 DEF FramesInv, FinalInv
    <2>3. PICK f \in [DOMAIN u -> DOMAIN handed] :
             /\ \A i \in DOMAIN u : u[i] = handed[f[i]]
             /\ \A i, j \in DOMAIN u : i < j => f[i] < f[j]
        BY <2>2, EmbDef
    <2>4. /\ DOMAIN u = DOMAIN WithCommand
          /\ \A i \in DOMAIN WithCommand : IsSuffix(WithCommand[i], u[i])
        <3>1. DOMAIN WithCommand = 1..Len(frames)
              /\ \A i \in 1..Len(frames) : WithCommand[i] = <<Data0>> \o frames[i]
            BY DEF FramesInv, TncType, WithCommand
        <3>2. DOMAIN u = 1..Len(frames)
            BY <2>2 DEF EndsIn
        <3> QED BY <2>2, <3>1, <3>2 DEF EndsIn
    <2> QED BY <2>3, <2>4 DEF Embedded
<1> QED BY <1>1, FramesInvariance, PTL

-----------------------------------------------------------------------------
(* What is on its way from send() to the air: in commands the chip has not *)
(* handled, in exchanges that are not written.                             *)
TakeTx(s, c) == IF c.cmd = "tx" THEN Append(s, c.data) ELSE s
TxIn(cmds) == FoldLeft(TakeTx, << >>, cmds)
Txs == INSTANCE FoldFacts WITH Op <- TakeTx

Plain == {"get", "pause", "rxstop", "set", "rx", "line"}
Cmds == {Cmd(k) : k \in Plain} \cup {Tx(b) : b \in Bytes}
Carries(c) == IF c.cmd = "tx" THEN <<c.data>> ELSE << >>

Unwritten == IF asked THEN Tail(todo) ELSE todo
OnTheWay == onAir \o (TxIn(toChip) \o TxIn(Unwritten))

SentInv ==
    /\ todo \in Seq(Cmds) /\ toChip \in Seq(Cmds) /\ onAir \in Seq(Bytes)
    /\ EmbeddedIn(OnTheWay, handed)

LEMMA CmdKinds ==
    /\ \A k \in Plain : Cmd(k) \in Cmds /\ Carries(Cmd(k)) = << >> /\ Cmd(k).cmd = k
    /\ \A b \in Bytes : Tx(b) \in Cmds /\ Carries(Tx(b)) = <<b>> /\ Tx(b).cmd = "tx" /\ Tx(b).data = b
<1>1. \A k \in Plain : Cmd(k) \in Cmds /\ Carries(Cmd(k)) = << >> /\ Cmd(k).cmd = k
    BY DEF Cmds, Carries, Cmd, Plain
<1>2. \A b \in Bytes : /\ Tx(b) \in Cmds /\ Carries(Tx(b)) = <<b>>
                      /\ Tx(b).cmd = "tx" /\ Tx(b).data = b
    <2> TAKE b \in Bytes
    <2>1. Tx(b).cmd = "tx" /\ Tx(b).data = b
        BY DEF Tx
    <2>2. Tx(b) \in Cmds
        BY DEF Cmds
    <2> QED BY <2>1, <2>2 DEF Carries
<1> QED BY <1>1, <1>2

LEMMA CarriesWhat ==
    ASSUME NEW c \in Cmds
    PROVE  /\ Carries(c) \in Seq(Bytes)
           /\ c.cmd = "tx" => c.data \in Bytes /\ Carries(c) = <<c.data>>
           /\ c.cmd # "tx" => Carries(c) = << >>
<1>1. CASE c \in {Cmd(k) : k \in Plain}
    <2>1. PICK k \in Plain : c = Cmd(k)
        BY <1>1
    <2>2. c.cmd # "tx" /\ Carries(c) = << >>
        BY <2>1, CmdKinds DEF Plain
    <2> QED BY <2>2, PacketSeq
<1>2. CASE c \in {Tx(b) : b \in Bytes}
    <2>1. PICK b \in Bytes : c = Tx(b)
        BY <1>2
    <2>2. c.cmd = "tx" /\ c.data = b /\ Carries(c) = <<b>>
        BY <2>1, CmdKinds
    <2> QED BY <2>2, PacketSeq
<1> QED BY <1>1, <1>2 DEF Cmds

LEMMA TxInUnfold ==
    /\ TxIn(<< >>) = << >>
    /\ \A s \in Seq(Cmds) : TxIn(s) \in Seq(Bytes)
    /\ \A s \in Seq(Cmds) : \A c \in Cmds : TxIn(Append(s, c)) = TxIn(s) \o Carries(c)
    /\ \A c \in Cmds : TxIn(<<c>>) = Carries(c)
    /\ \A s, t \in Seq(Cmds) : TxIn(s \o t) = TxIn(s) \o TxIn(t)
    /\ \A s \in Seq(Cmds) : s # << >> => TxIn(s) = Carries(Head(s)) \o TxIn(Tail(s))
<1>1. \A s : TxIn(s) = Txs!Fold(<< >>, s)
    BY DEF TxIn, Txs!Fold, FoldLeft, MapThenFoldSet, Txs!FoldLeft,
           Txs!MapThenFoldSet, Max, Txs!Max
<1>2. ASSUME NEW t \in Seq(Bytes), NEW c \in Cmds
      PROVE  TakeTx(t, c) = t \o Carries(c)
    <2>1. /\ c.cmd = "tx" => c.data \in Bytes /\ Carries(c) = <<c.data>>
          /\ c.cmd # "tx" => Carries(c) = << >>
        BY CarriesWhat
    <2>2. t \o << >> = t /\ \A f \in Bytes : Append(t, f) = t \o <<f>>
        BY PacketSeq
    <2> QED BY <2>1, <2>2 DEF TakeTx
<1> DEFINE g == [c \in Cmds |-> Carries(c)]
<1>3. g \in [Cmds -> Seq(Bytes)] /\ \A c \in Cmds : g[c] = Carries(c)
    <2>1. \A c \in Cmds : Carries(c) \in Seq(Bytes)
        BY CarriesWhat
    <2> QED BY <2>1
<1> HIDE DEF g
<1>4. \A t \in Seq(Bytes) : \A c \in Cmds : TakeTx(t, c) = t \o g[c]
    BY <1>2, <1>3
<1>5. Txs!Collects(Cmds, Bytes, g)
    BY <1>3, <1>4, Txs!FoldCollects
<1>6. \A s \in Seq(Cmds) : s # << >> => Head(s) \in Cmds
    BY EmptySeq
<1> QED BY <1>1, <1>3, <1>5, <1>6 DEF Txs!Collects

LEMMA CmdSeq ==
    /\ << >> \in Seq(Cmds)
    /\ \A s \in Seq(Cmds) : s # << >> => Head(s) \in Cmds /\ Tail(s) \in Seq(Cmds)
    /\ \A c \in Cmds : <<c>> \in Seq(Cmds)
    /\ \A c, d \in Cmds : <<c, d>> \in Seq(Cmds)
    /\ \A s, t \in Seq(Cmds) : s \o t \in Seq(Cmds)
    /\ \A s \in Seq(Cmds) : \A c \in Cmds : Append(s, c) \in Seq(Cmds)
<1>1. /\ << >> \in Seq(Cmds)
      /\ \A s, t \in Seq(Cmds) : s \o t \in Seq(Cmds)
      /\ \A s \in Seq(Cmds) : \A c \in Cmds : Append(s, c) \in Seq(Cmds)
    BY EmptySeq, ConcatProperties, AppendProperties
<1>2. \A s \in Seq(Cmds) : s # << >> => Head(s) \in Cmds /\ Tail(s) \in Seq(Cmds)
    BY EmptySeq
<1>3. \A c, d \in Cmds : <<c>> \in Seq(Cmds) /\ <<c, d>> \in Seq(Cmds)
    OBVIOUS
<1> QED BY <1>1, <1>2, <1>3

LEMMA NoTx ==
    \A s \in Seq(Cmds) : (\A i \in 1..Len(s) : s[i].cmd # "tx") => TxIn(s) = << >>
<1> DEFINE P == {s \in Seq(Cmds) :
                    (\A i \in 1..Len(s) : s[i].cmd # "tx") => TxIn(s) = << >>}
<1>1. << >> \in P
    BY CmdSeq, TxInUnfold
<1>2. \A s \in Seq(Cmds) : s \in P => \A c \in Cmds : Append(s, c) \in P
    <2> SUFFICES ASSUME NEW s \in Seq(Cmds), s \in P, NEW c \in Cmds,
                        \A i \in 1..Len(Append(s, c)) : Append(s, c)[i].cmd # "tx"
                 PROVE  TxIn(Append(s, c)) = << >>
        BY CmdSeq
    <2>1. /\ Len(s) \in Nat /\ Len(Append(s, c)) = Len(s) + 1
          /\ Append(s, c)[Len(s) + 1] = c
          /\ \A i \in 1..Len(s) : Append(s, c)[i] = s[i]
        OBVIOUS
    <2>2. c.cmd # "tx" /\ \A i \in 1..Len(s) : s[i].cmd # "tx"
        BY <2>1
    <2>3. TxIn(s) = << >> /\ Carries(c) = << >>
        BY <2>2, CarriesWhat
    <2>4. TxIn(Append(s, c)) = << >> \o << >>
        BY <2>3, TxInUnfold
    <2> QED BY <2>4, PacketSeq
<1> HIDE DEF P
<1>3. \A s \in Seq(Cmds) : s \in P
    BY <1>1, <1>2, Txs!SeqInduction
<1> QED BY <1>3 DEF P

LEMMA NoTxTuples ==
    /\ Setup \in Seq(Cmds) /\ TxIn(Setup) = << >>
    /\ \A l : LedOff(l) \in Seq(Cmds) /\ TxIn(LedOff(l)) = << >>
    /\ \A l : ToListen(l) \in Seq(Cmds) /\ TxIn(ToListen(l)) = << >>
    /\ <<Cmd("line")>> \in Seq(Cmds) /\ TxIn(<<Cmd("line")>>) = << >>
<1>1. /\ \A k \in Plain : Cmd(k) \in Cmds /\ Cmd(k).cmd = k /\ Carries(Cmd(k)) = << >>
      /\ {"get", "pause", "rxstop", "set", "rx", "line"} = Plain /\ "tx" \notin Plain
    BY CmdKinds DEF Plain
<1>2. Setup \in Seq(Cmds) /\ TxIn(Setup) = << >>
    <2>1. Cmd("get") \in Cmds /\ Cmd("pause") \in Cmds /\ Cmd("rxstop") \in Cmds
          /\ Cmd("set") \in Cmds /\ Cmd("rx") \in Cmds
        BY <1>1
    <2>2. Setup \in Seq(Cmds)
        BY <2>1 DEF Setup
    <2>3. Len(Setup) = 6
        BY DEF Setup
    <2>4. \A i \in 1..6 : Setup[i] \in {Cmd(k) : k \in Plain}
        BY DEF Setup, Plain
    <2>5. \A i \in 1..Len(Setup) : Setup[i].cmd # "tx"
        BY <1>1, <2>3, <2>4
    <2> QED BY <2>2, <2>5, NoTx
<1>3. TxIn(<< >>) = << >> /\ << >> \in Seq(Cmds)
    BY TxInUnfold, CmdSeq
<1>4. \A k \in Plain : <<Cmd(k)>> \in Seq(Cmds) /\ TxIn(<<Cmd(k)>>) = << >>
    BY <1>1, TxInUnfold, CmdSeq
<1>5. <<Cmd("get"), Cmd("rx")>> \in Seq(Cmds) /\ TxIn(<<Cmd("get"), Cmd("rx")>>) = << >>
    <2> DEFINE s == <<Cmd("get"), Cmd("rx")>>
    <2>1. s \in Seq(Cmds)
        BY <1>1, CmdSeq
    <2>2. Len(s) = 2 /\ s[1] = Cmd("get") /\ s[2] = Cmd("rx")
        OBVIOUS
    <2> HIDE DEF s
    <2>3. \A i \in 1..Len(s) : s[i].cmd # "tx"
        BY <1>1, <2>2
    <2>4. TxIn(s) = << >>
        BY <2>1, <2>3, NoTx
    <2> QED BY <2>1, <2>4 DEF s
<1> QED BY <1>1, <1>2, <1>3, <1>4, <1>5 DEF LedOff, ToListen

LEMMA SendCmds ==
    ASSUME NEW b \in Bytes
    PROVE  LET s == <<Cmd("rxstop"), Cmd("set"), Tx(b)>>
           IN  s \in Seq(Cmds) /\ TxIn(s) = <<b>>
<1>1. /\ Cmd("rxstop") \in Cmds /\ Cmd("set") \in Cmds /\ Tx(b) \in Cmds
      /\ Cmd("rxstop").cmd = "rxstop" /\ Cmd("set").cmd = "set" /\ Carries(Tx(b)) = <<b>>
    BY CmdKinds DEF Plain
<1> DEFINE t == <<Cmd("rxstop"), Cmd("set")>>
           s == <<Cmd("rxstop"), Cmd("set"), Tx(b)>>
<1>2. Len(t) = 2 /\ t[1] = Cmd("rxstop") /\ t[2] = Cmd("set")
    OBVIOUS
<1>3. s = Append(t, Tx(b))
    OBVIOUS
<1>4. t \in Seq(Cmds)
    BY <1>1, CmdSeq
<1> HIDE DEF t, s
<1>5. TxIn(t) = << >>
    BY <1>1, <1>2, <1>4, NoTx
<1>6. s \in Seq(Cmds) /\ TxIn(s) = << >> \o <<b>>
    BY <1>1, <1>3, <1>4, <1>5, TxInUnfold, CmdSeq
<1>7. << >> \o <<b>> = <<b>>
    BY PacketSeq
<1> QED BY <1>6, <1>7 DEF s

-----------------------------------------------------------------------------
LEMMA WayTypes ==
    ASSUME SentInv, LoopInv
    PROVE  /\ Unwritten \in Seq(Cmds) /\ OnTheWay \in Seq(Bytes)
           /\ TxIn(toChip) \in Seq(Bytes) /\ TxIn(Unwritten) \in Seq(Bytes)
           /\ asked => todo # << >>
           /\ todo = << >> => ~asked /\ Unwritten = << >> /\ TxIn(Unwritten) = << >>
<1>1. asked => todo # << >>
    BY DEF LoopInv
<1>2. Unwritten \in Seq(Cmds)
    BY <1>1, CmdSeq DEF Unwritten, SentInv
<1>3. TxIn(toChip) \in Seq(Bytes) /\ TxIn(Unwritten) \in Seq(Bytes)
    BY <1>2, TxInUnfold DEF SentInv
<1>4. OnTheWay \in Seq(Bytes)
    BY <1>3, PacketSeq DEF OnTheWay, SentInv
<1>5. todo = << >> => ~asked /\ Unwritten = << >> /\ TxIn(Unwritten) = << >>
    BY <1>1, TxInUnfold DEF Unwritten
<1> QED BY <1>1, <1>2, <1>3, <1>4, <1>5

LEMMA InitSent == Init => SentInv
<1> SUFFICES ASSUME Init PROVE SentInv
    OBVIOUS
<1>1. /\ todo = Setup /\ ~asked /\ toChip = << >> /\ onAir = << >> /\ handed = << >>
    BY DEF Init
<1>2. Unwritten = Setup /\ TxIn(Unwritten) = << >> /\ TxIn(toChip) = << >>
    BY <1>1, NoTxTuples, TxInUnfold DEF Unwritten
<1>3. OnTheWay = << >>
    BY <1>1, <1>2, PacketSeq DEF OnTheWay
<1> QED BY <1>1, <1>3, NoTxTuples, CmdSeq, PacketSeq, EmbEmpty DEF SentInv

LEMMA WriteKeepsSent ==
    ASSUME SentInv, LoopInv, Write
    PROVE  SentInv'
<1> DEFINE c == Head(todo)
           r == Tail(todo)
<1>1. /\ todo # << >> /\ ~asked /\ asked' = TRUE /\ UNCHANGED <<todo, onAir, handed>>
      /\ toChip' = IF c.cmd = "line" THEN toChip ELSE Append(toChip, c)
    BY DEF Write, radio
<1>2. /\ todo \in Seq(Cmds) /\ toChip \in Seq(Cmds) /\ onAir \in Seq(Bytes)
      /\ EmbeddedIn(OnTheWay, handed)
    BY DEF SentInv
<1>3. /\ c \in Cmds /\ r \in Seq(Cmds) /\ TxIn(todo) = Carries(c) \o TxIn(r)
      /\ TxIn(r) \in Seq(Bytes) /\ TxIn(toChip) \in Seq(Bytes) /\ Carries(c) \in Seq(Bytes)
      /\ c.cmd # "tx" => Carries(c) = << >>
    BY <1>1, <1>2, CmdSeq, TxInUnfold, CarriesWhat
<1>4. Unwritten = todo /\ Unwritten' = r
    BY <1>1 DEF Unwritten
<1> HIDE DEF c, r
<1>5. TxIn(toChip') = TxIn(toChip) \o Carries(c) /\ toChip' \in Seq(Cmds)
    <2>1. CASE c.cmd = "line"
        BY <1>1, <1>2, <1>3, <2>1, PacketSeq
    <2>2. CASE c.cmd # "line"
        BY <1>1, <1>2, <1>3, <2>2, TxInUnfold, CmdSeq
    <2> QED BY <2>1, <2>2
<1>6. (TxIn(toChip) \o Carries(c)) \o TxIn(r) = TxIn(toChip) \o (Carries(c) \o TxIn(r))
    BY <1>3, PacketSeq
<1>7. OnTheWay' = OnTheWay
    <2>1. OnTheWay' = onAir' \o (TxIn(toChip') \o TxIn(Unwritten'))
        BY DEF OnTheWay, TxIn
    <2> QED BY <1>1, <1>3, <1>4, <1>5, <1>6, <2>1 DEF OnTheWay
<1> QED BY <1>1, <1>2, <1>5, <1>7 DEF SentInv

LEMMA ReadKeepsSent ==
    ASSUME SentInv, LoopInv, handed \in Seq(Bytes), Read
    PROVE  SentInv'
<1> DEFINE c == Head(todo)
           l == Head(fromChip)
           r == IF c.cmd = "line" THEN ToListen(l) ELSE Tail(todo)
<1>1. /\ asked /\ asked' = FALSE /\ UNCHANGED <<toChip, onAir, handed>>
      /\ todo' = LedOff(l) \o r
    BY DEF Read, radio
<1>2. /\ todo \in Seq(Cmds) /\ toChip \in Seq(Cmds) /\ onAir \in Seq(Bytes)
      /\ EmbeddedIn(OnTheWay, handed)
    BY DEF SentInv
<1>3. todo # << >> /\ Unwritten = Tail(todo) /\ OnTheWay \in Seq(Bytes)
      /\ TxIn(toChip) \in Seq(Bytes) /\ TxIn(Unwritten) \in Seq(Bytes)
    BY <1>1, WayTypes DEF Unwritten
<1>4. r \in Seq(Cmds) /\ TxIn(r) \in {<< >>, TxIn(Unwritten)}
    BY <1>2, <1>3, NoTxTuples, CmdSeq
<1> HIDE DEF c, l, r
<1>5. todo' \in Seq(Cmds) /\ TxIn(todo') = TxIn(r)
    <2>1. LedOff(l) \in Seq(Cmds) /\ TxIn(LedOff(l)) = << >>
        BY NoTxTuples
    <2>2. TxIn(LedOff(l) \o r) = << >> \o TxIn(r) /\ LedOff(l) \o r \in Seq(Cmds)
        BY <1>4, <2>1, TxInUnfold, CmdSeq
    <2>3. TxIn(r) \in Seq(Bytes)
        BY <1>4, TxInUnfold
    <2> QED BY <1>1, <2>2, <2>3, PacketSeq
<1>6. OnTheWay' = onAir \o (TxIn(toChip) \o TxIn(r))
    <2>1. OnTheWay' = onAir' \o (TxIn(toChip') \o TxIn(Unwritten')) /\ Unwritten' = todo'
        BY <1>1 DEF OnTheWay, TxIn, Unwritten
    <2> QED BY <1>1, <1>5, <2>1
<1>7. EmbeddedIn(OnTheWay', handed)
    <2>1. CASE TxIn(r) = TxIn(Unwritten)
        BY <1>2, <1>6, <2>1 DEF OnTheWay
    <2>2. CASE TxIn(r) = << >>
        <3> DEFINE w == onAir \o TxIn(toChip)
        <3>1. OnTheWay' = w /\ w \in Seq(Bytes) /\ OnTheWay = w \o TxIn(Unwritten)
            <4>1. OnTheWay' = w
                BY <1>3, <1>6, <2>2, PacketSeq
            <4>2. w \in Seq(Bytes)
                BY <1>2, <1>3, PacketSeq
            <4>3. OnTheWay = w \o TxIn(Unwritten)
                BY <1>2, <1>3, PacketSeq DEF OnTheWay
            <4> QED BY <4>1, <4>2, <4>3
        <3> HIDE DEF w
        <3>2. EmbeddedIn(w, OnTheWay)
            BY <1>3, <3>1, EmbPrefix
        <3> QED BY <1>2, <1>3, <3>1, <3>2, EmbTrans
    <2> QED BY <1>4, <2>1, <2>2
<1> QED BY <1>1, <1>2, <1>5, <1>7 DEF SentInv

LEMMA KissKeepsSent ==
    ASSUME SentInv, LoopInv, FramesInv, Kiss
    PROVE  SentInv'
<1>1. /\ todo = << >> /\ UNCHANGED <<asked, toChip, onAir>>
    BY DEF Kiss, LoopInv, radio
<1>2. /\ toChip \in Seq(Cmds) /\ onAir \in Seq(Bytes) /\ handed \in Seq(Bytes)
      /\ handed' \in Seq(Bytes) /\ EmbeddedIn(OnTheWay, handed)
    BY KissKeepsFrames DEF SentInv, FramesInv, TncType
<1>3. /\ OnTheWay \in Seq(Bytes) /\ TxIn(toChip) \in Seq(Bytes)
      /\ ~asked /\ TxIn(Unwritten) = << >>
    BY <1>1, WayTypes
<1> DEFINE w == onAir \o TxIn(toChip)
<1>4. w \in Seq(Bytes) /\ OnTheWay = w
    BY <1>2, <1>3, PacketSeq DEF OnTheWay
<1>5. OnTheWay' = onAir \o (TxIn(toChip) \o TxIn(todo'))
    <2>1. OnTheWay' = onAir' \o (TxIn(toChip') \o TxIn(Unwritten')) /\ Unwritten' = todo'
        BY <1>1, <1>3 DEF OnTheWay, TxIn, Unwritten
    <2> QED BY <1>1, <2>1
<1>6. PICK x :
         \/ /\ handed' = Append(handed, x)
            /\ todo' \in {<< >>, <<Cmd("rxstop"), Cmd("set"), Tx(x)>>}
         \/ handed' = handed /\ todo' = << >>
    <2>1. CASE "master" \in ready
        BY <2>1 DEF Kiss
    <2>2. CASE "master" \notin ready
        BY <1>1, <2>2 DEF Kiss
    <2> QED BY <2>1, <2>2
<1>7. CASE todo' = << >>
    <2>1. OnTheWay' = w /\ << >> \in Seq(Cmds)
        BY <1>2, <1>3, <1>5, <1>7, TxInUnfold, CmdSeq, PacketSeq
    <2>2. EmbeddedIn(w, handed')
        <3>1. CASE handed' = handed
            BY <1>2, <1>4, <3>1
        <3>2. CASE handed' = Append(handed, x)
            <4>1. x \in Bytes
                BY <1>2, <3>2, AppendProperties
            <4> QED BY <1>2, <1>4, <3>2, <4>1, EmbRight
        <3> QED BY <1>6, <3>1, <3>2
    <2> QED BY <1>1, <1>2, <1>7, <2>1, <2>2 DEF SentInv
<1>8. CASE todo' # << >>
    <2>1. /\ handed' = Append(handed, x)
          /\ todo' = <<Cmd("rxstop"), Cmd("set"), Tx(x)>>
        BY <1>6, <1>8
    <2>2. x \in Bytes
        <3>1. Len(handed) \in Nat /\ Len(handed') = Len(handed) + 1
              /\ handed'[Len(handed) + 1] = x
            BY <1>2, <2>1
        <3> QED BY <1>2, <3>1
    <2>3. todo' \in Seq(Cmds) /\ TxIn(todo') = <<x>>
        BY <2>1, <2>2, SendCmds
    <2>4. OnTheWay' = Append(w, x)
        BY <1>2, <1>3, <1>4, <1>5, <2>2, <2>3, PacketSeq
    <2> HIDE DEF w
    <2>5. EmbeddedIn(Append(w, x), handed')
        BY <1>2, <1>4, <2>1, <2>2, EmbBoth
    <2> QED BY <1>1, <1>2, <2>3, <2>4, <2>5 DEF SentInv
<1> QED BY <1>7, <1>8

LEMMA ChipKeepsSent ==
    ASSUME SentInv, LoopInv, handed \in Seq(Bytes), ChipAnswers
    PROVE  SentInv'
<1> DEFINE c == Head(toChip)
           r == Tail(toChip)
           u == TxIn(Unwritten)
<1>1. /\ toChip # << >> /\ toChip' = r /\ Answers(c)
      /\ UNCHANGED <<todo, asked, handed>>
    BY DEF ChipAnswers, exchange
<1>2. /\ todo \in Seq(Cmds) /\ toChip \in Seq(Cmds) /\ onAir \in Seq(Bytes)
      /\ EmbeddedIn(OnTheWay, handed)
    BY DEF SentInv
<1>3. OnTheWay \in Seq(Bytes) /\ u \in Seq(Bytes)
    BY WayTypes
<1>4. /\ c \in Cmds /\ r \in Seq(Cmds) /\ TxIn(toChip) = Carries(c) \o TxIn(r)
      /\ TxIn(r) \in Seq(Bytes) /\ Carries(c) \in Seq(Bytes)
      /\ c.cmd = "tx" => c.data \in Bytes /\ Carries(c) = <<c.data>>
      /\ c.cmd # "tx" => Carries(c) = << >>
    BY <1>1, <1>2, CmdSeq, TxInUnfold, CarriesWhat
<1> HIDE DEF c, r
<1>5. OnTheWay' = onAir' \o (TxIn(r) \o u)
    <2>1. OnTheWay' = onAir' \o (TxIn(toChip') \o TxIn(Unwritten')) /\ Unwritten' = Unwritten
        BY <1>1 DEF OnTheWay, TxIn, Unwritten
    <2> QED BY <1>1, <2>1
<1> HIDE DEF u
<1>6. OnTheWay = onAir \o (Carries(c) \o (TxIn(r) \o u)) /\ TxIn(r) \o u \in Seq(Bytes)
    <2>1. TxIn(r) \in Seq(Bytes) /\ Carries(c) \in Seq(Bytes)
          /\ TxIn(toChip) = Carries(c) \o TxIn(r)
        BY <1>4
    <2>2. (Carries(c) \o TxIn(r)) \o u = Carries(c) \o (TxIn(r) \o u)
          /\ TxIn(r) \o u \in Seq(Bytes)
        BY <1>3, <2>1, PacketSeq
    <2>3. OnTheWay = onAir \o (TxIn(toChip) \o u)
        BY DEF OnTheWay, u
    <2> QED BY <2>1, <2>2, <2>3
<1>7. onAir' = onAir \/ (c.cmd = "tx" /\ onAir' = Append(onAir, c.data))
    BY <1>1 DEF Answers
<1>8. CASE onAir' = onAir
    <2>1. EmbeddedIn(OnTheWay', OnTheWay)
        <3> DEFINE b == TxIn(r) \o u
        <3>1. b \in Seq(Bytes) /\ OnTheWay' = onAir \o b
              /\ OnTheWay = onAir \o (Carries(c) \o b)
            BY <1>5, <1>6, <1>8
        <3> HIDE DEF b
        <3>2. CASE c.cmd = "tx"
            BY <1>2, <1>4, <3>1, <3>2, EmbDrop
        <3>3. CASE c.cmd # "tx"
            <4>1. OnTheWay' = OnTheWay /\ OnTheWay \o << >> = OnTheWay
                  /\ << >> \in Seq(Bytes)
                BY <1>3, <1>4, <3>1, <3>3, PacketSeq
            <4>2. EmbeddedIn(OnTheWay, OnTheWay \o << >>)
                BY <1>3, <4>1, EmbPrefix
            <4> QED BY <4>1, <4>2
        <3> QED BY <3>2, <3>3
    <2>2. OnTheWay' \in Seq(Bytes)
        BY <1>2, <1>5, <1>6, <1>8, PacketSeq
    <2>3. EmbeddedIn(OnTheWay', handed)
        BY <1>2, <1>3, <2>1, <2>2, EmbTrans
    <2> QED BY <1>1, <1>2, <1>4, <1>8, <2>3 DEF SentInv
<1>9. CASE c.cmd = "tx" /\ onAir' = Append(onAir, c.data)
    <2>1. onAir' = onAir \o Carries(c) /\ onAir' \in Seq(Bytes)
        <3>1. c.data \in Bytes /\ Carries(c) = <<c.data>>
            BY <1>4, <1>9
        <3> DEFINE x == c.data
        <3>2. x \in Bytes /\ Carries(c) = <<x>> /\ onAir' = Append(onAir, x)
            BY <1>9, <3>1
        <3> HIDE DEF x
        <3> QED BY <1>2, <3>2, PacketSeq
    <2>2. OnTheWay' = OnTheWay
        <3> DEFINE a == Carries(c)
                   b == TxIn(r) \o u
        <3>1. a \in Seq(Bytes)
            BY <1>4
        <3>2. b \in Seq(Bytes) /\ OnTheWay' = onAir' \o b /\ OnTheWay = onAir \o (a \o b)
              /\ onAir' = onAir \o a
            BY <1>5, <1>6, <2>1
        <3> HIDE DEF a, b
        <3>3. (onAir \o a) \o b = onAir \o (a \o b)
            BY <1>2, <3>1, <3>2, PacketSeq
        <3> QED BY <3>2, <3>3
    <2> QED BY <1>1, <1>2, <1>4, <2>1, <2>2 DEF SentInv
<1> QED BY <1>7, <1>8, <1>9

LEMMA NextKeepsSent ==
    ASSUME SentInv, LoopInv, FramesInv, [Next]_vars
    PROVE  SentInv'
<1> USE DEF loop, tnc, exchange, kernel, radio
<1>1. handed \in Seq(Bytes)
    BY DEF FramesInv, TncType
<1>2. CASE Stik
    <2>1. todo = << >> /\ UNCHANGED <<asked, toChip, onAir, handed>>
          /\ todo' \in {<< >>, <<Cmd("line")>>}
        BY <1>2 DEF Stik, LoopInv
    <2>2. ~asked /\ TxIn(Unwritten) = << >>
        BY <2>1, WayTypes
    <2>3. TxIn(todo') = << >> /\ todo' \in Seq(Cmds)
        BY <2>1, NoTxTuples, TxInUnfold, CmdSeq
    <2>4. OnTheWay' = OnTheWay
        <3>1. OnTheWay' = onAir' \o (TxIn(toChip') \o TxIn(Unwritten'))
              /\ Unwritten' = todo'
            BY <2>1, <2>2 DEF OnTheWay, TxIn, Unwritten
        <3> QED BY <2>1, <2>2, <2>3, <3>1 DEF OnTheWay
    <2> QED BY <2>1, <2>3, <2>4 DEF SentInv
<1>3. ASSUME UNCHANGED <<todo, asked, toChip, onAir, handed>> PROVE SentInv'
    BY <1>3 DEF SentInv, OnTheWay, Unwritten
<1>4. CASE EndSetup \/ Poll \/ EndSend \/ Receive \/ UNCHANGED vars
    BY <1>3, <1>4 DEF EndSetup, Poll, EndSend, Receive, vars
<1>5. ASSUME NEW p \in Packets, ChipHears(p) \/ KernelSends(p)
      PROVE  SentInv'
    BY <1>3, <1>5 DEF ChipHears, KernelSends
<1>6. CASE ChipSent \/ ChipErr
    BY <1>3, <1>6 DEF ChipSent, ChipErr
<1> QED BY <1>1, <1>2, <1>4, <1>5, <1>6, WriteKeepsSent, ReadKeepsSent, KissKeepsSent,
           ChipKeepsSent DEF Next, Program, Chip

LEMMA SentInvariance == Spec => []SentInv
<1>1. IInv => LoopInv
    BY DEF IInv
<1> QED BY <1>1, InitSent, NextKeepsSent, FramesInvariance, Invariance, PTL DEF Spec

(* With nothing but frames on the pty, what goes on the air are frames the *)
(* kernel wrote, none twice and none out of order.                         *)
THEOREM OnlyFramesOnAir == Spec => []TransmittedAreFrames
<1>1. SentInv /\ FramesInv /\ LoopInv => TransmittedAreFrames
    <2> SUFFICES ASSUME SentInv, FramesInv, LoopInv, ~noise
                 PROVE  EmbeddedIn(onAir, WithCommand)
        BY DEF TransmittedAreFrames
    <2>1. /\ kiss \in {"unsync", "reading", "escape"} /\ buf \in Bytes
          /\ handed \in Seq(Bytes) /\ ptyIn \in Bytes /\ WithCommand = Final.handed
        BY DEF FramesInv, TncType, FinalInv
    <2>2. PICK e \in Seq(Bytes) : WithCommand = handed \o e
        <3>1. M(kiss, buf, handed) \in Machines /\ M(kiss, buf, handed).handed = handed
            BY <2>1, MachineIs, MFields
        <3> QED BY <2>1, <3>1, RunKeeps DEF Final
    <2>3. /\ onAir \in Seq(Bytes) /\ TxIn(toChip) \o TxIn(Unwritten) \in Seq(Bytes)
          /\ OnTheWay \in Seq(Bytes) /\ WithCommand \in Seq(Bytes)
          /\ EmbeddedIn(OnTheWay, handed)
        BY <2>1, <2>2, WayTypes, PacketSeq DEF SentInv
    <2>4. EmbeddedIn(onAir, OnTheWay)
        BY <2>3, EmbPrefix DEF OnTheWay
    <2>5. EmbeddedIn(handed, WithCommand)
        BY <2>1, <2>2, EmbPrefix
    <2>6. EmbeddedIn(onAir, handed)
        BY <2>1, <2>3, <2>4, EmbTrans
    <2> QED BY <2>1, <2>3, <2>5, <2>6, EmbTrans
<1>2. IInv => LoopInv
    BY DEF IInv
<1> QED BY <1>1, <1>2, SentInvariance, FramesInvariance, Invariance, PTL
=============================================================================
