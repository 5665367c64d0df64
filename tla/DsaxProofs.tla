----------------------------- MODULE DsaxProofs -----------------------------
(* What holds of dsax for every input, buffer and line: what select()      *)
(* reports stays true until it is used (NoReadBlocks), the types           *)
(* (TypeCorrect), and that what is typed at one end comes out at the other *)
(* (TypedIsGot).                                                           *)
EXTENDS Dsax, SequenceTheorems, TLAPS

(* What is on the line came out of encode(); only that it is a sequence    *)
(* matters here.                                                           *)
IsSeq(s) == Len(s) \in Nat /\ s = [i \in 1..Len(s) |-> s[i]]

ShapeInv ==
    /\ input \in [Ends -> Seq(STRING)] /\ taken \in [Ends -> Nat]
    /\ DOMAIN ready = Ends /\ ready = [e \in Ends |-> ready[e]]
    /\ out = [e \in Ends |-> out[e]]
    /\ line = [e \in Ends |-> line[e]] /\ \A e \in Ends : IsSeq(line[e])

StateInv ==
    /\ pc \in [Ends -> {"select", "child", "parent", "exit"}]
    /\ \A e \in Ends : taken[e] \in 0..Len(input[e])
    /\ ReadsNeverBlock

IInv == StateInv /\ ShapeInv

LEMMA Peers == \A e \in Ends : Peer(e) \in Ends /\ Peer(Peer(e)) = e /\ Peer(e) # e
BY DEF Ends, Peer

LEMMA SeqIsIsSeq ==
    ASSUME NEW S, NEW s \in Seq(S)
    PROVE  IsSeq(s)
BY DEF IsSeq

LEMMA IsSeqAppend ==
    ASSUME NEW s, NEW b, IsSeq(s)
    PROVE  /\ IsSeq(Append(s, b)) /\ Len(Append(s, b)) = Len(s) + 1
           /\ Append(s, b) # << >>
<1> DEFINE R == {s[i] : i \in 1..Len(s)}
           S == R \cup {b}
<1>1. s \in Seq(R) /\ Len(s) \in Nat
    BY DEF IsSeq
<1> HIDE DEF R
<1>2. s \in Seq(S) /\ b \in S
    BY <1>1, SeqMonotonic
<1> HIDE DEF S
<1>3. Append(s, b) \in Seq(S) /\ Len(Append(s, b)) = Len(s) + 1
    BY <1>2
<1>4. IsSeq(Append(s, b))
    BY <1>3, SeqIsIsSeq
<1>5. Append(s, b) # << >>
    <2>1. Len(Append(s, b)) # 0
        BY <1>1, <1>3
    <2> QED BY <2>1, EmptySeq
<1> QED BY <1>3, <1>4, <1>5

LEMMA IsSeqFrom ==
    ASSUME NEW s, NEW n \in Nat, IsSeq(s)
    PROVE  IsSeq(From(s, n)) /\ Len(From(s, n)) <= Len(s)
<1> DEFINE S == {s[i] : i \in 1..Len(s)}
<1>1. Len(s) \in Nat /\ \A i \in (n + 1)..Len(s) : s[i] \in S
    BY DEF IsSeq
<1> HIDE DEF S
<1>2. /\ From(s, n) \in Seq(S)
      /\ Len(From(s, n)) = IF n + 1 <= Len(s) THEN Len(s) - (n + 1) + 1 ELSE 0
    BY <1>1, SubSeqProperties DEF From
<1> QED BY <1>1, <1>2, SeqIsIsSeq

-----------------------------------------------------------------------------
LEMMA InitIInv == Init => IInv
<1> SUFFICES ASSUME Init PROVE IInv
    OBVIOUS
<1>1. input \in [Ends -> Seq(STRING)] /\ \A e \in Ends : Len(input[e]) \in Nat
    BY DsaxAssumption DEF Init, Ends
<1>2. IsSeq(<< >>) /\ Len(<< >>) = 0
    BY EmptySeq, SeqIsIsSeq
<1>3. StateInv
    BY <1>1, <1>2 DEF Init, StateInv, ReadsNeverBlock
<1>4. ShapeInv
    BY <1>1, <1>2 DEF Init, ShapeInv
<1> QED BY <1>3, <1>4 DEF IInv

(* What does not touch the sources of one end keeps its reports true.      *)
LEMMA ReadableSame ==
    ASSUME NEW e \in Ends, input' = input, taken'[e] = taken[e],
           line'[Peer(e)] = line[Peer(e)]
    PROVE  Readable(e)' = Readable(e)
BY DEF Readable, Typed, Arrived

LEMMA SelectKeeps ==
    ASSUME IInv, NEW e \in Ends, Select(e) PROVE IInv'
<1> USE DEF IInv
<1>1. \A x \in Ends : Readable(x)' = Readable(x)
    BY ReadableSame DEF Select
<1>2. StateInv'
    BY <1>1 DEF StateInv, ReadsNeverBlock, ShapeInv, Select
<1>3. ShapeInv'
    BY DEF ShapeInv, Select
<1> QED BY <1>2, <1>3

LEMMA SkipKeeps ==
    ASSUME IInv, NEW e \in Ends, NEW f \in {"child", "parent"}, Skip(e, f)
    PROVE  IInv'
<1> USE DEF IInv
<1>1. \A x \in Ends : Readable(x)' = Readable(x)
    BY ReadableSame DEF Skip
<1>2. StateInv'
    BY <1>1 DEF StateInv, ReadsNeverBlock, Skip, NextAfter
<1>3. ShapeInv'
    BY DEF ShapeInv, Skip
<1> QED BY <1>2, <1>3

LEMMA FaultKeeps ==
    ASSUME IInv, NEW e \in Ends, Fault(e) PROVE IInv'
<1> USE DEF IInv
<1>1. \A x \in Ends : Readable(x)' = Readable(x)
    BY ReadableSame DEF Fault
<1>2. StateInv'
    BY <1>1 DEF StateInv, ReadsNeverBlock, Fault
<1>3. ShapeInv'
    BY DEF ShapeInv, Fault
<1> QED BY <1>2, <1>3

LEMMA CopyInKeeps ==
    ASSUME IInv, NEW e \in Ends, CopyIn(e) PROVE IInv'
<1> USE DEF IInv
<1>1. PICK n \in 1..Least(BufSize, Len(Typed(e))) :
          /\ out' = [out EXCEPT ![e] = Encode(SubSeq(Typed(e), 1, n))]
          /\ taken' = [taken EXCEPT ![e] = @ + n]
    BY DEF CopyIn
<1>2. /\ pc[e] = "child" /\ ready' = [ready EXCEPT ![e] = @ \ {"child"}]
      /\ UNCHANGED <<pc, inEsc, line, input, got, faults>>
    BY DEF CopyIn, Drop
<1>3. /\ input[e] \in Seq(STRING) /\ Len(input[e]) \in Nat /\ taken[e] \in Nat
      /\ taken[e] <= Len(input[e])
    BY LenProperties DEF ShapeInv, StateInv
<1>4. /\ Typed(e) \in Seq(STRING)
      /\ Len(Typed(e)) = Len(input[e]) - taken[e]
    <2>1. \A i \in (taken[e] + 1)..Len(input[e]) : input[e][i] \in STRING
        BY <1>3
    <2> QED BY <1>3, <2>1, SubSeqProperties DEF Typed
<1>5. n \in Nat /\ taken[e] + n <= Len(input[e])
    BY <1>1, <1>3, <1>4, DsaxAssumption DEF Least
<1>6. taken' \in [Ends -> Nat] /\ \A x \in Ends : taken'[x] \in 0..Len(input[x])
    BY <1>1, <1>3, <1>5 DEF ShapeInv, StateInv
<1>7. \A x \in Ends : ready'[x] \subseteq Readable(x)'
    <2> TAKE x \in Ends
    <2>1. CASE x = e
        <3>1. ready'[e] = ready[e] \ {"child"}
            BY <1>2 DEF ShapeInv
        <3>2. Readable(e) \ {"child"} \subseteq Readable(e)'
            BY <1>2 DEF Readable, Arrived
        <3> QED BY <2>1, <3>1, <3>2 DEF StateInv, ReadsNeverBlock
    <2>2. CASE x # e
        <3>1. Readable(x)' = Readable(x) /\ ready'[x] = ready[x]
            BY <1>1, <1>2, <2>2, ReadableSame DEF ShapeInv
        <3> QED BY <3>1 DEF StateInv, ReadsNeverBlock
    <2> QED BY <2>1, <2>2
<1>8. StateInv'
    BY <1>1, <1>2, <1>6, <1>7 DEF StateInv, ReadsNeverBlock, ShapeInv
<1>9. ShapeInv'
    BY <1>1, <1>2, <1>6 DEF ShapeInv
<1> QED BY <1>8, <1>9

LEMMA CopyOutKeeps ==
    ASSUME IInv, NEW e \in Ends, CopyOut(e) PROVE IInv'
<1> USE DEF IInv
<1>1. PICK n \in 1..Least(BufSize, Len(Arrived(e))) :
          LET s == Decode(SubSeq(Arrived(e), 1, n), StateOf(e)) IN
          /\ out' = [out EXCEPT ![e] = s.ret]
          /\ inEsc' = [inEsc EXCEPT ![e] = s.esc]
          /\ line' = [line EXCEPT ![Peer(e)] = From(@, n)]
    BY DEF CopyOut
<1>2. /\ pc[e] = "parent" /\ ready' = [ready EXCEPT ![e] = @ \ {"parent"}]
      /\ UNCHANGED <<pc, input, taken, got, faults>>
    BY DEF CopyOut, Drop
<1>3. Peer(e) \in Ends /\ Peer(e) # e /\ Peer(Peer(e)) = e
    BY Peers
<1>4. n \in Nat
    BY <1>1
<1>5. IsSeq(line'[Peer(e)]) /\ line'[e] = line[e]
    BY <1>1, <1>3, <1>4, IsSeqFrom DEF ShapeInv
<1>6. \A x \in Ends : ready'[x] \subseteq Readable(x)'
    <2> TAKE x \in Ends
    <2>1. CASE x = e
        <3>1. ready'[e] = ready[e] \ {"parent"}
            BY <1>2 DEF ShapeInv
        <3>2. Readable(e) \ {"parent"} \subseteq Readable(e)'
            BY <1>2 DEF Readable, Typed
        <3> QED BY <2>1, <3>1, <3>2 DEF StateInv, ReadsNeverBlock
    <2>2. CASE x # e
        <3>1. Peer(x) = e
            BY <2>2 DEF Ends, Peer
        <3>2. Readable(x)' = Readable(x) /\ ready'[x] = ready[x]
            BY <1>2, <1>5, <2>2, <3>1, ReadableSame DEF ShapeInv
        <3> QED BY <3>2 DEF StateInv, ReadsNeverBlock
    <2> QED BY <2>1, <2>2
<1>7. StateInv'
    BY <1>2, <1>6 DEF StateInv, ReadsNeverBlock
<1>8. ShapeInv'
    <2>1. \A x \in Ends : IsSeq(line'[x])
        <3> TAKE x \in Ends
        <3>1. x = e \/ x = Peer(e)
            BY DEF Ends, Peer
        <3> QED BY <1>5, <3>1 DEF ShapeInv
    <2>2. line' = [x \in Ends |-> line'[x]] /\ out' = [x \in Ends |-> out'[x]]
        BY <1>1 DEF ShapeInv
    <2>3. ready' = [x \in Ends |-> ready'[x]]
        BY <1>2 DEF ShapeInv
    <2> QED BY <1>2, <2>1, <2>2, <2>3 DEF ShapeInv
<1> QED BY <1>7, <1>8

LEMMA PutKeeps ==
    ASSUME IInv, NEW e \in Ends, Put(e) PROVE IInv'
<1> USE DEF IInv
<1>1. /\ out' = [out EXCEPT ![e] = Tail(@)]
      /\ \/ line' = [line EXCEPT ![e] = Append(@, Head(out[e]))]
         \/ line' = line
      /\ UNCHANGED <<pc, ready, inEsc, input, taken, faults>>
    BY DEF Put
<1>2. IsSeq(line[e])
    BY DEF ShapeInv
<1>3. /\ line' = [x \in Ends |-> line'[x]]
      /\ \A x \in Ends \ {e} : line'[x] = line[x]
      /\ IsSeq(line'[e]) /\ (line'[e] # line[e] => line'[e] # << >>)
    <2>1. CASE line' = line
        BY <1>2, <2>1 DEF ShapeInv
    <2>2. CASE line' = [line EXCEPT ![e] = Append(@, Head(out[e]))]
        <3>1. line'[e] = Append(line[e], Head(out[e]))
            BY <2>2 DEF ShapeInv
        <3>2. IsSeq(line'[e]) /\ line'[e] # << >>
            BY <1>2, <3>1, IsSeqAppend
        <3> QED BY <2>2, <3>2 DEF ShapeInv
    <2> QED BY <1>1, <2>1, <2>2
<1>4. \A x \in Ends : ready'[x] \subseteq Readable(x)'
    <2> TAKE x \in Ends
    <2>1. Peer(x) \in Ends
        BY Peers
    <2>2. Readable(x) \subseteq Readable(x)'
        BY <1>1, <1>3, <2>1 DEF Readable, Typed, Arrived
    <2> QED BY <1>1, <2>2 DEF StateInv, ReadsNeverBlock
<1>5. StateInv'
    BY <1>1, <1>4 DEF StateInv, ReadsNeverBlock
<1>6. ShapeInv'
    BY <1>1, <1>2, <1>3 DEF ShapeInv
<1> QED BY <1>5, <1>6

LEMMA Invariance == Spec => []IInv
<1>1. ASSUME IInv, [Next]_vars PROVE IInv'
    <2>1. CASE Next
        BY <1>1, <2>1, SelectKeeps, CopyInKeeps, CopyOutKeeps, PutKeeps, SkipKeeps,
           FaultKeeps DEF Next, Step
    <2>2. CASE UNCHANGED vars
        <3>1. \A x \in Ends : Readable(x)' = Readable(x)
            BY <2>2, ReadableSame DEF vars
        <3> QED BY <1>1, <2>2, <3>1 DEF vars, IInv, StateInv, ShapeInv, ReadsNeverBlock
    <2> QED BY <1>1, <2>1, <2>2
<1> QED BY InitIInv, <1>1, PTL DEF Spec

-----------------------------------------------------------------------------
(* copy() reads only where select() has just reported something, and the   *)
(* report still holds then: the one thread of dsax is never stuck in a     *)
(* read() while the other direction has something to copy.                 *)
THEOREM NoReadBlocks == Spec => []ReadsNeverBlock
<1>1. IInv => ReadsNeverBlock
    BY DEF IInv, StateInv
<1> QED BY <1>1, Invariance, PTL

-----------------------------------------------------------------------------
(* encode() and decode() as folds over the bytes.                          *)
Enc == INSTANCE FoldFacts WITH Op <- EncodeStep
Dec == INSTANCE FoldFacts WITH Op <- DecodeByte

(* The six named bytes are strings, but the provers do not know it.        *)
Byte == STRING \cup {XOFF, XON, ESC, ESC_XOFF, ESC_XON, ESC_ESC}
Bytes == Seq(Byte)
State == [ret : Bytes, esc : BOOLEAN]

LEMMA Cat ==
    /\ << >> \in Bytes
    /\ \A b \in Byte : <<b>> \in Bytes
    /\ \A b, c \in Byte : <<b, c>> \in Bytes
    /\ \A s, t \in Bytes : s \o t \in Bytes
    /\ \A s \in Bytes : s \o << >> = s /\ << >> \o s = s
    /\ \A s \in Bytes : \A b \in Byte :
           Append(s, b) \in Bytes /\ Append(s, b) = s \o <<b>>
BY EmptySeq, ConcatProperties, ConcatEmptySeq, AppendProperties, AppendIsConcat DEF Bytes

LEMMA Assoc == \A s, t, u \in Bytes : (s \o t) \o u = s \o (t \o u)
<1> TAKE s, t, u \in Bytes
<1> QED BY ConcatAssociative DEF Bytes

LEMMA EncodeUnfold ==
    /\ Encode(<< >>) = << >>
    /\ \A s \in Bytes : \A b \in Byte :
           Encode(Append(s, b)) = Encode(s) \o EncodeByte(b)
<1>1. \A s : Encode(s) = Enc!Fold(<< >>, s)
    BY DEF Encode, Enc!Fold, FoldLeft, MapThenFoldSet, Enc!FoldLeft,
           Enc!MapThenFoldSet, Max, Enc!Max
<1>2. Encode(<< >>) = << >>
    BY <1>1, Enc!FoldEmpty
<1>3. ASSUME NEW s \in Bytes, NEW b \in Byte
      PROVE  Encode(Append(s, b)) = Encode(s) \o EncodeByte(b)
    <2>1. Enc!Fold(<< >>, Append(s, b)) = EncodeStep(Enc!Fold(<< >>, s), b)
        BY Enc!FoldAppend DEF Bytes
    <2> QED BY <1>1, <2>1 DEF EncodeStep
<1> QED BY <1>2, <1>3

LEMMA DecodeUnfold ==
    ASSUME NEW esc
    PROVE  /\ Decode(<< >>, esc) = [ret |-> << >>, esc |-> esc]
           /\ \A s \in Bytes : \A b \in Byte :
                  Decode(Append(s, b), esc) = DecodeByte(Decode(s, esc), b)
<1> DEFINE base == [ret |-> << >>, esc |-> esc]
<1>1. \A s : Decode(s, esc) = Dec!Fold(base, s)
    BY DEF Decode, Dec!Fold, FoldLeft, MapThenFoldSet, Dec!FoldLeft,
           Dec!MapThenFoldSet, Max, Dec!Max
<1> HIDE DEF base
<1>2. Decode(<< >>, esc) = base
    BY <1>1, Dec!FoldEmpty
<1>3. ASSUME NEW s \in Bytes, NEW b \in Byte
      PROVE  Decode(Append(s, b), esc) = DecodeByte(Decode(s, esc), b)
    <2>1. Dec!Fold(base, Append(s, b)) = DecodeByte(Dec!Fold(base, s), b)
        BY Dec!FoldAppend DEF Bytes
    <2> QED BY <1>1, <2>1
<1> QED BY <1>2, <1>3 DEF base

LEMMA ByteTypes ==
    ASSUME NEW b \in Byte
    PROVE  EncodeByte(b) \in Bytes /\ Unescaped(b) \in Bytes
<1>1. /\ XOFF \in Byte /\ XON \in Byte /\ ESC \in Byte
      /\ ESC_XOFF \in Byte /\ ESC_XON \in Byte /\ ESC_ESC \in Byte
    BY DEF Byte
<1> QED BY <1>1, Cat DEF EncodeByte, Unescaped

LEMMA DecodeByteType ==
    ASSUME NEW d \in State, NEW b \in Byte
    PROVE  DecodeByte(d, b) \in State
<1>1. Unescaped(b) \in Bytes
    BY ByteTypes
<1>2. d.ret \o Unescaped(b) \in Bytes /\ Append(d.ret, b) \in Bytes
    BY <1>1, ConcatProperties, AppendProperties DEF State, Bytes
<1> QED BY <1>2 DEF State, DecodeByte

LEMMA DecodeType ==
    ASSUME NEW esc \in BOOLEAN
    PROVE  \A s \in Bytes : Decode(s, esc) \in State
<1> DEFINE P == {s \in Bytes : Decode(s, esc) \in State}
<1>1. << >> \in P
    <2>1. << >> \in Bytes
        BY EmptySeq DEF Bytes
    <2>2. Decode(<< >>, esc) = [ret |-> << >>, esc |-> esc]
        BY DecodeUnfold
    <2> QED BY <2>1, <2>2 DEF State
<1>2. \A s \in Seq(Byte) : s \in P => \A b \in Byte : Append(s, b) \in P
    <2> TAKE s \in Seq(Byte)
    <2> SUFFICES ASSUME s \in P, NEW b \in Byte PROVE Append(s, b) \in P
        OBVIOUS
    <2>1. Append(s, b) \in Bytes
        BY AppendProperties DEF Bytes
    <2>2. Decode(Append(s, b), esc) = DecodeByte(Decode(s, esc), b)
        BY DecodeUnfold
    <2> QED BY <2>1, <2>2, DecodeByteType
<1> HIDE DEF P
<1>3. \A s \in Seq(Byte) : s \in P
    BY <1>1, <1>2, Dec!SeqInduction
<1> QED BY <1>3 DEF P, Bytes

LEMMA Fields ==
    \A r, e : [ret |-> r, esc |-> e].ret = r /\ [ret |-> r, esc |-> e].esc = e
OBVIOUS

LEMMA DecodeRules ==
    ASSUME NEW r \in Bytes, NEW b \in Byte
    PROVE  /\ DecodeByte([ret |-> r, esc |-> TRUE], b)
              = [ret |-> r \o Unescaped(b), esc |-> FALSE]
           /\ b = ESC => DecodeByte([ret |-> r, esc |-> FALSE], b)
                          = [ret |-> r, esc |-> TRUE]
           /\ b # ESC => DecodeByte([ret |-> r, esc |-> FALSE], b)
                          = [ret |-> Append(r, b), esc |-> FALSE]
BY DEF DecodeByte

(* What was decoded before a byte does not change what the byte adds.      *)
LEMMA DecodeByteLater ==
    ASSUME NEW a \in Bytes, NEW d \in State, NEW b \in Byte
    PROVE  DecodeByte([ret |-> a \o d.ret, esc |-> d.esc], b)
           = [ret |-> a \o DecodeByte(d, b).ret, esc |-> DecodeByte(d, b).esc]
<1>1. Unescaped(b) \in Bytes /\ d.ret \in Bytes /\ <<b>> \in Bytes
    BY ByteTypes, Cat DEF State
<1>2. (a \o d.ret) \o Unescaped(b) = a \o (d.ret \o Unescaped(b))
    BY <1>1, Assoc
<1>3. Append(a \o d.ret, b) = a \o Append(d.ret, b)
    <2>1. Append(a \o d.ret, b) = (a \o d.ret) \o <<b>>
        BY <1>1, Cat
    <2>2. Append(d.ret, b) = d.ret \o <<b>>
        BY <1>1, Cat
    <2>3. (a \o d.ret) \o <<b>> = a \o (d.ret \o <<b>>)
        BY <1>1, Assoc
    <2> QED BY <2>1, <2>2, <2>3
<1>4. CASE d.esc
    BY <1>2, <1>4 DEF DecodeByte
<1>5. CASE ~d.esc /\ b = ESC
    BY <1>5 DEF DecodeByte, State
<1>6. CASE ~d.esc /\ b # ESC
    BY <1>3, <1>6 DEF DecodeByte, State
<1> QED BY <1>4, <1>5, <1>6

(* decode() may be stopped anywhere and carried on with the state it left. *)
LEMMA DecodeCut ==
    ASSUME NEW esc \in BOOLEAN, NEW s \in Bytes
    PROVE  \A t \in Bytes :
               Decode(s \o t, esc)
               = [ret |-> Decode(s, esc).ret \o Decode(t, Decode(s, esc).esc).ret,
                  esc |-> Decode(t, Decode(s, esc).esc).esc]
<1> DEFINE d == Decode(s, esc)
           P == {t \in Bytes :
                    Decode(s \o t, esc) = [ret |-> d.ret \o Decode(t, d.esc).ret,
                                           esc |-> Decode(t, d.esc).esc]}
<1>1. d \in State /\ d.ret \in Bytes /\ d.esc \in BOOLEAN
    BY DecodeType DEF State
<1>2. d = [ret |-> d.ret, esc |-> d.esc]
    BY <1>1 DEF State
<1> HIDE DEF d
<1>3. << >> \in P
    <2>1. Decode(<< >>, d.esc) = [ret |-> << >>, esc |-> d.esc]
        BY DecodeUnfold
    <2>2. s \o << >> = s /\ d.ret \o << >> = d.ret /\ << >> \in Bytes
        BY <1>1, Cat
    <2>3. Decode(s \o << >>, esc) = d
        BY <2>2 DEF d
    <2>4. d = [ret |-> d.ret \o Decode(<< >>, d.esc).ret,
               esc |-> Decode(<< >>, d.esc).esc]
        <3>1. Decode(<< >>, d.esc).ret = << >> /\ Decode(<< >>, d.esc).esc = d.esc
            BY <2>1
        <3>2. d = [ret |-> d.ret \o << >>, esc |-> d.esc]
            BY <1>2, <2>2
        <3> HIDE DEF P
        <3> QED BY <3>1, <3>2
    <2> QED BY <2>2, <2>3, <2>4
<1>4. \A t \in Seq(Byte) : t \in P => \A b \in Byte : Append(t, b) \in P
    <2> TAKE t \in Seq(Byte)
    <2> SUFFICES ASSUME t \in P, NEW b \in Byte PROVE Append(t, b) \in P
        OBVIOUS
    <2>1. t \in Bytes /\ Append(t, b) \in Bytes /\ s \o t \in Bytes
        BY Cat
    <2>2. s \o Append(t, b) = Append(s \o t, b)
        <3>1. Append(t, b) = t \o <<b>> /\ Append(s \o t, b) = (s \o t) \o <<b>>
            BY <2>1, Cat
        <3>2. (s \o t) \o <<b>> = s \o (t \o <<b>>)
            BY <2>1, Cat, Assoc
        <3> QED BY <3>1, <3>2
    <2>3. Decode(Append(s \o t, b), esc) = DecodeByte(Decode(s \o t, esc), b)
        BY <2>1, DecodeUnfold
    <2>4. Decode(t, d.esc) \in State
        BY <1>1, <2>1, DecodeType
    <2>5. Decode(Append(t, b), d.esc) = DecodeByte(Decode(t, d.esc), b)
        BY <2>1, DecodeUnfold
    <2>6. DecodeByte([ret |-> d.ret \o Decode(t, d.esc).ret,
                      esc |-> Decode(t, d.esc).esc], b)
          = [ret |-> d.ret \o DecodeByte(Decode(t, d.esc), b).ret,
             esc |-> DecodeByte(Decode(t, d.esc), b).esc]
        BY <1>1, <2>4, DecodeByteLater
    <2> QED BY <2>1, <2>2, <2>3, <2>5, <2>6
<1> HIDE DEF P
<1>5. \A t \in Seq(Byte) : t \in P
    BY <1>3, <1>4, Dec!SeqInduction
<1> QED BY <1>5 DEF P, Bytes, d

LEMMA EncodeType == \A s \in Bytes : Encode(s) \in Bytes
<1> DEFINE P == {s \in Bytes : Encode(s) \in Bytes}
<1>1. << >> \in P
    BY EncodeUnfold, Cat
<1>2. \A s \in Seq(Byte) : s \in P => \A b \in Byte : Append(s, b) \in P
    BY EncodeUnfold, Cat, ByteTypes DEF Bytes
<1> HIDE DEF P
<1>3. \A s \in Seq(Byte) : s \in P
    BY <1>1, <1>2, Enc!SeqInduction
<1> QED BY <1>3 DEF P, Bytes

(* decode() of what encode() makes of one byte.                            *)
LEMMA RoundTripByte ==
    ASSUME NEW b \in Byte
    PROVE  Decode(EncodeByte(b), FALSE) = [ret |-> <<b>>, esc |-> FALSE]
<1>1. ASSUME NEW x \in Byte
      PROVE  Decode(<<x>>, FALSE) = DecodeByte([ret |-> << >>, esc |-> FALSE], x)
    <2>1. << >> \in Bytes /\ Append(<< >>, x) = <<x>>
        BY Cat
    <2>2. Decode(Append(<< >>, x), FALSE) = DecodeByte(Decode(<< >>, FALSE), x)
        BY <2>1, DecodeUnfold, Zenon
    <2>3. Decode(<< >>, FALSE) = [ret |-> << >>, esc |-> FALSE]
        BY DecodeUnfold, Zenon
    <2> QED BY <2>1, <2>2, <2>3, Zenon
<1>2. ASSUME NEW x \in Byte, NEW y \in Byte
      PROVE  Decode(<<x, y>>, FALSE) = DecodeByte(Decode(<<x>>, FALSE), y)
    <2>1. Append(<<x>>, y) = <<x, y>>
        <3> DEFINE s == Append(<<x>>, y)
                   t == <<x, y>>
        <3>1. <<x>> \in Seq(Byte) /\ Len(<<x>>) = 1 /\ <<x>>[1] = x
            BY Cat DEF Bytes
        <3>2. /\ s \in Seq(Byte) /\ Len(s) = 2 /\ s[1] = x /\ s[2] = y
            BY <3>1, AppendProperties
        <3>3. t \in Seq(Byte) /\ Len(t) = 2 /\ t[1] = x /\ t[2] = y
            BY Cat DEF Bytes
        <3> HIDE DEF s, t
        <3>4. \A i \in 1..2 : s[i] = t[i]
            BY <3>2, <3>3
        <3>5. s = t
            BY <3>2, <3>3, <3>4, SeqEqual
        <3> QED BY <3>5 DEF s, t
    <2>2. <<x>> \in Bytes
        BY Cat
    <2>3. Decode(Append(<<x>>, y), FALSE) = DecodeByte(Decode(<<x>>, FALSE), y)
        BY <2>2, DecodeUnfold, Zenon
    <2> QED BY <2>1, <2>3, Zenon
<1>3. /\ XOFF \in Byte /\ XON \in Byte /\ ESC \in Byte
      /\ ESC_XOFF \in Byte /\ ESC_XON \in Byte /\ ESC_ESC \in Byte
    BY DEF Byte
<1>4. Append(<< >>, b) = <<b>> /\ << >> \in Bytes
    BY Cat
<1>5. Decode(<<ESC>>, FALSE) = [ret |-> << >>, esc |-> TRUE]
    BY <1>1, <1>3, <1>4, DecodeRules, Zenon
<1>6. ASSUME NEW y \in Byte
      PROVE  Decode(<<ESC, y>>, FALSE) = [ret |-> << >> \o Unescaped(y), esc |-> FALSE]
    <2>1. Decode(<<ESC, y>>, FALSE) = DecodeByte([ret |-> << >>, esc |-> TRUE], y)
        BY <1>2, <1>3, <1>5, Zenon
    <2>2. DecodeByte([ret |-> << >>, esc |-> TRUE], y)
          = [ret |-> << >> \o Unescaped(y), esc |-> FALSE]
        BY <1>4, DecodeRules, Zenon
    <2> QED BY <2>1, <2>2
<1>7. /\ Unescaped(ESC_XOFF) = <<XOFF>> /\ Unescaped(ESC_XON) = <<XON>>
      /\ Unescaped(ESC_ESC) = <<ESC>>
    BY DEF Unescaped, ESC_XOFF, ESC_XON, ESC_ESC
<1>8. \A s \in Bytes : << >> \o s = s
    BY Cat
<1>9. \A x \in Byte : <<x>> \in Bytes
    BY Cat
<1>10. CASE b = XOFF
    BY <1>3, <1>6, <1>7, <1>8, <1>9, <1>10 DEF EncodeByte
<1>11. CASE b = XON
    BY <1>3, <1>6, <1>7, <1>8, <1>9, <1>11 DEF EncodeByte, XON, XOFF
<1>12. CASE b = ESC
    BY <1>3, <1>6, <1>7, <1>8, <1>9, <1>12 DEF EncodeByte, XON, XOFF, ESC
<1>13. CASE b \notin {XOFF, XON, ESC}
    <2>1. EncodeByte(b) = <<b>>
        BY <1>13 DEF EncodeByte
    <2>2. Decode(<<b>>, FALSE) = DecodeByte([ret |-> << >>, esc |-> FALSE], b)
        BY <1>1, Zenon
    <2>3. DecodeByte([ret |-> << >>, esc |-> FALSE], b)
          = [ret |-> Append(<< >>, b), esc |-> FALSE]
        BY <1>4, <1>13, DecodeRules
    <2> QED BY <1>4, <2>1, <2>2, <2>3, Zenon
<1> QED BY <1>10, <1>11, <1>12, <1>13

(* decode() undoes encode(), from the state in between two of its codes.   *)
LEMMA RoundTrip ==
    \A s \in Bytes : Decode(Encode(s), FALSE) = [ret |-> s, esc |-> FALSE]
<1> DEFINE P == {s \in Bytes : Decode(Encode(s), FALSE) = [ret |-> s, esc |-> FALSE]}
<1>1. << >> \in P
    BY EncodeUnfold, DecodeUnfold, Cat
<1>2. \A s \in Seq(Byte) : s \in P => \A b \in Byte : Append(s, b) \in P
    <2> TAKE s \in Seq(Byte)
    <2> SUFFICES ASSUME s \in P, NEW b \in Byte PROVE Append(s, b) \in P
        OBVIOUS
    <2>1. s \in Bytes /\ Append(s, b) \in Bytes /\ Append(s, b) = s \o <<b>>
        BY Cat
    <2>2. Encode(Append(s, b)) = Encode(s) \o EncodeByte(b)
        BY <2>1, EncodeUnfold
    <2>3. Decode(Encode(s), FALSE) = [ret |-> s, esc |-> FALSE]
        OBVIOUS
    <2>4. Encode(s) \in Bytes /\ EncodeByte(b) \in Bytes
        BY <2>1, EncodeType, ByteTypes
    <2>5. Decode(Encode(s) \o EncodeByte(b), FALSE)
          = [ret |-> s \o Decode(EncodeByte(b), FALSE).ret,
             esc |-> Decode(EncodeByte(b), FALSE).esc]
        <3>1. Decode(Encode(s), FALSE).ret = s /\ Decode(Encode(s), FALSE).esc = FALSE
            BY <2>3, Fields, Zenon
        <3>2. Decode(Encode(s) \o EncodeByte(b), FALSE)
              = [ret |-> Decode(Encode(s), FALSE).ret
                         \o Decode(EncodeByte(b), Decode(Encode(s), FALSE).esc).ret,
                 esc |-> Decode(EncodeByte(b), Decode(Encode(s), FALSE).esc).esc]
            BY <2>4, DecodeCut, Zenon
        <3> QED BY <3>1, <3>2, Zenon
    <2>6. /\ Decode(EncodeByte(b), FALSE).ret = <<b>>
          /\ Decode(EncodeByte(b), FALSE).esc = FALSE
        <3>1. Decode(EncodeByte(b), FALSE) = [ret |-> <<b>>, esc |-> FALSE]
            BY RoundTripByte
        <3> QED BY <3>1, Fields, Zenon
    <2>7. Decode(Encode(Append(s, b)), FALSE) = [ret |-> Append(s, b), esc |-> FALSE]
        BY <2>1, <2>2, <2>5, <2>6, Zenon
    <2> QED BY <2>1, <2>7
<1> HIDE DEF P
<1>3. \A s \in Seq(Byte) : s \in P
    BY <1>1, <1>2, Dec!SeqInduction
<1> QED BY <1>3 DEF P, Bytes

(* encode() leaves no byte that flow control would take for its own.       *)
Clean == Byte \ {XON, XOFF}

LEMMA EncodeClean == \A s \in Bytes : Encode(s) \in Seq(Clean)
<1> DEFINE P == {s \in Bytes : Encode(s) \in Seq(Clean)}
<1>1. << >> \in P
    BY EncodeUnfold, Cat, EmptySeq
<1>2. ASSUME NEW b \in Byte PROVE EncodeByte(b) \in Seq(Clean)
    <2>1. /\ ESC \in Clean /\ ESC_XOFF \in Clean
          /\ ESC_XON \in Clean /\ ESC_ESC \in Clean
        BY DEF Clean, Byte, XON, XOFF, ESC, ESC_XOFF, ESC_XON, ESC_ESC
    <2>2. b \in {XOFF, XON} \/ b \in Clean
        BY DEF Clean
    <2> HIDE DEF Clean
    <2> QED BY <2>1, <2>2 DEF EncodeByte
<1>3. \A s \in Seq(Byte) : s \in P => \A b \in Byte : Append(s, b) \in P
    <2> TAKE s \in Seq(Byte)
    <2> SUFFICES ASSUME s \in P, NEW b \in Byte PROVE Append(s, b) \in P
        OBVIOUS
    <2>1. Append(s, b) \in Bytes /\ Encode(Append(s, b)) = Encode(s) \o EncodeByte(b)
        BY Cat, EncodeUnfold
    <2>2. Encode(s) \o EncodeByte(b) \in Seq(Clean)
        BY <1>2, ConcatProperties
    <2> QED BY <2>1, <2>2
<1> HIDE DEF P
<1>4. \A s \in Seq(Byte) : s \in P
    BY <1>1, <1>3, Enc!SeqInduction
<1> QED BY <1>4 DEF P, Bytes

-----------------------------------------------------------------------------
(* One direction: g was written to the pty, r is the rest of that write(), *)
(* l is on the line, w is the rest of the write() to the line, esc the     *)
(* reader's state.  Together they are s, all that was read from the other  *)
(* pty.                                                                    *)
Stream(l, w, esc, g, r, s) ==
    /\ (g \o r) \o Decode(l \o w, esc).ret = s
    /\ Decode(l \o w, esc).esc = FALSE

LEMMA StreamCopyIn ==
    ASSUME NEW l \in Bytes, NEW esc \in BOOLEAN, NEW g \in Bytes, NEW r \in Bytes,
           NEW s \in Bytes, NEW c \in Bytes, Stream(l, << >>, esc, g, r, s)
    PROVE  Stream(l, Encode(c), esc, g, r, s \o c)
<1> DEFINE d == Decode(l, esc)
<1>1. l \o << >> = l /\ g \o r \in Bytes /\ Encode(c) \in Bytes
    BY Cat, EncodeType
<1>2. d \in State
    BY DecodeType
<1>3. (g \o r) \o d.ret = s /\ d.esc = FALSE
    BY <1>1 DEF Stream
<1> DEFINE k == Decode(Encode(c), d.esc)
<1>4. Decode(l \o Encode(c), esc) = [ret |-> d.ret \o k.ret, esc |-> k.esc]
    BY <1>1, DecodeCut, Zenon
<1> HIDE DEF d
<1>5. k.ret = c /\ k.esc = FALSE
    <2>1. k = [ret |-> c, esc |-> FALSE]
        BY <1>3, RoundTrip
    <2> QED BY <2>1, Fields, Zenon
<1> HIDE DEF k
<1>6. Decode(l \o Encode(c), esc).ret = d.ret \o c /\ Decode(l \o Encode(c), esc).esc = FALSE
    <2>1. /\ Decode(l \o Encode(c), esc).ret = d.ret \o k.ret
          /\ Decode(l \o Encode(c), esc).esc = k.esc
        BY <1>4, Fields, Zenon
    <2> QED BY <1>5, <2>1
<1>7. (g \o r) \o (d.ret \o c) = ((g \o r) \o d.ret) \o c
    <2>1. d.ret \in Bytes
        BY <1>2 DEF State
    <2> DEFINE gr == g \o r
    <2>2. gr \in Bytes
        BY <1>1
    <2> HIDE DEF gr
    <2>3. (gr \o d.ret) \o c = gr \o (d.ret \o c)
        BY <2>1, <2>2, Assoc
    <2> QED BY <2>3 DEF gr
<1> QED BY <1>3, <1>6, <1>7, Zenon DEF Stream

LEMMA StreamCopyOut ==
    ASSUME NEW l \in Bytes, NEW m \in Bytes, NEW w \in Bytes, NEW esc \in BOOLEAN,
           NEW g \in Bytes, NEW s, Stream(l \o m, w, esc, g, << >>, s)
    PROVE  Stream(m, w, Decode(l, esc).esc, g, Decode(l, esc).ret, s)
<1> DEFINE d == Decode(l, esc)
           k == Decode(m \o w, d.esc)
<1>1. m \o w \in Bytes /\ (l \o m) \o w = l \o (m \o w) /\ g \o << >> = g
    BY Cat, Assoc
<1>2. d \in State
    BY DecodeType
<1>3. k \in State
    BY <1>1, <1>2, DecodeType DEF State
<1>4. Decode(l \o (m \o w), esc) = [ret |-> d.ret \o k.ret, esc |-> k.esc]
    BY <1>1, DecodeCut, Zenon
<1> HIDE DEF d, k
<1>5. /\ Decode(l \o (m \o w), esc).ret = d.ret \o k.ret
      /\ Decode(l \o (m \o w), esc).esc = k.esc
    BY <1>4, Fields, Zenon
<1>6. g \o (d.ret \o k.ret) = s /\ k.esc = FALSE
    BY <1>1, <1>5, Zenon DEF Stream
<1>7. g \o (d.ret \o k.ret) = (g \o d.ret) \o k.ret
    BY <1>2, <1>3, Assoc DEF State
<1> QED BY <1>6, <1>7, Zenon DEF Stream, k, d

-----------------------------------------------------------------------------
(* The whole path: nothing is added or dropped anywhere between the two    *)
(* ptys, whichever bytes each of the places holds.                         *)
Sent(e) == SubSeq(input[e], 1, taken[e])

(* What is left of the write() of copy f: all of out while that copy runs; *)
(* of a program that ended only out is left, and not which copy it was.    *)
WriteOf(e, f) ==
    CASE pc[e] = f -> {out[e]}
      [] pc[e] = "exit" -> {<< >>, out[e]}
      [] OTHER -> {<< >>}

StreamInv(e) ==
    \E w \in WriteOf(e, "child"), r \in WriteOf(Peer(e), "parent") :
        Stream(line[e], w, inEsc[Peer(e)], got[Peer(e)], r, Sent(e))

ByteInv ==
    /\ inEsc \in [Ends -> BOOLEAN]
    /\ got \in [Ends -> Bytes] /\ out \in [Ends -> Bytes]
    /\ line \in [Ends -> Seq(Clean)]
    /\ \A e \in Ends : Len(line[e]) <= LineSize
    /\ \A e \in Ends : pc[e] = "child" => out[e] \in Seq(Clean)
    /\ \A e \in Ends : pc[e] = "select" => out[e] = << >>
    /\ faults \in 0..MaxFaults

CodecInv == ByteInv /\ \A e \in Ends : StreamInv(e)

LEMMA CleanIsBytes == \A s \in Seq(Clean) : s \in Bytes
BY SeqMonotonic DEF Clean, Bytes

LEMMA InputBytes == ASSUME ShapeInv PROVE \A e \in Ends : input[e] \in Bytes
BY SeqMonotonic DEF ShapeInv, Bytes, Byte

LEMMA InitCodec == Init => CodecInv
<1> SUFFICES ASSUME Init PROVE CodecInv
    OBVIOUS
<1>1. /\ \A e \in Ends : line[e] = << >> /\ got[e] = << >> /\ out[e] = << >>
      /\ \A e \in Ends : inEsc[e] = FALSE /\ pc[e] = "select" /\ taken[e] = 0
      /\ << >> \in Seq(Clean) /\ << >> \in Bytes /\ Len(<< >>) = 0
    BY Cat, EmptySeq DEF Init
<1>2. ByteInv
    BY <1>1, DsaxAssumption DEF Init, ByteInv
<1>3. ASSUME NEW e \in Ends PROVE StreamInv(e)
    <2>1. Peer(e) \in Ends
        BY Peers
    <2>2. WriteOf(e, "child") = {<< >>} /\ WriteOf(Peer(e), "parent") = {<< >>}
        BY <1>1, <2>1 DEF WriteOf
    <2>3. Sent(e) = << >>
        BY <1>1, SubSeqEmpty DEF Sent
    <2>4. /\ Decode(<< >>, FALSE).ret = << >> /\ Decode(<< >>, FALSE).esc = FALSE
          /\ << >> \o << >> = << >>
        BY DecodeUnfold, Fields, Cat, Zenon
    <2>5. Stream(<< >>, << >>, FALSE, << >>, << >>, << >>)
        BY <2>4, Zenon DEF Stream
    <2> QED BY <1>1, <2>1, <2>2, <2>3, <2>5 DEF StreamInv
<1> QED BY <1>2, <1>3 DEF CodecInv

(* What does not touch the places of one direction keeps it whole.         *)
LEMMA StreamSame ==
    ASSUME NEW e \in Ends, StreamInv(e),
           line'[e] = line[e], inEsc'[Peer(e)] = inEsc[Peer(e)],
           got'[Peer(e)] = got[Peer(e)], input' = input, taken'[e] = taken[e],
           WriteOf(e, "child") \subseteq WriteOf(e, "child")',
           WriteOf(Peer(e), "parent") \subseteq WriteOf(Peer(e), "parent")'
    PROVE  StreamInv(e)'
<1>1. PICK w \in WriteOf(e, "child"), r \in WriteOf(Peer(e), "parent") :
          Stream(line[e], w, inEsc[Peer(e)], got[Peer(e)], r, Sent(e))
    BY DEF StreamInv
<1>2. Sent(e)' = Sent(e)
    BY DEF Sent
<1>3. Stream(line[e], w, inEsc[Peer(e)], got[Peer(e)], r, Sent(e))'
      <=> Stream(line[e], w, inEsc[Peer(e)], got[Peer(e)], r, Sent(e))
    BY <1>2 DEF Stream
<1>4. w \in WriteOf(e, "child")' /\ r \in WriteOf(Peer(e), "parent")'
    OBVIOUS
<1> QED BY <1>1, <1>2, <1>4 DEF StreamInv, Stream

(* A step that moves no bytes.                                             *)
LEMMA CodecIdle ==
    ASSUME IInv, CodecInv, UNCHANGED <<out, inEsc, line, input, taken, got>>,
           \A e \in Ends :
               /\ WriteOf(e, "child") \subseteq WriteOf(e, "child")'
               /\ WriteOf(e, "parent") \subseteq WriteOf(e, "parent")'
               /\ pc'[e] = "child" => out[e] \in Seq(Clean)
               /\ pc'[e] = "select" => out[e] = << >>,
           faults' \in 0..MaxFaults
    PROVE  CodecInv'
<1>1. ByteInv'
    BY DEF ByteInv, CodecInv
<1>2. ASSUME NEW e \in Ends PROVE StreamInv(e)'
    <2>1. Peer(e) \in Ends
        BY Peers
    <2> QED BY <2>1, StreamSame DEF CodecInv
<1> QED BY <1>1, <1>2 DEF CodecInv

LEMMA SelectCodec ==
    ASSUME IInv, CodecInv, NEW e \in Ends, Select(e) PROVE CodecInv'
<1>1. out[e] = << >> /\ << >> \in Seq(Clean)
    BY EmptySeq DEF Select, CodecInv, ByteInv
<1>2. /\ \A x \in Ends : pc'[x] = IF x = e THEN "child" ELSE pc[x]
      /\ UNCHANGED <<out, inEsc, line, input, taken, got, faults>> /\ pc[e] = "select"
    BY DEF Select, IInv, StateInv
<1>3. \A x \in Ends :
          /\ WriteOf(x, "child") \subseteq WriteOf(x, "child")'
          /\ WriteOf(x, "parent") \subseteq WriteOf(x, "parent")'
    BY <1>1, <1>2 DEF WriteOf
<1> QED BY <1>1, <1>2, <1>3, CodecIdle DEF CodecInv, ByteInv

LEMMA SkipCodec ==
    ASSUME IInv, CodecInv, NEW e \in Ends, NEW f \in {"child", "parent"}, Skip(e, f)
    PROVE  CodecInv'
<1>1. out[e] = << >> /\ << >> \in Seq(Clean)
    BY EmptySeq DEF Skip
<1>2. /\ \A x \in Ends : pc'[x] = IF x = e THEN NextAfter(f) ELSE pc[x]
      /\ UNCHANGED <<out, inEsc, line, input, taken, got, faults>>
      /\ pc[e] = f /\ NextAfter(f) \in {"parent", "select"}
    BY DEF Skip, IInv, StateInv, NextAfter
<1>3. \A x \in Ends :
          /\ WriteOf(x, "child") \subseteq WriteOf(x, "child")'
          /\ WriteOf(x, "parent") \subseteq WriteOf(x, "parent")'
    BY <1>1, <1>2 DEF WriteOf
<1> QED BY <1>1, <1>2, <1>3, CodecIdle DEF CodecInv, ByteInv

LEMMA FaultCodec ==
    ASSUME IInv, CodecInv, NEW e \in Ends, Fault(e) PROVE CodecInv'
<1>1. /\ \A x \in Ends : pc'[x] = IF x = e THEN "exit" ELSE pc[x]
      /\ UNCHANGED <<out, inEsc, line, input, taken, got>>
      /\ pc[e] \in {"child", "parent"} /\ faults' = faults + 1 /\ faults < MaxFaults
    BY DEF Fault, IInv, StateInv
<1>2. \A x \in Ends :
          /\ WriteOf(x, "child") \subseteq WriteOf(x, "child")'
          /\ WriteOf(x, "parent") \subseteq WriteOf(x, "parent")'
    BY <1>1 DEF WriteOf
<1>3. faults' \in 0..MaxFaults
    BY <1>1, DsaxAssumption DEF CodecInv, ByteInv
<1> QED BY <1>1, <1>2, <1>3, CodecIdle DEF CodecInv, ByteInv

LEMMA CopyInCodec ==
    ASSUME IInv, CodecInv, NEW e \in Ends, CopyIn(e) PROVE CodecInv'
<1>1. PICK n \in 1..Least(BufSize, Len(Typed(e))) :
          /\ out' = [out EXCEPT ![e] = Encode(SubSeq(Typed(e), 1, n))]
          /\ taken' = [taken EXCEPT ![e] = @ + n]
    BY DEF CopyIn
<1>2. /\ pc[e] = "child" /\ out[e] = << >>
      /\ UNCHANGED <<pc, inEsc, line, input, got, faults>>
    BY DEF CopyIn
<1> DEFINE c == SubSeq(Typed(e), 1, n)
           all == input[e]
           k == taken[e]
<1>3. all \in Bytes /\ Len(all) \in Nat /\ k \in Nat /\ k <= Len(all)
    BY InputBytes, LenProperties DEF IInv, ShapeInv, StateInv, Bytes
<1>4. Typed(e) \in Bytes /\ Len(Typed(e)) = Len(all) - k
    <2>1. \A i \in (k + 1)..Len(all) : all[i] \in Byte
        BY <1>3 DEF Bytes
    <2> QED BY <1>3, <2>1, SubSeqProperties DEF Typed, Bytes
<1>5. n \in Nat /\ 1 <= n /\ k + n <= Len(all)
    BY <1>1, <1>3, <1>4, DsaxAssumption DEF Least
<1>6. /\ c \in Bytes /\ SubSeq(all, 1, k) \in Bytes
      /\ SubSeq(all, 1, k + n) = SubSeq(all, 1, k) \o c
    <2>1. c = SubSeq(all, k + 1, k + n)
        <3>1. \A i \in (k + 1)..(k + n) : all[i] \in Byte
            BY <1>3, <1>5 DEF Bytes
        <3> DEFINE u == SubSeq(all, k + 1, k + n)
        <3>2. /\ u \in Seq(Byte) /\ Len(u) = n
              /\ \A i \in 1..n : u[i] = all[k + 1 + i - 1]
            BY <1>3, <1>5, <3>1, SubSeqProperties
        <3>3. \A i \in (k + 1)..Len(all) : all[i] \in Byte
            BY <1>3 DEF Bytes
        <3>4. \A i \in 1..(Len(all) - k) : Typed(e)[i] = all[k + 1 + i - 1]
            BY <1>3, <3>3, SubSeqProperties DEF Typed
        <3>5. \A i \in 1..n : Typed(e)[i] \in Byte
            BY <1>3, <1>4, <1>5 DEF Bytes
        <3>6. /\ c \in Seq(Byte) /\ Len(c) = n
              /\ \A i \in 1..n : c[i] = Typed(e)[1 + i - 1]
            BY <1>5, <3>5, SubSeqProperties
        <3>7. \A i \in 1..n : c[i] = u[i]
            <4> TAKE i \in 1..n
            <4>1. i \in 1..(Len(all) - k) /\ 1 + i - 1 = i
                BY <1>3, <1>5
            <4>2. Typed(e)[i] = all[k + 1 + i - 1]
                BY <3>4, <4>1
            <4>3. c[i] = Typed(e)[i]
                BY <3>6, <4>1
            <4> QED BY <3>2, <4>2, <4>3
        <3>8. c = u
            BY <3>2, <3>6, <3>7, SeqEqual
        <3> QED BY <3>8 DEF u
    <2>2. SubSeq(all, 1, k) \o SubSeq(all, k + 1, k + n) = SubSeq(all, 1, k + n)
        <3>1. /\ 1 \in 1..(Len(all) + 1) /\ k \in (1 - 1)..Len(all)
              /\ k + n \in k..Len(all) /\ all \in Seq(Byte)
            BY <1>3, <1>5 DEF Bytes
        <3> QED BY <3>1, ConcatAdjacentSubSeq
    <2>3. SubSeq(all, 1, k) \in Bytes /\ SubSeq(all, k + 1, k + n) \in Bytes
        <3>1. \A i \in 1..Len(all) : all[i] \in Byte
            BY <1>3 DEF Bytes
        <3> QED BY <1>3, <1>5, <3>1, SubSeqProperties DEF Bytes
    <2> QED BY <2>1, <2>2, <2>3
<1> HIDE DEF c
<1>7. Encode(c) \in Bytes /\ Encode(c) \in Seq(Clean)
    BY <1>6, EncodeType, EncodeClean
<1>8. /\ out' = [out EXCEPT ![e] = Encode(c)]
      /\ taken' = [taken EXCEPT ![e] = @ + n]
    BY <1>1 DEF c
<1>9. ByteInv'
    BY <1>2, <1>7, <1>8 DEF CodecInv, ByteInv
<1>10. Peer(e) \in Ends /\ Peer(Peer(e)) = e /\ Peer(e) # e
    BY Peers
<1>11. out'[e] = Encode(c) /\ taken'[e] = k + n /\ \A x \in Ends \ {e} :
          out'[x] = out[x] /\ taken'[x] = taken[x]
    BY <1>8 DEF CodecInv, ByteInv, IInv, ShapeInv
<1>12. StreamInv(e)'
    <2>1. WriteOf(e, "child") = {<< >>} /\ WriteOf(e, "child")' = {Encode(c)}
        BY <1>2, <1>11 DEF WriteOf
    <2>2. WriteOf(Peer(e), "parent")' = WriteOf(Peer(e), "parent")
        BY <1>2, <1>10, <1>11 DEF WriteOf
    <2>3. PICK r \in WriteOf(Peer(e), "parent") :
              Stream(line[e], << >>, inEsc[Peer(e)], got[Peer(e)], r, Sent(e))
        BY <2>1 DEF CodecInv, StreamInv
    <2>4. r \in Bytes /\ got[Peer(e)] \in Bytes /\ line[e] \in Bytes
          /\ inEsc[Peer(e)] \in BOOLEAN
        BY <1>10, Cat, CleanIsBytes DEF CodecInv, ByteInv, WriteOf
    <2>5. Sent(e) \in Bytes /\ Sent(e)' = Sent(e) \o c
        BY <1>2, <1>6, <1>11 DEF Sent
    <2>6. Stream(line[e], Encode(c), inEsc[Peer(e)], got[Peer(e)], r, Sent(e) \o c)
        BY <1>6, <2>3, <2>4, <2>5, StreamCopyIn
    <2> QED BY <1>2, <2>1, <2>2, <2>5, <2>6 DEF StreamInv
<1>13. StreamInv(Peer(e))'
    <2>1. WriteOf(Peer(e), "child")' = WriteOf(Peer(e), "child")
        BY <1>2, <1>10, <1>11 DEF WriteOf
    <2>2. WriteOf(e, "parent")' = WriteOf(e, "parent")
        BY <1>2 DEF WriteOf
    <2> QED BY <1>2, <1>10, <1>11, <2>1, <2>2, StreamSame DEF CodecInv
<1>14. \A x \in Ends : x = e \/ x = Peer(e)
    BY DEF Ends, Peer
<1> QED BY <1>9, <1>12, <1>13, <1>14 DEF CodecInv

LEMMA CopyOutCodec ==
    ASSUME IInv, CodecInv, NEW e \in Ends, CopyOut(e) PROVE CodecInv'
<1> DEFINE p == Peer(e)
<1>1. PICK n \in 1..Least(BufSize, Len(Arrived(e))) :
          LET s == Decode(SubSeq(Arrived(e), 1, n), StateOf(e)) IN
          /\ out' = [out EXCEPT ![e] = s.ret]
          /\ inEsc' = [inEsc EXCEPT ![e] = s.esc]
          /\ line' = [line EXCEPT ![p] = From(@, n)]
    BY DEF CopyOut
<1>2. /\ pc[e] = "parent" /\ out[e] = << >>
      /\ UNCHANGED <<pc, input, taken, got, faults>>
    BY DEF CopyOut
<1>3. p \in Ends /\ Peer(p) = e /\ p # e
    BY Peers
<1> HIDE DEF p
<1> DEFINE all == line[p]
           l == SubSeq(all, 1, n)
           m == From(all, n)
           s == Decode(l, inEsc[e])
<1>4. all \in Seq(Clean) /\ Len(all) \in Nat /\ inEsc[e] \in BOOLEAN /\ Len(all) <= LineSize
    BY <1>3, LenProperties DEF CodecInv, ByteInv
<1>5. Arrived(e) = all
    BY DEF Arrived, p
<1>6. n \in Nat /\ 1 <= n /\ n <= Len(all)
    BY <1>1, <1>4, <1>5, DsaxAssumption DEF Least
<1> HIDE DEF all
<1>7. l \in Seq(Clean) /\ m \in Seq(Clean) /\ Len(m) <= LineSize /\ all = l \o m
    <2>1. \A i \in 1..Len(all) : all[i] \in Clean
        BY <1>4
    <2>2. l \in Seq(Clean)
        BY <1>4, <1>6, <2>1, SubSeqProperties
    <2>3. m \in Seq(Clean) /\ Len(m) = IF n + 1 <= Len(all) THEN Len(all) - (n + 1) + 1 ELSE 0
        BY <1>4, <1>6, <2>1, SubSeqProperties DEF From
    <2>4. l \o m = SubSeq(all, 1, Len(all))
        BY <1>4, <1>6, ConcatAdjacentSubSeq DEF From
    <2>5. SubSeq(all, 1, Len(all)) = all
        BY <1>4, SubSeqFull
    <2>6. LineSize \in Nat
        BY DsaxAssumption
    <2>7. Len(m) <= LineSize
        BY <1>4, <1>6, <2>3, <2>6
    <2> QED BY <2>2, <2>3, <2>4, <2>5, <2>7
<1>8. l \in Bytes /\ m \in Bytes
    BY <1>7, CleanIsBytes
<1> HIDE DEF l, m
<1>9. s \in State
    BY <1>4, <1>8, DecodeType
<1>10. /\ out' = [out EXCEPT ![e] = s.ret]
       /\ inEsc' = [inEsc EXCEPT ![e] = s.esc]
       /\ line' = [line EXCEPT ![p] = m]
    BY <1>1, <1>5 DEF StateOf, l, m, all
<1> HIDE DEF s
<1>11. ByteInv'
    BY <1>2, <1>7, <1>9, <1>10 DEF CodecInv, ByteInv, State
<1>12. /\ out'[e] = s.ret /\ inEsc'[e] = s.esc /\ line'[p] = m
       /\ out'[p] = out[p] /\ inEsc'[p] = inEsc[p] /\ line'[e] = line[e]
    BY <1>3, <1>10 DEF CodecInv, ByteInv
<1>13. StreamInv(p)'
    <2>1. WriteOf(e, "parent") = {<< >>} /\ WriteOf(e, "parent")' = {s.ret}
        BY <1>2, <1>12 DEF WriteOf
    <2>2. WriteOf(p, "child")' = WriteOf(p, "child")
        BY <1>2, <1>12 DEF WriteOf
    <2>3. PICK w \in WriteOf(p, "child") :
              Stream(l \o m, w, inEsc[e], got[e], << >>, Sent(p))
        BY <1>3, <1>7, <2>1 DEF CodecInv, StreamInv, all
    <2>4. w \in Bytes /\ got[e] \in Bytes
        BY <1>3, Cat DEF CodecInv, ByteInv, WriteOf
    <2>5. Sent(p)' = Sent(p)
        BY <1>2 DEF Sent
    <2>6. Stream(m, w, s.esc, got[e], s.ret, Sent(p))
        BY <1>4, <1>8, <2>3, <2>4, StreamCopyOut DEF s
    <2> QED BY <1>2, <1>3, <1>12, <2>1, <2>2, <2>5, <2>6 DEF StreamInv
<1>14. StreamInv(e)'
    <2>1. WriteOf(e, "child")' = WriteOf(e, "child")
        BY <1>2 DEF WriteOf
    <2>2. WriteOf(p, "parent")' = WriteOf(p, "parent")
        BY <1>2, <1>12 DEF WriteOf
    <2>3. line'[e] = line[e] /\ inEsc'[Peer(e)] = inEsc[Peer(e)] /\ UNCHANGED <<input, taken, got>>
        BY <1>2, <1>12 DEF p
    <2> QED BY <2>1, <2>2, <2>3, StreamSame DEF CodecInv, p
<1>15. \A x \in Ends : x = e \/ x = p
    BY DEF Ends, Peer, p
<1> QED BY <1>11, <1>13, <1>14, <1>15 DEF CodecInv

LEMMA PutCodec ==
    ASSUME IInv, CodecInv, NEW e \in Ends, Put(e) PROVE CodecInv'
<1> DEFINE p == Peer(e)
           o == out[e]
<1>1. /\ o # << >> /\ pc[e] \in {"child", "parent"} /\ out' = [out EXCEPT ![e] = Tail(o)]
      /\ UNCHANGED <<pc, inEsc, input, taken, faults>>
    BY DEF Put, CodecInv, ByteInv, IInv, StateInv
<1>2. p \in Ends /\ Peer(p) = e /\ p # e
    BY Peers
<1>3. o \in Bytes /\ Head(o) \in Byte /\ Tail(o) \in Bytes
    <2>1. o \in Seq(Byte)
        BY DEF CodecInv, ByteInv, Bytes
    <2> QED BY <1>1, <2>1, Dec!FirstAndRest DEF Bytes
<1> HIDE DEF p, o
<1>4. out'[e] = Tail(o) /\ out'[p] = out[p]
    BY <1>1, <1>2 DEF CodecInv, ByteInv
<1>5. \A x \in Ends : x = e \/ x = p
    BY DEF Ends, Peer, p
<1>6. Sent(e)' = Sent(e) /\ Sent(p)' = Sent(p)
    BY <1>1 DEF Sent
<1>7. CASE pc[e] = "child"
    <2>1. /\ Len(line[e]) < LineSize /\ line' = [line EXCEPT ![e] = Append(@, Head(o))]
          /\ UNCHANGED got
        BY <1>7 DEF Put, o
    <2>2. o \in Seq(Clean) /\ line[e] \in Seq(Clean)
        BY <1>7 DEF CodecInv, ByteInv, o
    <2>3. /\ Head(o) \in Clean /\ Tail(o) \in Seq(Clean)
          /\ Append(line[e], Head(o)) \o Tail(o) = line[e] \o o
        BY <1>1, <2>2, Dec!FirstAndRest DEF o
    <2>4. /\ line'[e] = Append(line[e], Head(o)) /\ line'[p] = line[p]
          /\ line'[e] \in Seq(Clean) /\ Len(line'[e]) <= LineSize
        <3>1. line'[e] = Append(line[e], Head(o)) /\ line'[p] = line[p]
            BY <1>2, <2>1 DEF CodecInv, ByteInv
        <3>2. LineSize \in Nat /\ Len(line[e]) \in Nat
            BY <2>2, DsaxAssumption
        <3>3. /\ Append(line[e], Head(o)) \in Seq(Clean)
              /\ Len(Append(line[e], Head(o))) = Len(line[e]) + 1
            BY <2>2, <2>3, AppendProperties
        <3> QED BY <2>1, <3>1, <3>2, <3>3
    <2>5. ByteInv'
        <3>1. line' \in [Ends -> Seq(Clean)] /\ \A x \in Ends : Len(line'[x]) <= LineSize
            BY <1>5, <2>1, <2>4 DEF CodecInv, ByteInv
        <3>2. /\ out' \in [Ends -> Bytes]
              /\ \A x \in Ends : pc'[x] = "child" => out'[x] \in Seq(Clean)
              /\ \A x \in Ends : pc'[x] = "select" => out'[x] = << >>
            BY <1>1, <1>3, <1>4, <1>5, <1>7, <2>3 DEF CodecInv, ByteInv
        <3> QED BY <1>1, <2>1, <3>1, <3>2 DEF CodecInv, ByteInv
    <2>6. StreamInv(e)'
        <3>1. WriteOf(e, "child") = {o} /\ WriteOf(e, "child")' = {Tail(o)}
            BY <1>1, <1>4, <1>7 DEF WriteOf, o
        <3>2. WriteOf(p, "parent")' = WriteOf(p, "parent")
            BY <1>1, <1>4 DEF WriteOf
        <3>3. PICK r \in WriteOf(p, "parent") :
                  Stream(line[e], o, inEsc[p], got[p], r, Sent(e))
            BY <3>1 DEF CodecInv, StreamInv, p
        <3>4. Stream(line'[e], Tail(o), inEsc[p], got[p], r, Sent(e))
            BY <2>3, <2>4, <3>3 DEF Stream
        <3>5. inEsc'[p] = inEsc[p] /\ got'[p] = got[p]
            BY <1>1, <2>1
        <3> QED BY <1>6, <3>1, <3>2, <3>4, <3>5 DEF StreamInv, p
    <2>7. StreamInv(p)'
        <3>1. WriteOf(p, "child")' = WriteOf(p, "child")
            BY <1>1, <1>4 DEF WriteOf
        <3>2. WriteOf(e, "parent")' = WriteOf(e, "parent")
            BY <1>1, <1>7 DEF WriteOf
        <3> QED BY <1>1, <1>2, <2>1, <2>4, <3>1, <3>2, StreamSame DEF CodecInv
    <2> QED BY <1>5, <2>5, <2>6, <2>7 DEF CodecInv
<1>8. CASE pc[e] = "parent"
    <2>1. got' = [got EXCEPT ![e] = Append(@, Head(o))] /\ UNCHANGED line
        BY <1>8 DEF Put, o
    <2>2. got[e] \in Bytes /\ Append(got[e], Head(o)) \in Bytes
        BY <1>3, Cat DEF CodecInv, ByteInv
    <2>3. Append(got[e], Head(o)) \o Tail(o) = got[e] \o o
        BY <1>1, <1>3, <2>2, Dec!FirstAndRest DEF Bytes, o
    <2>4. got'[e] = Append(got[e], Head(o)) /\ got'[p] = got[p]
        BY <1>2, <2>1 DEF CodecInv, ByteInv
    <2>5. ByteInv'
        BY <1>1, <1>3, <1>8, <2>1, <2>2 DEF CodecInv, ByteInv
    <2>6. StreamInv(p)'
        <3>1. WriteOf(e, "parent") = {o} /\ WriteOf(e, "parent")' = {Tail(o)}
            BY <1>1, <1>4, <1>8 DEF WriteOf, o
        <3>2. WriteOf(p, "child")' = WriteOf(p, "child")
            BY <1>1, <1>4 DEF WriteOf
        <3>3. PICK w \in WriteOf(p, "child") :
                  Stream(line[p], w, inEsc[e], got[e], o, Sent(p))
            BY <1>2, <3>1 DEF CodecInv, StreamInv
        <3>4. Stream(line[p], w, inEsc[e], got'[e], Tail(o), Sent(p))
            BY <2>3, <2>4, <3>3 DEF Stream
        <3>5. line'[p] = line[p] /\ inEsc'[e] = inEsc[e]
            BY <1>1, <2>1
        <3> QED BY <1>2, <1>6, <3>1, <3>2, <3>4, <3>5 DEF StreamInv
    <2>7. StreamInv(e)'
        <3>1. WriteOf(e, "child")' = WriteOf(e, "child")
            BY <1>1, <1>8 DEF WriteOf
        <3>2. WriteOf(p, "parent")' = WriteOf(p, "parent")
            BY <1>1, <1>4 DEF WriteOf
        <3> QED BY <1>1, <2>1, <2>4, <3>1, <3>2, StreamSame DEF CodecInv, p
    <2> QED BY <1>5, <2>5, <2>6, <2>7 DEF CodecInv
<1> QED BY <1>1, <1>7, <1>8

LEMMA CodecInvariance == Spec => []CodecInv
<1>1. ASSUME IInv, CodecInv, [Next]_vars PROVE CodecInv'
    <2>1. CASE Next
        BY <1>1, <2>1, SelectCodec, CopyInCodec, CopyOutCodec, PutCodec, SkipCodec,
           FaultCodec DEF Next, Step
    <2>2. CASE UNCHANGED vars
        <3>1. \A e \in Ends :
                  /\ WriteOf(e, "child") \subseteq WriteOf(e, "child")'
                  /\ WriteOf(e, "parent") \subseteq WriteOf(e, "parent")'
            BY <2>2 DEF vars, WriteOf
        <3>2. \A e \in Ends :
                  /\ pc'[e] = "child" => out[e] \in Seq(Clean)
                  /\ pc'[e] = "select" => out[e] = << >>
            BY <1>1, <2>2 DEF vars, CodecInv, ByteInv
        <3> QED BY <1>1, <2>2, <3>1, <3>2, CodecIdle DEF vars, CodecInv, ByteInv
    <2> QED BY <1>1, <2>1, <2>2
<1> QED BY InitCodec, Invariance, <1>1, PTL DEF Spec

-----------------------------------------------------------------------------
(* Every variable of the two programs has its type: a write() that is not  *)
(* finished keeps mainloop() from its next select(), a line never holds    *)
(* more than flow control admits, in_esc is a Boolean, and no read()       *)
(* blocks.                                                                 *)
THEOREM TypeCorrect == Spec => []TypeOK
<1>1. IInv /\ CodecInv => TypeOK
    BY DEF IInv, StateInv, CodecInv, ByteInv, TypeOK
<1> QED BY <1>1, Invariance, CodecInvariance, PTL

(* However read() cuts the stream, between ESC and its code too, and       *)
(* wherever flow control stops a write(): what dsax writes to a user's pty *)
(* is what the other user typed, in order and unchanged, and when nothing  *)
(* is under way it is all of it; XON and XOFF are never on the line.       *)
THEOREM TypedIsGot == Spec => []UserGetsWhatWasTyped
<1>1. ASSUME IInv, CodecInv PROVE UserGetsWhatWasTyped
    <2> SUFFICES ASSUME NEW e \in Ends
                 PROVE  /\ Range(line[e]) \cap {XON, XOFF} = {}
                        /\ IsPrefix(got[Peer(e)], Sent(e))
                        /\ (line[e] = << >> /\ out = [x \in Ends |-> << >>])
                              => got[Peer(e)] = Sent(e)
        BY DEF UserGetsWhatWasTyped, Sent
    <2> DEFINE p == Peer(e)
               g == got[p]
    <2>1. p \in Ends
        BY Peers
    <2>2. Range(line[e]) \cap {XON, XOFF} = {}
        <3>1. line[e] \in Seq(Clean)
            BY <1>1 DEF CodecInv, ByteInv
        <3>2. Range(line[e]) \subseteq Clean
            BY <3>1, RangeOfSeq
        <3> QED BY <3>2 DEF Clean
    <2>3. PICK w \in WriteOf(e, "child"), r \in WriteOf(p, "parent") :
              Stream(line[e], w, inEsc[p], g, r, Sent(e))
        BY <1>1 DEF CodecInv, StreamInv
    <2>4. /\ w \in Bytes /\ r \in Bytes /\ g \in Bytes /\ line[e] \in Bytes
          /\ inEsc[p] \in BOOLEAN
        BY <1>1, <2>1, Cat, CleanIsBytes DEF CodecInv, ByteInv, WriteOf
    <2> DEFINE k == Decode(line[e] \o w, inEsc[p]).ret
    <2>5. k \in Bytes
        BY <2>4, Cat, DecodeType DEF State
    <2> HIDE DEF g, k
    <2>6. (g \o r) \o k = Sent(e)
        BY <2>3 DEF Stream, k
    <2>7. r \o k \in Bytes /\ (g \o r) \o k = g \o (r \o k)
        BY <2>4, <2>5, Cat, Assoc
    <2>8. IsPrefix(g, Sent(e))
        BY <2>4, <2>6, <2>7, Dec!PrefixOfConcat DEF Bytes, IsPrefix, Dec!IsPrefix
    <2>9. ASSUME line[e] = << >>, out = [x \in Ends |-> << >>] PROVE g = Sent(e)
        <3>1. w = << >> /\ r = << >>
            BY <2>1, <2>9 DEF WriteOf
        <3>2. << >> \o << >> = << >> /\ g \o << >> = g
            BY <2>4, Cat
        <3>3. k = << >>
            <4>1. k = Decode(<< >>, inEsc[p]).ret
                BY <2>9, <3>1, <3>2 DEF k
            <4> QED BY <4>1, DecodeUnfold, Fields, Zenon
        <3> QED BY <2>6, <3>1, <3>2, <3>3
    <2> QED BY <2>2, <2>8, <2>9 DEF g
<1> QED BY <1>1, Invariance, CodecInvariance, PTL
=============================================================================
