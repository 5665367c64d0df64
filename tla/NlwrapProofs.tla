---------------------------- MODULE NlwrapProofs ----------------------------
(* Nothing is lost inside nlwrap, for all inputs and sizes of buffers and  *)
(* pipes.                                                                  *)
EXTENDS Nlwrap, SequenceTheorems, TLAPS

(* The provers do not know of their own that LF is a string.               *)
Byte == STRING \cup {"LF"}
Bytes == Seq(Byte)

TypeInv ==
    /\ data \in [Dirs -> Bytes] /\ eof \in [Dirs -> BOOLEAN]
    /\ stdin \in Bytes /\ toChild \in Bytes /\ fromChild \in Bytes
    /\ childGot \in Bytes /\ stdout \in Bytes
    /\ said \in 0..Len(Said)
    /\ busy \in BOOLEAN /\ busy => said < Len(Said)

(* What went before the end of the input was closed, and before the child  *)
(* saw that.                                                               *)
EofInv ==
    /\ eof["real"] => stdin = << >>
    /\ closed => stdin = << >> /\ data["real"] = << >>
    /\ sawEof => closed /\ toChild = << >>

InputBytes ==
    childGot \o toChild \o data["real"] \o Translated(stdin) = Translated(Typed)

IInv == TypeInv /\ EofInv /\ InputBytes /\ OutputConserved

-----------------------------------------------------------------------------
(* Replacing every CR by LF keeps the length, and can be done in parts.    *)

LEMMA TranslatedType ==
    ASSUME NEW s \in Bytes
    PROVE  /\ Translated(s) \in Bytes
           /\ Len(Translated(s)) = Len(s)
           /\ \A i \in 1..Len(s) :
                 Translated(s)[i] = IF s[i] = "CR" THEN "LF" ELSE s[i]
<1>1. DOMAIN s = 1..Len(s) /\ Len(s) \in Nat
    BY LenProperties DEF Bytes
<1>2. \A i \in 1..Len(s) : s[i] \in Byte
    BY ElementOfSeq DEF Bytes
<1>3. Translated(s) = [i \in 1..Len(s) |-> IF s[i] = "CR" THEN "LF" ELSE s[i]]
    BY <1>1 DEF Translated
<1> DEFINE lf(i) == IF s[i] = "CR" THEN "LF" ELSE s[i]
<1>a. "LF" \in Byte
    BY DEF Byte
<1>b. \A i \in 1..Len(s) : lf(i) \in Byte
    BY <1>2, <1>a
<1>4. Translated(s) \in [1..Len(s) -> Byte]
    <2>1. Translated(s) = [i \in 1..Len(s) |-> lf(i)]
        BY <1>3
    <2> HIDE DEF lf
    <2> QED BY <2>1, <1>b
<1>5. Translated(s) \in Bytes
    BY <1>1, <1>4 DEF Bytes
<1> QED
    BY <1>1, <1>3, <1>4, <1>5 DEF Bytes

LEMMA TranslatedEmpty == Translated(<< >>) = << >>
<1>1. << >> \in Bytes
    BY DEF Bytes
<1>2. Translated(<< >>) \in Bytes /\ Len(Translated(<< >>)) = 0
    BY <1>1, TranslatedType
<1> QED
    BY <1>2, EmptySeq DEF Bytes

LEMMA TranslatedConcat ==
    ASSUME NEW s \in Bytes, NEW t \in Bytes
    PROVE  Translated(s \o t) = Translated(s) \o Translated(t)
<1> DEFINE l == Translated(s \o t)
           r == Translated(s) \o Translated(t)
<1>1. /\ s \o t \in Bytes
      /\ Len(s \o t) = Len(s) + Len(t)
      /\ \A i \in 1..(Len(s) + Len(t)) :
            (s \o t)[i] = IF i <= Len(s) THEN s[i] ELSE t[i - Len(s)]
    BY ConcatProperties DEF Bytes
<1>2. /\ l \in Bytes /\ Len(l) = Len(s) + Len(t)
      /\ \A i \in 1..(Len(s) + Len(t)) :
            l[i] = IF (s \o t)[i] = "CR" THEN "LF" ELSE (s \o t)[i]
    BY <1>1, TranslatedType
<1>3. /\ Translated(s) \in Bytes /\ Len(Translated(s)) = Len(s)
      /\ Translated(t) \in Bytes /\ Len(Translated(t)) = Len(t)
      /\ \A i \in 1..Len(s) :
            Translated(s)[i] = IF s[i] = "CR" THEN "LF" ELSE s[i]
      /\ \A i \in 1..Len(t) :
            Translated(t)[i] = IF t[i] = "CR" THEN "LF" ELSE t[i]
    BY TranslatedType
<1>4. /\ r \in Bytes /\ Len(r) = Len(s) + Len(t)
      /\ \A i \in 1..(Len(s) + Len(t)) :
            r[i] = IF i <= Len(s) THEN Translated(s)[i]
                                  ELSE Translated(t)[i - Len(s)]
    <2> DEFINE a == Translated(s)
               b == Translated(t)
    <2>1. a \in Seq(Byte) /\ b \in Seq(Byte) /\ Len(a) = Len(s) /\ Len(b) = Len(t)
        BY <1>3 DEF Bytes
    <2> HIDE DEF a, b
    <2>2. /\ a \o b \in Seq(Byte)
          /\ Len(a \o b) = Len(a) + Len(b)
          /\ \A i \in 1..(Len(a) + Len(b)) :
                (a \o b)[i] = IF i <= Len(a) THEN a[i] ELSE b[i - Len(a)]
        BY <2>1, ConcatProperties
    <2>3. /\ a \o b \in Seq(Byte) /\ Len(a \o b) = Len(s) + Len(t)
          /\ \A i \in 1..(Len(s) + Len(t)) :
                (a \o b)[i] = IF i <= Len(s) THEN a[i] ELSE b[i - Len(s)]
        BY <2>1, <2>2
    <2> QED BY <2>3 DEF a, b, Bytes
<1>5. Len(s) \in Nat /\ Len(t) \in Nat
    BY LenProperties DEF Bytes
<1> HIDE DEF l, r
<1>6. \A i \in 1..(Len(s) + Len(t)) : l[i] = r[i]
    <2> SUFFICES ASSUME NEW i \in 1..(Len(s) + Len(t))
                 PROVE  l[i] = r[i]
        OBVIOUS
    <2>1. CASE i <= Len(s)
        <3>1. i \in 1..Len(s)
            BY <2>1, <1>5
        <3>2. l[i] = IF s[i] = "CR" THEN "LF" ELSE s[i]
            BY <1>1, <1>2, <2>1
        <3>3. r[i] = Translated(s)[i]
            BY <1>4, <2>1
        <3> QED BY <3>1, <3>2, <3>3, <1>3
    <2>2. CASE ~(i <= Len(s))
        <3>1. i - Len(s) \in 1..Len(t)
            BY <2>2, <1>5
        <3>2. l[i] = IF t[i - Len(s)] = "CR" THEN "LF" ELSE t[i - Len(s)]
            BY <1>1, <1>2, <2>2
        <3>3. r[i] = Translated(t)[i - Len(s)]
            BY <1>4, <2>2
        <3> QED BY <3>1, <3>2, <3>3, <1>3
    <2> QED BY <2>1, <2>2
<1>7. l = r
    BY <1>2, <1>4, <1>6, SeqEqual DEF Bytes
<1> QED
    BY <1>7 DEF l, r

(* A sequence is what was taken from its front, and the rest.              *)
LEMMA CutAt ==
    ASSUME NEW s \in Bytes, NEW n \in 0..Len(s)
    PROVE  /\ SubSeq(s, 1, n) \in Bytes
           /\ From(s, n) \in Bytes
           /\ SubSeq(s, 1, n) \o From(s, n) = s
<1>1. Len(s) \in Nat /\ \A i \in 1..Len(s) : s[i] \in Byte
    BY LenProperties, ElementOfSeq DEF Bytes
<1>2. SubSeq(s, 1, n) \in Bytes
    <2>1. \A i \in 1..n : s[i] \in Byte
        BY <1>1
    <2> QED BY <1>1, <2>1, SubSeqProperties DEF Bytes
<1>3. From(s, n) \in Bytes
    <2>1. \A i \in (n + 1)..Len(s) : s[i] \in Byte
        BY <1>1
    <2> QED BY <1>1, <2>1, SubSeqProperties DEF Bytes, From
<1>4. SubSeq(s, 1, n) \o SubSeq(s, n + 1, Len(s)) = SubSeq(s, 1, Len(s))
    <2>1. 1 \in 1..(Len(s) + 1) /\ n \in (1 - 1)..Len(s) /\ Len(s) \in n..Len(s)
        BY <1>1
    <2> QED BY <2>1, ConcatAdjacentSubSeq DEF Bytes
<1>5. SubSeq(s, 1, Len(s)) = s
    BY SubSeqFull DEF Bytes
<1> QED
    BY <1>2, <1>3, <1>4, <1>5 DEF From

LEMMA TranslatedCut ==
    ASSUME NEW s \in Bytes, NEW n \in 0..Len(s)
    PROVE  Translated(SubSeq(s, 1, n)) \o Translated(From(s, n)) = Translated(s)
BY CutAt, TranslatedConcat

LEMMA ConcatType ==
    ASSUME NEW s \in Bytes, NEW t \in Bytes
    PROVE  s \o t \in Bytes
BY ConcatProperties DEF Bytes

LEMMA Assoc ==
    ASSUME NEW s \in Bytes, NEW t \in Bytes, NEW u \in Bytes
    PROVE  (s \o t) \o u = s \o (t \o u)
BY ConcatAssociative DEF Bytes

LEMMA EmptyBytes ==
    /\ << >> \in Bytes
    /\ \A s \in Bytes : s \o << >> = s /\ << >> \o s = s
<1>1. << >> \in Bytes
    BY DEF Bytes
<1> QED BY <1>1, ConcatEmptySeq DEF Bytes

LEMMA LengthOf == ASSUME NEW s \in Bytes PROVE Len(s) \in Nat
BY LenProperties DEF Bytes

LEMMA OneMore ==
    ASSUME NEW s \in Bytes, NEW b \in Byte
    PROVE  <<b>> \in Bytes /\ Append(s, b) = s \o <<b>> /\ Append(s, b) \in Bytes
<1>1. <<b>> \in Bytes
    BY DEF Bytes
<1>2. Append(s, b) = s \o <<b>>
    BY AppendIsConcat DEF Bytes
<1> QED BY <1>1, <1>2, ConcatType

LEMMA FirstAndRest ==
    ASSUME NEW s \in Bytes, s # << >>
    PROVE  /\ Head(s) \in Byte /\ Tail(s) \in Bytes
           /\ <<Head(s)>> \o Tail(s) = s
<1>1. Head(s) \in Byte /\ Tail(s) \in Bytes
    BY HeadTailProperties DEF Bytes
<1>2. Len(s) \in Nat \ {0}
    BY EmptySeq DEF Bytes
<1>3. 1 \in 1..Len(s) /\ Len(s) \in 1..Len(s)
    BY <1>2
<1>4. SubSeq(s, 1, Len(s)) = <<s[1]>> \o SubSeq(s, 2, Len(s))
    BY <1>3, SubSeqRecursiveFirst DEF Bytes
<1>5. SubSeq(s, 1, Len(s)) = s /\ Tail(s) = SubSeq(s, 2, Len(s))
    BY SubSeqFull, TailIsSubSeq DEF Bytes
<1>6. Head(s) = s[1]
    OBVIOUS
<1> QED BY <1>1, <1>4, <1>5, <1>6
-----------------------------------------------------------------------------
LEMMA SaidType == Typed \in Bytes /\ Said \in Bytes /\ Len(Said) \in Nat
<1>1. STRING \subseteq Byte
    BY DEF Byte
<1>2. Typed \in Seq(STRING) /\ Said \in Seq(STRING)
    BY NlwrapAssumption
<1>3. Typed \in Bytes /\ Said \in Bytes
    BY <1>1, <1>2, SeqMonotonic DEF Bytes
<1> QED BY <1>3, LengthOf

LEMMA InitIInv == Init => IInv
<1> SUFFICES ASSUME Init PROVE IInv
    OBVIOUS
<1>1. TypeInv
    BY SaidType, EmptyBytes DEF Init, TypeInv, Dirs
<1>2. EofInv
    BY DEF Init, EofInv, Dirs
<1>3. InputBytes
    <2>1. /\ childGot = << >> /\ toChild = << >> /\ data["real"] = << >>
          /\ stdin = Typed
        BY DEF Init, Dirs
    <2>2. Translated(Typed) \in Bytes
        BY SaidType, TranslatedType
    <2> QED BY <2>1, <2>2, EmptyBytes DEF InputBytes
<1>4. OutputConserved
    <2>1. /\ stdout = << >> /\ data["child"] = << >>
          /\ fromChild = << >> /\ said = 0
        BY DEF Init, Dirs
    <2>2. SubSeq(Said, 1, 0) = << >>
        BY SubSeqEmpty
    <2> QED BY <2>1, <2>2, EmptyBytes, TranslatedEmpty DEF OutputConserved, WasSaid
<1> QED BY <1>1, <1>2, <1>3, <1>4 DEF IInv

(* What IInv speaks of.                                                    *)
spoken == <<data, eof, closed, stdin, toChild, fromChild, childGot, stdout, said, sawEof,
            busy>>

LEMMA Unspoken == ASSUME IInv, UNCHANGED spoken PROVE IInv'
BY DEF IInv, TypeInv, EofInv, InputBytes, OutputConserved, WasSaid, Translated, spoken

LEMMA ChildStartsWriteIInv == ASSUME IInv, ChildStartsWrite PROVE IInv'
<1>1. /\ said < Len(Said) /\ busy' = TRUE
      /\ UNCHANGED <<data, eof, closed, stdin, toChild, fromChild, childGot, stdout,
                     said, sawEof>>
    BY DEF ChildStartsWrite, bufs
<1> QED
    BY <1>1 DEF IInv, TypeInv, EofInv, InputBytes, OutputConserved, WasSaid, Translated

LEMMA ChildWritesIInv == ASSUME IInv, ChildWrites PROVE IInv'
<1> DEFINE b == Said[said + 1]
<1>2. TypeInv
    BY DEF IInv
<1>1. /\ said < Len(Said) /\ said' = said + 1 /\ busy' = FALSE
      /\ fromChild' = Append(fromChild, b)
      /\ UNCHANGED <<data, eof, closed, stdin, toChild, childGot, stdout, sawEof>>
    BY <1>2 DEF ChildWrites, bufs, TypeInv
<1>3. said + 1 \in 1..Len(Said) /\ Said \in Bytes
    BY <1>1, <1>2, SaidType DEF TypeInv
<1>4. b \in Byte
    BY <1>3, ElementOfSeq DEF Bytes
<1> HIDE DEF b
<1>5. /\ <<b>> \in Bytes /\ fromChild' = fromChild \o <<b>> /\ fromChild' \in Bytes
    BY <1>1, <1>2, <1>4, OneMore DEF TypeInv
<1>6. TypeInv'
    BY <1>1, <1>2, <1>3, <1>5, SaidType DEF TypeInv
<1>7. OutputConserved'
    <2> DEFINE d == data["child"]
    <2>1. d \in Bytes /\ stdout \in Bytes /\ fromChild \in Bytes /\ d' = d
        BY <1>1, <1>2 DEF TypeInv, Dirs
    <2>2. SubSeq(Said, 1, said + 1) = SubSeq(Said, 1, said) \o <<b>>
        <3>1. 1 \in 1..Len(Said) /\ said + 1 \in 1..Len(Said) /\ (said + 1) - 1 = said
            BY <1>2, <1>3 DEF TypeInv
        <3>2. SubSeq(Said, 1, said + 1)
                = SubSeq(Said, 1, (said + 1) - 1) \o <<Said[said + 1]>>
            BY <3>1, <1>3, SubSeqRecursiveSecond DEF Bytes
        <3> QED BY <3>1, <3>2 DEF b
    <2>3. said \in 0..Len(Said)
        BY <1>2 DEF TypeInv
    <2>4. SubSeq(Said, 1, said) \in Bytes
        BY <1>3, <2>3, CutAt
    <2>5. Translated(SubSeq(Said, 1, said + 1))
            = Translated(SubSeq(Said, 1, said)) \o Translated(<<b>>)
        BY <2>2, <2>4, <1>5, TranslatedConcat
    <2>6. Translated(fromChild') = Translated(fromChild) \o Translated(<<b>>)
        BY <1>5, <2>1, TranslatedConcat
    <2>7. stdout \o d \o Translated(fromChild) = Translated(SubSeq(Said, 1, said))
        BY DEF IInv, OutputConserved, WasSaid
    <2>8. /\ Translated(fromChild) \in Bytes /\ Translated(<<b>>) \in Bytes
          /\ stdout \o d \in Bytes
        BY <1>5, <2>1, TranslatedType, ConcatType
    <2> HIDE DEF d
    <2>9. (stdout \o d) \o (Translated(fromChild) \o Translated(<<b>>))
            = ((stdout \o d) \o Translated(fromChild)) \o Translated(<<b>>)
        BY <2>8, Assoc
    <2>10. (stdout \o d) \o Translated(fromChild')
             = Translated(SubSeq(Said, 1, said + 1))
        BY <2>5, <2>6, <2>7, <2>9
    <2>11. stdout' = stdout /\ d' = d /\ said' = said + 1
        BY <1>1, <2>1
    <2>12. (stdout' \o d') \o Translated(fromChild') = Translated(SubSeq(Said, 1, said'))
        BY <2>10, <2>11
    <2> QED BY <2>12 DEF OutputConserved, WasSaid, Translated, d
<1>8. EofInv' /\ InputBytes'
    BY <1>1 DEF IInv, EofInv, InputBytes, Translated
<1> QED BY <1>6, <1>7, <1>8 DEF IInv

LEMMA ChildReadsIInv == ASSUME IInv, ChildReads PROVE IInv'
<1>1. UNCHANGED <<data, eof, closed, stdin, fromChild, stdout, said, busy>>
    BY DEF ChildReads, bufs
<1>2. TypeInv /\ EofInv
    BY DEF IInv
<1>3. OutputConserved'
    BY <1>1 DEF IInv, OutputConserved, WasSaid, Translated
<1>4. CASE /\ toChild # << >> /\ childGot' = Append(childGot, Head(toChild))
           /\ toChild' = Tail(toChild) /\ sawEof' = sawEof
    <2> DEFINE d == data["real"]
               h == Head(toChild)
    <2>1. /\ d \in Bytes /\ childGot \in Bytes /\ toChild \in Bytes
          /\ Translated(stdin) \in Bytes
        BY <1>2, TranslatedType DEF TypeInv, Dirs
    <2>2. h \in Byte /\ Tail(toChild) \in Bytes /\ <<h>> \o Tail(toChild) = toChild
        BY <2>1, <1>4, FirstAndRest
    <2> HIDE DEF d, h
    <2>3. /\ <<h>> \in Bytes /\ childGot' = childGot \o <<h>> /\ childGot' \in Bytes
        BY <1>4, <2>1, <2>2, OneMore DEF h
    <2>4. childGot' \o toChild' = childGot \o toChild
        <3>1. (childGot \o <<h>>) \o Tail(toChild) = childGot \o (<<h>> \o Tail(toChild))
            BY <2>1, <2>2, <2>3, Assoc
        <3> QED BY <1>4, <2>2, <2>3, <3>1
    <2>5. TypeInv'
        BY <1>1, <1>2, <1>4, <2>2, <2>3 DEF TypeInv
    <2>6. EofInv'
        BY <1>1, <1>2, <1>4 DEF EofInv
    <2>7. InputBytes'
        BY <1>1, <2>4 DEF IInv, InputBytes, Translated
    <2> QED BY <1>3, <2>5, <2>6, <2>7 DEF IInv
<1>5. CASE toChild = << >> /\ closed /\ sawEof' = TRUE /\ UNCHANGED <<childGot, toChild>>
    <2>1. TypeInv' /\ EofInv'
        BY <1>1, <1>2, <1>5 DEF TypeInv, EofInv
    <2>2. InputBytes'
        BY <1>1, <1>5 DEF IInv, InputBytes, Translated
    <2> QED BY <1>3, <2>1, <2>2 DEF IInv
<1> QED BY <1>4, <1>5 DEF ChildReads

(* A read into an empty buffer.                                            *)
LEMMA FillStep ==
    ASSUME NEW d \in Dirs, IInv, Fill(d)
    PROVE  \E n \in 0..Len(Offered(d)) :
              /\ data' = [data EXCEPT ![d] = Translated(SubSeq(Offered(d), 1, n))]
              /\ eof' = [eof EXCEPT ![d] = (n = 0)]
              /\ n = 0 => Offered(d) = << >>
              /\ IF d = "real"
                 THEN stdin' = From(stdin, n) /\ UNCHANGED fromChild
                 ELSE fromChild' = From(fromChild, n) /\ UNCHANGED stdin
<1>1. Offered(d) \in Bytes /\ BufSize \in Nat /\ Len(Offered(d)) \in Nat
    BY NlwrapAssumption, LengthOf DEF Offered, IInv, TypeInv
<1>2. PICK n \in Least(1, Len(Offered(d)))..Least(BufSize, Len(Offered(d))) :
              /\ data' = [data EXCEPT ![d] = Replaced(SubSeq(Offered(d), 1, n))]
              /\ eof' = [eof EXCEPT ![d] = EndRead(n)]
              /\ IF d = "real"
                 THEN stdin' = From(stdin, n) /\ UNCHANGED fromChild
                 ELSE fromChild' = From(fromChild, n) /\ UNCHANGED stdin
    BY DEF Fill
<1>3. n \in 0..Len(Offered(d))
    BY <1>1, <1>2 DEF Least
<1>4. ASSUME n = 0 PROVE Offered(d) = << >>
    <2>1. Len(Offered(d)) = 0
        BY <1>1, <1>2, <1>4 DEF Least
    <2> QED BY <1>1, <2>1, EmptySeq DEF Bytes
<1>5. Replaced(SubSeq(Offered(d), 1, n)) = Translated(SubSeq(Offered(d), 1, n))
    BY DEF Replaced, Translated
<1> QED BY <1>2, <1>3, <1>4, <1>5 DEF EndRead
LEMMA FromChildIInv == ASSUME IInv, FromChild PROVE IInv'
<1>1. UNCHANGED <<closed, toChild, childGot, said, sawEof, busy>>
    BY DEF FromChild, child
<1>2. TypeInv /\ EofInv /\ "child" \in Dirs /\ "real" \in Dirs
    BY DEF IInv, Dirs
<1> DEFINE d == data["child"]
<1>3. /\ d \in Bytes /\ stdout \in Bytes /\ fromChild \in Bytes
      /\ stdout \o d \in Bytes
      /\ (stdout \o d) \o Translated(fromChild) = Translated(WasSaid)
    BY <1>2, ConcatType DEF IInv, TypeInv, OutputConserved
<1>4. CASE d = << >> /\ "child" \in rfds
    <2>1. Fill("child") /\ UNCHANGED stdout
        BY <1>4 DEF FromChild
    <2>2. PICK n \in 0..Len(fromChild) :
              /\ data' = [data EXCEPT !["child"] = Translated(SubSeq(fromChild, 1, n))]
              /\ eof' = [eof EXCEPT !["child"] = (n = 0)]
              /\ fromChild' = From(fromChild, n) /\ stdin' = stdin
        BY <1>2, <2>1, FillStep DEF Offered
    <2> DEFINE h == SubSeq(fromChild, 1, n)
    <2>3. /\ h \in Bytes /\ fromChild' \in Bytes
          /\ Translated(h) \in Bytes /\ Translated(fromChild') \in Bytes
          /\ Translated(h) \o Translated(fromChild') = Translated(fromChild)
        BY <1>3, <2>2, CutAt, TranslatedCut, TranslatedType
    <2>4. data'["child"] = Translated(h) /\ data'["real"] = data["real"]
        BY <1>2, <2>2 DEF TypeInv
    <2>5. eof'["real"] = eof["real"]
        BY <1>2, <2>2 DEF TypeInv
    <2>6. TypeInv'
        BY <1>1, <1>2, <2>1, <2>2, <2>3 DEF TypeInv, Dirs
    <2>7. EofInv'
        BY <1>1, <1>2, <2>2, <2>4, <2>5 DEF EofInv
    <2>8. InputBytes'
        BY <1>1, <2>2, <2>4 DEF IInv, InputBytes, Translated
    <2> HIDE DEF h
    <2>9. stdout \o Translated(h) \o Translated(fromChild') = Translated(WasSaid)
        <3>1. stdout \o d = stdout
            BY <1>3, <1>4, EmptyBytes
        <3>2. (stdout \o Translated(h)) \o Translated(fromChild')
                = stdout \o (Translated(h) \o Translated(fromChild'))
            BY <1>3, <2>3, Assoc
        <3> QED BY <1>3, <2>3, <3>1, <3>2
    <2>10. OutputConserved'
        <3>1. stdout' = stdout /\ WasSaid' = WasSaid
            BY <1>1, <2>1 DEF WasSaid
        <3>2. stdout' \o data'["child"] \o Translated(fromChild') = Translated(WasSaid')
            BY <2>4, <2>9, <3>1
        <3> QED BY <3>2 DEF OutputConserved, Translated
    <2> QED BY <2>6, <2>7, <2>8, <2>10 DEF IInv
<1>5. CASE d # << >>
    <2>1. PICK n \in 1..Len(d) :
              /\ stdout' = stdout \o SubSeq(d, 1, n)
              /\ data' = [data EXCEPT !["child"] = From(d, n)]
        BY <1>5 DEF FromChild, Rest
    <2>2. UNCHANGED <<eof, stdin, fromChild>>
        BY <1>5 DEF FromChild
    <2>3. n \in 0..Len(d)
        BY <1>3, LengthOf
    <2>4. /\ SubSeq(d, 1, n) \in Bytes /\ From(d, n) \in Bytes
          /\ SubSeq(d, 1, n) \o From(d, n) = d
        BY <1>3, <2>3, CutAt
    <2>5. data'["child"] = From(d, n) /\ data'["real"] = data["real"]
        BY <1>2, <2>1 DEF TypeInv
    <2> HIDE DEF d
    <2>6. stdout' \in Bytes
        BY <1>3, <2>1, <2>4, ConcatType
    <2>7. TypeInv'
        BY <1>1, <1>2, <2>1, <2>2, <2>4, <2>6 DEF TypeInv, Dirs
    <2>8. EofInv' /\ InputBytes'
        BY <1>1, <1>2, <2>2, <2>5 DEF EofInv, IInv, InputBytes, Translated
    <2>9. stdout' \o From(d, n) = stdout \o d
        <3>1. (stdout \o SubSeq(d, 1, n)) \o From(d, n)
                = stdout \o (SubSeq(d, 1, n) \o From(d, n))
            BY <1>3, <2>4, Assoc
        <3> QED BY <2>1, <2>4, <3>1
    <2>10. OutputConserved'
        <3>1. WasSaid' = WasSaid /\ Translated(fromChild') = Translated(fromChild)
            BY <1>1, <2>2 DEF WasSaid
        <3>2. stdout' \o data'["child"] \o Translated(fromChild') = Translated(WasSaid')
            BY <1>3, <2>5, <2>9, <3>1
        <3> QED BY <3>2 DEF OutputConserved, Translated
    <2> QED BY <2>7, <2>8, <2>10 DEF IInv
<1>6. CASE d = << >> /\ "child" \notin rfds
    <2>1. UNCHANGED <<data, eof, stdin, fromChild, stdout>>
        BY <1>6 DEF FromChild
    <2> QED BY <1>1, <2>1, Unspoken DEF spoken
<1> QED BY <1>4, <1>5, <1>6

LEMMA FromRealIInv == ASSUME IInv, FromReal PROVE IInv'
<1>1. UNCHANGED <<closed, childGot, said, sawEof, busy, stdout>>
    BY DEF FromReal, child
<1>2. TypeInv /\ EofInv /\ "child" \in Dirs /\ "real" \in Dirs
    BY DEF IInv, Dirs
<1> DEFINE d == data["real"]
           g == childGot \o toChild
<1>3. /\ d \in Bytes /\ stdin \in Bytes /\ childGot \in Bytes /\ toChild \in Bytes
      /\ g \in Bytes /\ Translated(stdin) \in Bytes
      /\ (g \o d) \o Translated(stdin) = Translated(Typed)
    BY <1>2, ConcatType, TranslatedType DEF IInv, TypeInv, InputBytes
<1>4. CASE d = << >> /\ "real" \in rfds
    <2>1. Fill("real") /\ UNCHANGED toChild
        BY <1>4 DEF FromReal
    <2>2. PICK n \in 0..Len(stdin) :
              /\ data' = [data EXCEPT !["real"] = Translated(SubSeq(stdin, 1, n))]
              /\ eof' = [eof EXCEPT !["real"] = (n = 0)]
              /\ n = 0 => stdin = << >>
              /\ stdin' = From(stdin, n) /\ fromChild' = fromChild
        BY <1>2, <2>1, FillStep DEF Offered
    <2> DEFINE h == SubSeq(stdin, 1, n)
    <2>3. /\ h \in Bytes /\ stdin' \in Bytes
          /\ Translated(h) \in Bytes /\ Translated(stdin') \in Bytes
          /\ Translated(h) \o Translated(stdin') = Translated(stdin)
        BY <1>3, <2>2, CutAt, TranslatedCut, TranslatedType
    <2>4. data'["real"] = Translated(h) /\ data'["child"] = data["child"]
        BY <1>2, <2>2 DEF TypeInv
    <2>5. eof'["real"] = (n = 0)
        BY <1>2, <2>2 DEF TypeInv
    <2>6. TypeInv'
        BY <1>1, <1>2, <2>1, <2>2, <2>3 DEF TypeInv, Dirs
    <2>7. ASSUME stdin = << >> PROVE stdin' = << >> /\ data'["real"] = << >>
        <3>1. Len(stdin) = 0 /\ n = 0
            BY <2>2, <2>7
        <3>2. stdin' = << >> /\ h = << >>
            BY <2>2, <2>7, <3>1, SubSeqEmpty DEF From
        <3> QED BY <2>4, <3>2, TranslatedEmpty
    <2>8. EofInv'
        BY <1>1, <1>2, <2>1, <2>2, <2>5, <2>7 DEF EofInv
    <2>9. OutputConserved'
        BY <1>1, <2>2, <2>4 DEF IInv, OutputConserved, WasSaid, Translated
    <2> HIDE DEF g, h
    <2>10. (g \o Translated(h)) \o Translated(stdin') = Translated(Typed)
        <3>1. g \o d = g
            BY <1>3, <1>4, EmptyBytes
        <3>2. (g \o Translated(h)) \o Translated(stdin')
                = g \o (Translated(h) \o Translated(stdin'))
            BY <1>3, <2>3, Assoc
        <3> QED BY <1>3, <2>3, <3>1, <3>2
    <2>11. InputBytes'
        <3>1. childGot' \o toChild' = g
            BY <1>1, <2>1 DEF g
        <3>2. childGot' \o toChild' \o data'["real"] \o Translated(stdin')
                = Translated(Typed)
            BY <2>4, <2>10, <3>1
        <3> QED BY <3>2 DEF InputBytes, Translated
    <2> QED BY <2>6, <2>8, <2>9, <2>11 DEF IInv
<1>5. CASE d # << >> /\ alive
    <2>1. /\ toChild' = toChild \o d
          /\ data' = [data EXCEPT !["real"] = << >>]
          /\ UNCHANGED <<eof, stdin, fromChild>>
        BY <1>5 DEF FromReal
    <2>2. data'["real"] = << >> /\ data'["child"] = data["child"]
        BY <1>2, <2>1 DEF TypeInv
    <2>3. toChild' \in Bytes
        BY <1>3, <2>1, ConcatType
    <2>4. TypeInv'
        BY <1>1, <1>2, <2>1, <2>3, EmptyBytes DEF TypeInv, Dirs
    <2>5. EofInv'
        BY <1>1, <1>2, <1>5, <2>1, <2>2 DEF EofInv
    <2>6. OutputConserved'
        BY <1>1, <2>1, <2>2 DEF IInv, OutputConserved, WasSaid, Translated
    <2>7. (childGot \o (toChild \o d)) \o << >> = g \o d
        <3> HIDE DEF d
        <3>1. toChild \o d \in Bytes
            BY <1>3, ConcatType
        <3>2. childGot \o (toChild \o d) \in Bytes
            BY <1>3, <3>1, ConcatType
        <3>3. (childGot \o toChild) \o d = childGot \o (toChild \o d)
            BY <1>3, Assoc
        <3> QED BY <3>2, <3>3, EmptyBytes
    <2>8. InputBytes'
        <3>1. childGot' \o toChild' \o data'["real"] = g \o d
            BY <1>1, <2>1, <2>2, <2>7
        <3>2. stdin' = stdin
            BY <2>1
        <3> HIDE DEF g, d
        <3>3. childGot' \o toChild' \o data'["real"] \o Translated(stdin')
                = Translated(Typed)
            BY <1>3, <3>1, <3>2
        <3> QED BY <3>3 DEF InputBytes, Translated
    <2> QED BY <2>4, <2>5, <2>6, <2>8 DEF IInv
<1>6. CASE ~(d = << >> /\ "real" \in rfds) /\ ~(d # << >> /\ alive)
    <2>1. UNCHANGED <<data, eof, stdin, toChild, fromChild>>
        BY <1>6 DEF FromReal
    <2> QED BY <1>1, <2>1, Unspoken DEF spoken
<1> QED BY <1>4, <1>5, <1>6

LEMMA CloseIInv == ASSUME IInv, Close PROVE IInv'
<1>1. /\ UNCHANGED <<data, eof, stdin, toChild, fromChild, childGot, stdout, said,
                     sawEof, busy>>
      /\ closed' = (closed \/ (CloseDue /\ data["real"] = << >>))
    BY DEF Close, child
<1>2. EofInv'
    BY <1>1 DEF IInv, EofInv, CloseDue
<1> QED
    BY <1>1, <1>2 DEF IInv, TypeInv, InputBytes, OutputConserved, WasSaid, Translated

LEMMA StepIInv == ASSUME IInv, [Next]_vars PROVE IInv'
<1>1. CASE ChildStartsWrite
    BY <1>1, ChildStartsWriteIInv
<1>2. CASE ChildWrites
    BY <1>2, ChildWritesIInv
<1>3. CASE ChildReads
    BY <1>3, ChildReadsIInv
<1>4. CASE ChildExits
    BY <1>4, Unspoken DEF ChildExits, spoken, bufs
<1>5. CASE Select
    BY <1>5, Unspoken DEF Select, spoken, bufs, child
<1>6. CASE FromChild
    BY <1>6, FromChildIInv
<1>7. CASE FromReal
    BY <1>7, FromRealIInv
<1>8. CASE Close
    BY <1>8, CloseIInv
<1>9. CASE Wait
    BY <1>9, Unspoken DEF Wait, spoken, bufs, child
<1>10. CASE UNCHANGED vars
    BY <1>10, Unspoken DEF vars, spoken, bufs, child
<1> QED
    BY <1>1, <1>2, <1>3, <1>4, <1>5, <1>6, <1>7, <1>8, <1>9, <1>10
    DEF Next, Child, Program

LEMMA Inductive == Spec => []IInv
BY InitIInv, StepIInv, PTL DEF Spec

-----------------------------------------------------------------------------
(* No byte of the child's output is lost, doubled or overtaken inside      *)
(* nlwrap, however reads and writes are cut (Buf::maybe_do).               *)
THEOREM NoOutputLost == Spec => []OutputConserved
<1>1. IInv => OutputConserved
    BY DEF IInv
<1> QED BY <1>1, Inductive, PTL

(* Nor is what was typed, and the child sees the end of its input only     *)
(* when it has read all of it (Buf::maybe_do, Buf::close).                 *)
THEOREM NoInputLost == Spec => []InputConserved
<1>1. ASSUME IInv PROVE InputConserved
    <2>1. childGot \o toChild \o data["real"] \o Translated(stdin) = Translated(Typed)
        BY <1>1 DEF IInv, InputBytes
    <2>2. ASSUME sawEof PROVE childGot = Translated(Typed)
        <3>1. toChild = << >> /\ data["real"] = << >> /\ stdin = << >>
            BY <1>1, <2>2 DEF IInv, EofInv
        <3>2. childGot \in Bytes
            BY <1>1 DEF IInv, TypeInv
        <3> QED BY <2>1, <3>1, <3>2, EmptyBytes, TranslatedEmpty
    <2> QED BY <2>1, <2>2 DEF InputConserved
<1> QED BY <1>1, Inductive, PTL
=============================================================================
