--------------------------- MODULE MapLinesProofs ---------------------------
(* What the loop over StreamMapLines sees, for every stream and every size *)
(* of chunks and pages.                                                    *)
EXTENDS MapLines, FiniteSetTheorems, SequenceTheorems, WellFoundedInduction,
        TLAPS

(* The newlines and lines of a stream s, as Newlines and Line are those of *)
(* input.                                                                  *)
NL(s, from, to) == {p \in from..(to - 1) : s[p + 1] = "nl"}
Count(s, to) == Cardinality(NL(s, 0, to))
LineOf(s, i) ==
    LET e == CHOOSE p \in NL(s, 0, Len(s)) : Count(s, p + 1) = i
    IN  <<Max({-1} \cup NL(s, 0, e)) + 1, e>>

-----------------------------------------------------------------------------
LEMMA NLFinite ==
    ASSUME NEW s, NEW a \in Nat, NEW b \in Nat
    PROVE  IsFiniteSet(NL(s, a, b)) /\ Count(s, b) \in Nat
<1>1. NL(s, a, b) \subseteq a..(b - 1) /\ NL(s, 0, b) \subseteq 0..(b - 1)
    BY DEF NL
<1>2. IsFiniteSet(a..(b - 1)) /\ IsFiniteSet(0..(b - 1))
    BY FS_Interval
<1>3. IsFiniteSet(NL(s, a, b)) /\ IsFiniteSet(NL(s, 0, b))
    BY <1>1, <1>2, FS_Subset
<1> QED BY <1>3, FS_CardinalityType DEF Count

(* A set of offsets has a smallest one.                                    *)
LEMMA MinOfNat ==
    ASSUME NEW T, T \subseteq Nat, T # {}
    PROVE  Min(T) \in T /\ \A x \in T : Min(T) <= x
<1> DEFINE less == OpToRel(<, Nat)
<1>1. IsWellFoundedOn(less, Nat)
    BY NatLessThanWellFounded
<1>2. \A x, y \in Nat : y < x => <<y, x>> \in less
    BY DEF OpToRel
<1> HIDE DEF less
<1>3. PICK x \in T : \A y \in T : <<y, x>> \notin less
    BY <1>1, WFMin
<1>4. \A y \in T : x <= y
    <2> TAKE y \in T
    <2>1. x \in Nat /\ y \in Nat /\ ~(y < x)
        BY <1>2, <1>3
    <2> QED BY <2>1
<1> QED BY <1>3, <1>4 DEF Min

(* The next newline after a place is the next line's end.                  *)
LEMMA CountNext ==
    ASSUME NEW s, NEW n \in Nat, NEW e \in Nat, n <= e, s[e + 1] = "nl",
           NL(s, n, e) = {}
    PROVE  Count(s, e + 1) = Count(s, n) + 1
<1>1. NL(s, 0, e + 1) = NL(s, 0, n) \cup {e}
    BY DEF NL
<1>2. e \notin NL(s, 0, n)
    BY DEF NL
<1>3. IsFiniteSet(NL(s, 0, n))
    BY NLFinite
<1> QED BY <1>1, <1>2, <1>3, FS_AddElement DEF Count

LEMMA CountSame ==
    ASSUME NEW s, NEW n \in Nat, NEW m \in Nat, n <= m, NL(s, n, m) = {}
    PROVE  NL(s, 0, m) = NL(s, 0, n) /\ Count(s, m) = Count(s, n)
<1>1. NL(s, 0, m) = NL(s, 0, n)
    BY DEF NL
<1> QED BY <1>1 DEF Count

LEMMA CountZero ==
    ASSUME NEW s, NEW n \in Nat
    PROVE  Count(s, n) = 0 <=> NL(s, 0, n) = {}
BY NLFinite, FS_EmptySet DEF Count

(* Two lines have different numbers.                                       *)
LEMMA CountGrows ==
    ASSUME NEW s, NEW p \in Nat, NEW q \in Nat, p < q, s[q + 1] = "nl"
    PROVE  Count(s, p + 1) < Count(s, q + 1)
<1>1. /\ NL(s, 0, p + 1) \subseteq NL(s, 0, q + 1)
      /\ q \in NL(s, 0, q + 1) /\ q \notin NL(s, 0, p + 1)
    BY DEF NL
<1>2. IsFiniteSet(NL(s, 0, q + 1))
    BY NLFinite
<1>3. NL(s, 0, p + 1) # NL(s, 0, q + 1)
    BY <1>1
<1>4. Count(s, p + 1) \in Nat /\ Count(s, q + 1) \in Nat
    <2>1. 0 \in Nat /\ p + 1 \in Nat /\ q + 1 \in Nat
        OBVIOUS
    <2> QED BY <2>1, NLFinite
<1>5. Count(s, p + 1) <= Count(s, q + 1) /\ Count(s, p + 1) # Count(s, q + 1)
    BY <1>1, <1>2, <1>3, FS_Subset DEF Count
<1> QED BY <1>4, <1>5

LEMMA LineIs ==
    ASSUME NEW s \in Seq({"c", "nl"}), NEW n \in Nat, NEW e \in Nat,
           n <= e, e < Len(s), s[e + 1] = "nl", NL(s, n, e) = {},
           n = 0 \/ s[n] = "nl"
    PROVE  LineOf(s, Count(s, n) + 1) = <<n, e>>
<1> DEFINE i == Count(s, n) + 1
           P(p) == p \in NL(s, 0, Len(s)) /\ Count(s, p + 1) = i
           c == CHOOSE p \in NL(s, 0, Len(s)) : Count(s, p + 1) = i
<1>1. Len(s) \in Nat
    BY LenProperties
<1>2. e \in NL(s, 0, Len(s)) /\ Count(s, e + 1) = i
    BY <1>1, CountNext DEF NL
<1>3. c \in NL(s, 0, Len(s)) /\ Count(s, c + 1) = i
    BY <1>2
<1> HIDE DEF c
<1>4. c \in Nat /\ s[c + 1] = "nl"
    BY <1>1, <1>3 DEF NL
<1>5. c = e
    <2>0. 0 \in Nat /\ e + 1 \in Nat
        OBVIOUS
    <2>1. Count(s, e + 1) \in Nat
        BY <2>0, NLFinite
    <2>2. ~(c < e) /\ ~(e < c)
        BY <1>2, <1>3, <1>4, <2>1, CountGrows
    <2> QED BY <1>4, <2>2
<1>6. Max({-1} \cup NL(s, 0, e)) = n - 1
    <2> DEFINE S == {-1} \cup NL(s, 0, e)
    <2>0. \A x \in NL(s, 0, e) : x \in Int /\ x <= n - 1
        <3> SUFFICES ASSUME NEW x \in NL(s, 0, e), ~(x <= n - 1) PROVE FALSE
            BY DEF NL
        <3>1. x \in NL(s, n, e)
            BY DEF NL
        <3> QED BY <3>1
    <2>1. S \subseteq Int /\ \A x \in S : x <= n - 1
        BY <2>0
    <2>2. n - 1 \in S
        BY <1>1 DEF NL
    <2> HIDE DEF S
    <2>3. \A x \in S : (\A y \in S : x >= y) => x = n - 1
        BY <2>1, <2>2
    <2>4. n - 1 \in S /\ \A y \in S : n - 1 >= y
        BY <2>1, <2>2
    <2>5. Max(S) = n - 1
        BY <2>3, <2>4 DEF Max
    <2> QED BY <2>5 DEF S
<1>7. LineOf(s, i) = <<Max({-1} \cup NL(s, 0, c)) + 1, c>>
    BY DEF LineOf, c
<1> QED BY <1>5, <1>6, <1>7

-----------------------------------------------------------------------------
Offsets ==
    /\ input \in Inputs
    /\ start \in Nat /\ end \in Nat /\ snapEnd \in Nat /\ got \in Nat
    /\ lastUnmap \in Nat
    /\ done \in BOOLEAN /\ snapDone \in BOOLEAN /\ discard \in BOOLEAN
    /\ cur \in Nat \X Nat /\ bodies \in Seq(Nat \X Nat)
    /\ lastUnmap <= start /\ start <= snapEnd /\ snapEnd <= end
    /\ end <= Len(input)
    /\ rpc = "publish" => end + got <= Len(input)

(* What was published last is what the loop saw when it saw done_.         *)
DoneInv ==
    /\ done => rpc = "exit"
    /\ snapDone => done /\ snapEnd = end
    /\ cpc = "over" => snapDone /\ NL(input, start, snapEnd) = {}

(* start_ is at the first byte of a line, and the constructor of Iterator  *)
(* has not run the body.                                                   *)
StartInv ==
    /\ start = 0 \/ input[start] = "nl"
    /\ discard => /\ cpc \notin {"body", "over"}
                  /\ bodies = << >> /\ start = 0 /\ cur = NoLine

(* The loop body has run once per line before start_, the line it is       *)
(* working on aside; on a stream without a line it runs once.              *)
CountInv ==
    ~discard =>
    IF Count(input, start) = 0
    THEN /\ done /\ NL(input, 0, end) = {} /\ start = 0 /\ cur = NoLine
         /\ Len(bodies) = IF cpc = "body" THEN 0 ELSE 1
    ELSE /\ Count(input, start) = Len(bodies) + IF cpc = "body" THEN 1 ELSE 0
         /\ cpc = "body" =>
               cur = IF Len(bodies) = 0 THEN NoLine
                     ELSE LineOf(input, Count(input, start))

SeenInv ==
    /\ \A i \in 1..Len(bodies) :
          bodies[i] = IF i = 1 THEN NoLine ELSE LineOf(input, i)
    /\ cpc = "body" /\ cur # NoLine => lastUnmap <= cur[1]

IInv == Offsets /\ DoneInv /\ StartInv /\ CountInv /\ SeenInv

LEMMA NewlinesIsNL ==
    /\ \A a, b : Newlines(a, b) = NL(input, a, b)
    /\ \A i : Line(i) = LineOf(input, i)
BY DEF Newlines, Newline, NL, Line, LineOf, LineEnds, LineStart, Count

LEMMA RoundDown ==
    ASSUME NEW n \in Nat
    PROVE  RoundToPage(n) \in Nat /\ RoundToPage(n) <= n
<1>1. Page \in Nat \ {0}
    BY MapLinesAssumption
<1>2. n \div Page \in Nat /\ (n \div Page) * Page <= n
    BY <1>1
<1>3. (n \div Page) * Page \in Nat
    BY <1>1, <1>2
<1> QED BY <1>2, <1>3 DEF RoundToPage

-----------------------------------------------------------------------------
LEMMA InitIInv == Init => IInv
<1> SUFFICES ASSUME Init PROVE IInv
    OBVIOUS
<1> USE DEF Init
<1>1. Offsets
    <2>1. Len(input) \in Nat
        BY MapLinesAssumption, LenProperties
    <2>2. << >> \in Seq(Nat \X Nat) /\ NoLine \in Nat \X Nat
        BY DEF NoLine
    <2>3. 0 \in Nat /\ TRUE \in BOOLEAN /\ FALSE \in BOOLEAN
        OBVIOUS
    <2>4. 0 <= Len(input) /\ 0 <= 0
        BY <2>1
    <2> HIDE DEF NoLine
    <2> QED BY <2>2, <2>3, <2>4 DEF Offsets
<1>2. DoneInv /\ StartInv /\ CountInv /\ SeenInv
    BY DEF DoneInv, StartInv, CountInv, SeenInv
<1> QED BY <1>1, <1>2 DEF IInv

(* The steps of the reader thread.                                         *)
LEMMA ReaderKeeps ==
    ASSUME IInv, Reader PROVE IInv'
<1> USE DEF IInv
<1>0. Len(input) \in Nat /\ input \in Inputs
    BY MapLinesAssumption, LenProperties DEF Offsets
<1>1. CASE ReadChunk
    <2> USE <1>1 DEF ReadChunk, locals, iter
    <2>1. got' \in Nat /\ end + got' <= Len(input)
        BY <1>0, MapLinesAssumption DEF Left, Offsets
    <2>2. Offsets'
        BY <2>1 DEF Offsets
    <2>3. (DoneInv /\ StartInv /\ CountInv /\ SeenInv)'
        BY DEF DoneInv, StartInv, CountInv, SeenInv
    <2> QED BY <2>2, <2>3
<1>2. CASE SetEnd
    <2> USE <1>2 DEF SetEnd, locals, iter
    <2>1. ~done /\ ~snapDone
        BY DEF DoneInv
    <2>2. Offsets'
        BY <1>0 DEF Offsets
    <2>3. (DoneInv /\ StartInv /\ CountInv /\ SeenInv)'
        BY <2>1 DEF DoneInv, StartInv, CountInv, SeenInv
    <2> QED BY <2>2, <2>3
<1>3. CASE Trigger
    <2> USE <1>3 DEF Trigger, NotifyOne, locals, iter
    <2>1. cpc' = cpc \/ (cpc = "blocked" /\ cpc' = "woken")
        OBVIOUS
    <2>2. Offsets'
        BY DEF Offsets
    <2>3. (DoneInv /\ StartInv /\ CountInv /\ SeenInv)'
        BY <2>1 DEF DoneInv, StartInv, CountInv, SeenInv
    <2> QED BY <2>2, <2>3
<1>4. CASE SetDone
    <2> USE <1>4 DEF SetDone, locals, iter
    <2>1. Offsets'
        BY DEF Offsets
    <2>2. (DoneInv /\ StartInv /\ CountInv /\ SeenInv)'
        BY DEF DoneInv, StartInv, CountInv, SeenInv
    <2> QED BY <2>1, <2>2
<1> QED BY <1>1, <1>2, <1>3, <1>4 DEF Reader

(* The search finds the end of the next line.                              *)
LEMMA FindLineKeeps ==
    ASSUME IInv, FindLine PROVE IInv'
<1> DEFINE e == Min(Newlines(start, snapEnd))
<1> USE DEF IInv, locals, reader
<1>1. /\ Len(input) \in Nat /\ input \in Seq({"c", "nl"})
      /\ start \in Nat /\ snapEnd \in Nat /\ end \in Nat /\ lastUnmap \in Nat
      /\ start <= snapEnd /\ snapEnd <= end /\ end <= Len(input)
      /\ lastUnmap <= start
    BY MapLinesAssumption, LenProperties DEF Offsets
<1>2. /\ Newlines(start, snapEnd) # {}
      /\ Newlines(start, snapEnd) \subseteq Nat
      /\ \A x \in Newlines(start, snapEnd) :
            x \in Nat /\ start <= x /\ x < snapEnd /\ input[x + 1] = "nl"
    BY <1>1 DEF FindLine, Newlines, Newline
<1>3. e \in Newlines(start, snapEnd) /\ \A x \in Newlines(start, snapEnd) : e <= x
    BY <1>2, MinOfNat
<1> HIDE DEF e
<1>4. e \in Nat /\ start <= e /\ e < snapEnd /\ input[e + 1] = "nl"
    BY <1>2, <1>3
<1>5. NL(input, start, e) = {}
    <2> SUFFICES ASSUME NEW x \in NL(input, start, e) PROVE FALSE
        OBVIOUS
    <2>1. x \in Int /\ start <= x /\ x < e /\ input[x + 1] = "nl"
        BY <1>1, <1>4 DEF NL
    <2>2. x \in Newlines(start, snapEnd)
        BY <1>1, <1>4, <2>1 DEF Newlines, Newline
    <2> QED BY <1>3, <1>4, <2>1, <2>2
<1>6. /\ start' = e + 1 /\ cur' = IF discard THEN cur ELSE <<start, e>>
      /\ discard' = FALSE /\ cpc' = "body" /\ cpc = "find"
      /\ UNCHANGED <<input, end, done, rpc, got, snapEnd, snapDone,
                     lastUnmap, bodies>>
    BY DEF FindLine, AfterNewline, e
<1>7. Count(input, e + 1) = Count(input, start) + 1 /\ Count(input, start) \in Nat
    BY <1>1, <1>4, <1>5, CountNext, NLFinite
<1>8. LineOf(input, Count(input, start) + 1) = <<start, e>>
    <2>1. e < Len(input) /\ (start = 0 \/ input[start] = "nl")
        BY <1>1, <1>4 DEF StartInv
    <2> QED BY <1>1, <1>4, <1>5, <2>1, LineIs
<1>9. Offsets'
    <2>1. cur' \in Nat \X Nat
        BY <1>1, <1>4, <1>6 DEF Offsets
    <2>2. start' \in Nat /\ lastUnmap <= start' /\ start' <= snapEnd
        BY <1>1, <1>4, <1>6
    <2>3. rpc # "publish" \/ end + got <= Len(input)
        BY DEF Offsets
    <2> QED BY <1>6, <2>1, <2>2, <2>3 DEF Offsets
<1>10. DoneInv' /\ StartInv'
    BY <1>4, <1>6 DEF DoneInv, StartInv
<1>11. CASE discard
    <2>1. start = 0 /\ bodies = << >> /\ cur = NoLine
        BY <1>11 DEF StartInv
    <2>2. Count(input, start) = 0
        <3>1. NL(input, 0, 0) = {}
            BY DEF NL
        <3> QED BY <2>1, <3>1, CountZero
    <2>3. CountInv' /\ SeenInv'
        BY <1>6, <1>7, <1>11, <2>1, <2>2 DEF CountInv, SeenInv
    <2> QED BY <1>9, <1>10, <2>3
<1>12. CASE ~discard
    <2>1. Count(input, start) # 0
        <3> SUFFICES ASSUME Count(input, start) = 0 PROVE FALSE
            OBVIOUS
        <3>1. NL(input, 0, end) = {} /\ start = 0
            BY <1>12 DEF CountInv
        <3>2. e \in NL(input, 0, end)
            BY <1>1, <1>4 DEF NL
        <3> QED BY <3>1, <3>2
    <2>2. Len(bodies) = Count(input, start)
        <3>1. Len(bodies) \in Nat
            BY LenProperties DEF Offsets
        <3> QED BY <1>6, <1>7, <1>12, <2>1, <3>1 DEF CountInv
    <2>3. CountInv'
        BY <1>6, <1>7, <1>8, <1>12, <2>1, <2>2 DEF CountInv
    <2>4. SeenInv'
        <3>1. cur'[1] = start
            BY <1>6, <1>12
        <3> QED BY <1>1, <1>6, <3>1 DEF SeenInv
    <2> QED BY <1>9, <1>10, <2>3, <2>4
<1> QED BY <1>11, <1>12

(* The search finds no newline, and the stream has ended.                  *)
LEMMA FindEndKeeps ==
    ASSUME IInv, FindEnd PROVE IInv'
<1> USE DEF IInv, FindEnd, AtEnd, reader, locals
<1>1. /\ done /\ snapDone /\ snapEnd = end
      /\ NL(input, start, snapEnd) = {}
    BY NewlinesIsNL DEF DoneInv
<1>2. Offsets' /\ DoneInv' /\ StartInv'
    BY <1>1 DEF Offsets, DoneInv, StartInv
<1>3. CountInv' /\ SeenInv'
    <2>1. CASE discard
        <3>1. start = 0 /\ bodies = << >> /\ cur = NoLine /\ Len(bodies) = 0
            BY <2>1 DEF StartInv
        <3>2. Count(input, start) = 0
            <4>1. NL(input, 0, 0) = {}
                BY DEF NL
            <4> QED BY <3>1, <4>1, CountZero
        <3> QED BY <1>1, <2>1, <3>1, <3>2 DEF CountInv, SeenInv
    <2>2. CASE ~discard
        BY <2>2 DEF CountInv, SeenInv
    <2> QED BY <2>1, <2>2
<1> QED BY <1>2, <1>3

(* The body uses *it.                                                      *)
LEMMA BodyKeeps ==
    ASSUME IInv, Body PROVE IInv'
<1> USE DEF IInv, Body, reader, locals
<1>1. /\ bodies \in Seq(Nat \X Nat) /\ Len(bodies) \in Nat
      /\ cur \in Nat \X Nat /\ start \in Nat /\ ~discard
    BY LenProperties DEF Offsets, StartInv
<1>2. /\ bodies' \in Seq(Nat \X Nat) /\ Len(bodies') = Len(bodies) + 1
      /\ bodies'[Len(bodies) + 1] = cur
      /\ \A i \in 1..Len(bodies) : bodies'[i] = bodies[i]
    BY <1>1, AppendProperties
<1>3. Count(input, start) \in Nat
    BY <1>1, NLFinite
<1>4. cur = IF Len(bodies) = 0 THEN NoLine ELSE LineOf(input, Len(bodies) + 1)
    BY <1>1, <1>3 DEF CountInv
<1>5. Offsets' /\ DoneInv' /\ StartInv'
    BY <1>1, <1>2 DEF Offsets, DoneInv, StartInv
<1>6. CountInv'
    BY <1>1, <1>2, <1>3 DEF CountInv
<1>7. SeenInv'
    <2>1. ASSUME NEW i \in 1..Len(bodies')
          PROVE  bodies'[i] = IF i = 1 THEN NoLine ELSE LineOf(input, i)
        BY <1>1, <1>2, <1>4 DEF SeenInv
    <2> QED BY <2>1 DEF SeenInv
<1> QED BY <1>5, <1>6, <1>7

(* The steps of the loop, and what wakes it.                               *)
LEMMA ConsumerKeeps ==
    ASSUME IInv, Consumer \/ Spurious PROVE IInv'
<1> USE DEF IInv
<1>1. CASE Snapshot
    <2> USE <1>1 DEF Snapshot, reader
    <2>1. /\ start \in Nat /\ lastUnmap \in Nat /\ start - lastUnmap \in Nat
          /\ snapEnd \in Nat /\ end \in Nat /\ snapEnd <= end
        BY DEF Offsets
    <2>2. UnmapLen \in Nat /\ UnmapLen <= start - lastUnmap
        BY <2>1, RoundDown DEF UnmapLen
    <2>3. lastUnmap' \in Nat /\ lastUnmap' <= start
        BY <2>1, <2>2
    <2>4. Offsets' /\ DoneInv'
        BY <2>1, <2>3 DEF Offsets, DoneInv
    <2>5. StartInv' /\ CountInv' /\ SeenInv'
        BY DEF StartInv, CountInv, SeenInv
    <2> QED BY <2>4, <2>5
<1>2. CASE FindLine
    BY <1>2, FindLineKeeps
<1>3. CASE FindEnd
    BY <1>3, FindEndKeeps
<1>4. CASE Body
    BY <1>4, BodyKeeps
<1>5. CASE FindNothing \/ WaitEnter \/ Recheck \/ Spurious
    <2>1. /\ cpc \notin {"body", "over"} /\ cpc' \notin {"body", "over"}
          /\ UNCHANGED <<input, start, end, done, rpc, got, snapEnd, snapDone,
                         lastUnmap, discard, cur, bodies>>
        BY <1>5 DEF FindNothing, WaitEnter, Recheck, Spurious, reader, locals, iter
    <2>2. Offsets' /\ DoneInv' /\ StartInv'
        BY <2>1 DEF Offsets, DoneInv, StartInv
    <2>3. CountInv' /\ SeenInv'
        BY <2>1 DEF CountInv, SeenInv
    <2> QED BY <2>2, <2>3
<1> QED BY <1>1, <1>2, <1>3, <1>4, <1>5 DEF Consumer

LEMMA StutterKeeps ==
    ASSUME IInv, UNCHANGED vars PROVE IInv'
BY DEF IInv, vars, reader, locals, iter, Offsets, DoneInv, StartInv, CountInv, SeenInv

LEMMA Invariance == Spec => []IInv
<1>1. IInv /\ [Next]_vars => IInv'
    BY ReaderKeeps, ConsumerKeeps, StutterKeeps DEF Next
<1> QED BY InitIInv, <1>1, PTL DEF Spec

-----------------------------------------------------------------------------
(* For every stream and every cutting of it into chunks, the body of a     *)
(* range-for over StreamMapLines sees the lines in order, the first one    *)
(* replaced by an empty view, and none of them has been unmapped.          *)
THEOREM LinesInOrder == Spec => []BodySeesLinesInOrder
<1>1. IInv => BodySeesLinesInOrder
    BY NewlinesIsNL DEF IInv, SeenInv, BodySeesLinesInOrder
<1> QED BY <1>1, Invariance, PTL

(* A range-for over StreamMapLines that ends, the whole stream having been *)
(* read, has run its body once for every line, the first included.         *)
THEOREM NoLineMissed == Spec => []LoopSeesAll
<1>1. ASSUME IInv, cpc = "over", end = Len(input)
      PROVE  Len(bodies) = Max({1, Cardinality(LineEnds)})
    <2> USE <1>1 DEF IInv
    <2>1. /\ start \in Nat /\ snapEnd \in Nat /\ start <= snapEnd
          /\ snapEnd = Len(input) /\ NL(input, start, snapEnd) = {} /\ ~discard
          /\ Len(bodies) \in Nat
        BY LenProperties DEF Offsets, DoneInv, StartInv
    <2>2. Cardinality(LineEnds) = Count(input, start) /\ Count(input, start) \in Nat
        BY <2>1, CountSame, NLFinite, NewlinesIsNL DEF LineEnds, Count
    <2>3. Len(bodies) = IF Count(input, start) = 0 THEN 1 ELSE Count(input, start)
        BY <2>1, <2>2 DEF CountInv
    <2>4. \A c \in Nat : Max({1, c}) = IF c = 0 THEN 1 ELSE c
        BY DEF Max
    <2> QED BY <2>2, <2>3, <2>4
<1>2. IInv => LoopSeesAll
    BY <1>1 DEF LoopSeesAll
<1> QED BY <1>2, Invariance, PTL

(* A loop asleep in ReadState::wait has nothing published behind its back: *)
(* whatever chunk it missed between the search and the wait, the trigger   *)
(* after the next set_end wakes it.                                        *)
THEOREM WokenInTime == Spec => []WokenByNextChunk
<1>1. Init => WokenByNextChunk
    BY DEF Init, WokenByNextChunk
<1>2. WokenByNextChunk /\ [Next]_vars => WokenByNextChunk'
    <2> SUFFICES ASSUME WokenByNextChunk, [Next]_vars PROVE WokenByNextChunk'
        OBVIOUS
    <2> USE DEF WokenByNextChunk, reader, locals, iter
    <2>1. CASE Reader
        BY <2>1 DEF Reader, ReadChunk, SetEnd, Trigger, NotifyOne, SetDone
    <2>2. CASE Consumer
        BY <2>2 DEF Consumer, Snapshot, FindLine, FindEnd, FindNothing,
                    WaitEnter, Recheck, WaitOver, Body
    <2>3. CASE Spurious
        BY <2>3 DEF Spurious
    <2>4. CASE UNCHANGED vars
        BY <2>4 DEF vars
    <2> QED BY <2>1, <2>2, <2>3, <2>4 DEF Next
<1> QED BY <1>1, <1>2, PTL DEF Spec
=============================================================================
