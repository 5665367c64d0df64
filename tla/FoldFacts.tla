------------------------------ MODULE FoldFacts ------------------------------
(* What FoldLeft returns: the base for the empty sequence, and for a       *)
(* longer one a step from what it returns for all but the last element.    *)
(* Op is the step; a module that folds takes this one with INSTANCE.       *)
EXTENDS Integers, Sequences, SequencesExt, SequenceTheorems,
        WellFoundedInduction, TLAPS

CONSTANT Op(_, _)

Fold(base, s) == FoldLeft(Op, base, s)

(* The recursive function by which the library defines the fold of the     *)
(* first n elements of s, over the sets of their indices.                  *)
Iterates(f, base, s, n) ==
    f = [I \in SUBSET (1..n) |->
            IF I = {} THEN base ELSE Op(f[I \ {Max(I)}], s[Max(I)])]
Iter(base, s, n) == CHOOSE f : Iterates(f, base, s, n)

(* A nonempty set of numbers has a least one.                              *)
LEMMA MinOfNat ==
    ASSUME NEW T, T \subseteq Nat, T # {}
    PROVE  \E m \in T : \A k \in T : m <= k
<1> DEFINE less == OpToRel(<, Nat)
<1>1. IsWellFoundedOn(less, Nat)
    BY NatLessThanWellFounded
<1>2. \A x, y \in Nat : y < x => <<y, x>> \in less
    BY DEF OpToRel
<1> HIDE DEF less
<1>3. PICK m \in T : \A y \in T : <<y, m>> \notin less
    BY <1>1, WFMin
<1>4. \A y \in T : m <= y
    <2> TAKE y \in T
    <2>1. m \in Nat /\ y \in Nat /\ ~(y < m)
        BY <1>2, <1>3
    <2> QED BY <2>1
<1> QED BY <1>3, <1>4

(* What holds of the empty sequence, and of a longer one if it holds of    *)
(* all but the last element, holds of every sequence; P are those of which *)
(* it holds.                                                               *)
LEMMA SeqInduction ==
    ASSUME NEW S, NEW P, << >> \in P,
           \A s \in Seq(S) : s \in P => \A x \in S : Append(s, x) \in P
    PROVE  \A s \in Seq(S) : s \in P
<1> DEFINE T == {n \in Nat : \E s \in Seq(S) : Len(s) = n /\ s \notin P}
<1> SUFFICES ASSUME T # {} PROVE FALSE
    <2>1. \A s \in Seq(S) : Len(s) \in Nat
        OBVIOUS
    <2> QED BY <2>1
<1>1. PICK n \in T : \A k \in T : n <= k
    BY MinOfNat, T \subseteq Nat
<1>2. PICK s \in Seq(S) : Len(s) = n /\ s \notin P
    BY <1>1
<1>3. PICK t \in Seq(S), x \in S : s = Append(t, x)
    BY <1>2, SequenceEmptyOrAppend
<1>4. Len(t) \in Nat /\ Len(t) < n
    BY <1>2, <1>3
<1>5. t \in P
    <2> SUFFICES ASSUME t \notin P PROVE FALSE
        OBVIOUS
    <2>1. Len(t) \in T
        BY <1>4
    <2>2. n \in Nat
        BY <1>1
    <2> HIDE DEF T
    <2>3. n <= Len(t)
        BY <1>1, <2>1
    <2> QED BY <1>4, <2>2, <2>3
<1> QED BY <1>2, <1>3, <1>5

LEMMA MaxOf ==
    ASSUME NEW n \in Nat, NEW I \in SUBSET (1..n), I # {}
    PROVE  Max(I) \in I /\ \A i \in I : i <= Max(I)
<1> DEFINE B == {k \in Nat : \A i \in I : i <= k}
<1>1. B \subseteq Nat /\ n \in B
    OBVIOUS
<1>2. PICK k \in B : \A j \in B : k <= j
    BY <1>1, MinOfNat
<1>3. k \in I
    <2> SUFFICES ASSUME k \notin I PROVE FALSE
        OBVIOUS
    <2>1. PICK i \in I : TRUE
        OBVIOUS
    <2>2. \A j \in I : j \in Nat /\ j >= 1 /\ j <= k /\ j # k
        BY <1>2
    <2>3. k \in Nat /\ k >= 1
        BY <1>2, <2>1, <2>2
    <2>4. \A j \in I : j <= k - 1
        BY <2>2, <2>3
    <2>5. k - 1 \in B
        BY <2>3, <2>4
    <2> HIDE DEF B
    <2> QED BY <1>2, <2>3, <2>5
<1>4. \E x \in I : \A y \in I : x >= y
    BY <1>2, <1>3
<1> QED BY <1>4 DEF Max

(* There is such a function: extended by one index at a time.              *)
LEMMA IterExists ==
    \A base, s : \A n \in Nat : \E f : Iterates(f, base, s, n)
<1> SUFFICES ASSUME NEW base, NEW s PROVE \A n \in Nat : \E f : Iterates(f, base, s, n)
    OBVIOUS
<1> DEFINE T == {n \in Nat : ~ \E f : Iterates(f, base, s, n)}
<1> SUFFICES ASSUME T # {} PROVE FALSE
    OBVIOUS
<1>1. PICK n \in T : \A k \in T : n <= k
    BY MinOfNat
<1>2. n # 0
    <2> DEFINE f == [I \in SUBSET (1..0) |-> base]
    <2>1. SUBSET (1..0) = {{}}
        OBVIOUS
    <2>2. Iterates(f, base, s, 0)
        BY <2>1 DEF Iterates
    <2> QED BY <1>1, <2>2
<1>3. PICK m \in Nat : n = m + 1
    BY <1>1, <1>2, n - 1 \in Nat
<1>4. PICK f : Iterates(f, base, s, m)
    BY <1>1, <1>3
<1> DEFINE g == [I \in SUBSET (1..n) |->
                    IF n \in I THEN Op(f[I \ {n}], s[n]) ELSE f[I]]
<1>5. Iterates(g, base, s, n)
    <2> SUFFICES ASSUME NEW I \in SUBSET (1..n)
                 PROVE  g[I] = IF I = {} THEN base
                               ELSE Op(g[I \ {Max(I)}], s[Max(I)])
        BY DEF Iterates
    <2>1. CASE n \in I
        <3>1. Max(I) = n
            <4>1. Max(I) \in I /\ n <= Max(I)
                BY <2>1, <1>3, MaxOf
            <4>2. Max(I) \in 1..n /\ n \in Nat
                BY <4>1, <1>3
            <4> HIDE DEF g, T
            <4> QED BY <4>1, <4>2
        <3>2. g[I \ {n}] = f[I \ {n}]
            OBVIOUS
        <3> QED BY <2>1, <3>1, <3>2
    <2>2. CASE n \notin I
        <3>1. I \in SUBSET (1..m)
            BY <1>3, <2>2
        <3>2. g[I] = f[I]
            BY <2>2
        <3>3. f[I] = IF I = {} THEN base ELSE Op(f[I \ {Max(I)}], s[Max(I)])
            BY <1>4, <3>1 DEF Iterates
        <3>4. g[I \ {Max(I)}] = f[I \ {Max(I)}]
            BY <2>2
        <3> QED BY <3>2, <3>3, <3>4
    <2> QED BY <2>1, <2>2
<1> QED BY <1>1, <1>5

LEMMA IterIs ==
    ASSUME NEW base, NEW s, NEW n \in Nat
    PROVE  Iterates(Iter(base, s, n), base, s, n)
BY IterExists DEF Iter

LEMMA Initials ==
    ASSUME NEW n \in Nat, NEW f, NEW base, NEW s, Iterates(f, base, s, n)
    PROVE  /\ f[{}] = base
           /\ \A k \in 1..n : f[1..k] = Op(f[1..(k - 1)], s[k])
<1>1. f[{}] = base
    BY DEF Iterates
<1>2. ASSUME NEW k \in 1..n PROVE f[1..k] = Op(f[1..(k - 1)], s[k])
    <2>1. 1..k \in SUBSET (1..n) /\ k \in 1..k
        OBVIOUS
    <2>2. Max(1..k) = k
        <3>1. Max(1..k) \in 1..k /\ k <= Max(1..k)
            BY <2>1, MaxOf
        <3> QED BY <3>1
    <2>3. (1..k) \ {k} = 1..(k - 1)
        OBVIOUS
    <2> QED BY <2>1, <2>2, <2>3 DEF Iterates
<1> QED BY <1>1, <1>2

(* Only the elements count: two such functions agree where these do.       *)
LEMMA Agree ==
    ASSUME NEW base, NEW s, NEW t, NEW m \in Nat, NEW n \in Nat, m <= n,
           NEW f, Iterates(f, base, s, m), NEW g, Iterates(g, base, t, n),
           \A i \in 1..m : s[i] = t[i]
    PROVE  f[1..m] = g[1..m]
<1> DEFINE T == {k \in 0..m : f[1..k] # g[1..k]}
<1> SUFFICES ASSUME T # {} PROVE FALSE
    OBVIOUS
<1>1. PICK k \in T : \A j \in T : k <= j
    BY MinOfNat, T \subseteq Nat
<1>2. f[{}] = base /\ g[{}] = base /\ 1..0 = {}
    BY Initials
<1>3. k # 0
    BY <1>1, <1>2
<1>4. f[1..(k - 1)] = g[1..(k - 1)]
    BY <1>1, <1>3
<1>5. k \in 1..m /\ k \in 1..n
    BY <1>3
<1>6. f[1..k] = Op(f[1..(k - 1)], s[k]) /\ g[1..k] = Op(g[1..(k - 1)], t[k])
    BY <1>5, Initials
<1> QED BY <1>1, <1>4, <1>5, <1>6

LEMMA FoldIs ==
    ASSUME NEW base, NEW s, NEW n \in Nat, DOMAIN s = 1..n
    PROVE  Fold(base, s) = Iter(base, s, n)[1..n]
BY DEF Fold, FoldLeft, MapThenFoldSet, Iter, Iterates

LEMMA FoldEmpty == \A base : Fold(base, << >>) = base
<1> TAKE base
<1>1. DOMAIN << >> = 1..0 /\ 1..0 = {}
    OBVIOUS
<1>2. Iter(base, << >>, 0)[{}] = base
    BY IterIs, Initials
<1> QED BY <1>1, <1>2, FoldIs

LEMMA FoldAppend ==
    \A S : \A s \in Seq(S) : \A x \in S : \A base :
        Fold(base, Append(s, x)) = Op(Fold(base, s), x)
<1> TAKE S
<1> TAKE s \in Seq(S)
<1> TAKE x \in S
<1> TAKE base
<1> DEFINE n == Len(s)
           t == Append(s, x)
<1>1. /\ n \in Nat /\ n + 1 \in Nat /\ DOMAIN s = 1..n /\ DOMAIN t = 1..(n + 1)
      /\ \A i \in 1..n : s[i] = t[i]
      /\ t[n + 1] = x
    OBVIOUS
<1> HIDE DEF n, t
<1>2. /\ Iterates(Iter(base, s, n), base, s, n)
      /\ Iterates(Iter(base, t, n + 1), base, t, n + 1)
    BY <1>1, IterIs
<1>3. Iter(base, s, n)[1..n] = Iter(base, t, n + 1)[1..n]
    BY <1>1, <1>2, Agree
<1>4. Iter(base, t, n + 1)[1..(n + 1)] = Op(Iter(base, t, n + 1)[1..n], x)
    <2>1. n + 1 \in 1..(n + 1) /\ (n + 1) - 1 = n
        BY <1>1
    <2> QED BY <1>1, <1>2, <2>1, Initials
<1>5. Fold(base, s) = Iter(base, s, n)[1..n]
    BY <1>1, FoldIs
<1>6. Fold(base, t) = Iter(base, t, n + 1)[1..(n + 1)]
    BY <1>1, FoldIs
<1> QED BY <1>3, <1>4, <1>5, <1>6 DEF t

LEMMA FoldOne ==
    \A S : \A x \in S : \A base : Fold(base, <<x>>) = Op(base, x)
<1> TAKE S
<1> TAKE x \in S
<1> TAKE base
<1>1. << >> \in Seq(S) /\ Append(<< >>, x) = <<x>>
    BY EmptySeq, AppendIsConcat, ConcatEmptySeq
<1>2. Fold(base, Append(<< >>, x)) = Op(Fold(base, << >>), x)
    BY <1>1, FoldAppend, Zenon
<1>3. Fold(base, << >>) = base
    BY FoldEmpty, Zenon
<1> QED BY <1>1, <1>2, <1>3, Zenon

(* A fold may be stopped anywhere and carried on from what it returned.    *)
LEMMA FoldConcat ==
    \A S : \A s, t \in Seq(S) : \A base :
        Fold(base, s \o t) = Fold(Fold(base, s), t)
<1> TAKE S
<1> SUFFICES ASSUME NEW s \in Seq(S), NEW base
             PROVE  \A t \in Seq(S) : Fold(base, s \o t) = Fold(Fold(base, s), t)
    OBVIOUS
<1> DEFINE P == {t \in Seq(S) : Fold(base, s \o t) = Fold(Fold(base, s), t)}
<1>1. << >> \in P
    <2>1. s \o << >> = s /\ << >> \in Seq(S)
        BY ConcatEmptySeq, EmptySeq
    <2>2. Fold(Fold(base, s), << >>) = Fold(base, s)
        BY FoldEmpty, Zenon
    <2> QED BY <2>1, <2>2
<1>2. \A t \in Seq(S) : t \in P => \A x \in S : Append(t, x) \in P
    <2> TAKE t \in Seq(S)
    <2> SUFFICES ASSUME t \in P, NEW x \in S PROVE Append(t, x) \in P
        OBVIOUS
    <2>1. s \o t \in Seq(S) /\ <<x>> \in Seq(S) /\ Append(t, x) \in Seq(S)
        BY ConcatProperties, AppendProperties
    <2>2. Append(s \o t, x) = s \o Append(t, x)
        <3>1. Append(s \o t, x) = (s \o t) \o <<x>> /\ Append(t, x) = t \o <<x>>
            BY <2>1, AppendIsConcat
        <3>2. (s \o t) \o <<x>> = s \o (t \o <<x>>)
            BY <2>1, ConcatAssociative
        <3> QED BY <3>1, <3>2
    <2>3. Fold(base, Append(s \o t, x)) = Op(Fold(base, s \o t), x)
        BY <2>1, FoldAppend, Zenon
    <2>4. Fold(Fold(base, s), Append(t, x)) = Op(Fold(Fold(base, s), t), x)
        BY FoldAppend, Zenon
    <2>5. Fold(base, s \o t) = Fold(Fold(base, s), t)
        OBVIOUS
    <2>6. Fold(base, s \o Append(t, x)) = Fold(Fold(base, s), Append(t, x))
        BY <2>2, <2>3, <2>4, <2>5, Zenon
    <2> QED BY <2>1, <2>6
<1> HIDE DEF P
<1>3. \A t \in Seq(S) : t \in P
    BY <1>1, <1>2, SeqInduction
<1> QED BY <1>3 DEF P

LEMMA FirstAndRest ==
    ASSUME NEW S, NEW l \in Seq(S), NEW o \in Seq(S), o # << >>
    PROVE  /\ Head(o) \in S /\ Tail(o) \in Seq(S)
           /\ o = <<Head(o)>> \o Tail(o)
           /\ Append(l, Head(o)) \o Tail(o) = l \o o
<1>1. /\ Head(o) \in S /\ Tail(o) \in Seq(S) /\ Len(o) \in Nat \ {0}
      /\ Len(Tail(o)) = Len(o) - 1
      /\ \A i \in 1..Len(Tail(o)) : Tail(o)[i] = o[i + 1]
      /\ Head(o) = o[1]
    BY HeadTailProperties, EmptySeq
<1> DEFINE h == <<Head(o)>>
           x == h \o Tail(o)
<1>2. h \in Seq(S) /\ Len(h) = 1 /\ h[1] = o[1]
    BY <1>1
<1> HIDE DEF h
<1>3. /\ x \in Seq(S) /\ Len(x) = Len(o)
      /\ \A i \in 1..Len(o) : x[i] = IF i <= 1 THEN h[i] ELSE Tail(o)[i - 1]
    <2>1. /\ x \in Seq(S) /\ Len(x) = Len(h) + Len(Tail(o))
          /\ \A i \in 1..(Len(h) + Len(Tail(o))) :
                 x[i] = IF i <= Len(h) THEN h[i] ELSE Tail(o)[i - Len(h)]
        BY <1>1, <1>2, ConcatProperties
    <2> HIDE DEF x
    <2>2. Len(h) + Len(Tail(o)) = Len(o)
        BY <1>1, <1>2
    <2> QED BY <1>2, <2>1, <2>2
<1> HIDE DEF x
<1>4. \A i \in 1..Len(o) : x[i] = o[i]
    <2> TAKE i \in 1..Len(o)
    <2>1. CASE i = 1
        BY <1>1, <1>2, <1>3, <2>1
    <2>2. CASE i # 1
        <3>1. i - 1 \in 1..Len(Tail(o)) /\ (i - 1) + 1 = i
            BY <1>1, <2>2
        <3> QED BY <1>1, <1>3, <2>2, <3>1
    <2> QED BY <2>1, <2>2
<1>5. x = o
    BY <1>3, <1>4, SeqEqual
<1>6. Append(l, Head(o)) = l \o h
    BY <1>1, AppendIsConcat DEF h
<1>7. (l \o h) \o Tail(o) = l \o x
    BY <1>1, <1>2, ConcatAssociative DEF x
<1> QED BY <1>1, <1>5, <1>6, <1>7 DEF x, h

LEMMA FoldHead ==
    ASSUME NEW S, NEW s \in Seq(S), s # << >>, NEW base
    PROVE  Fold(base, s) = Fold(Op(base, Head(s)), Tail(s))
<1>1. Head(s) \in S /\ Tail(s) \in Seq(S) /\ <<Head(s)>> \in Seq(S)
    BY FirstAndRest
<1>2. s = <<Head(s)>> \o Tail(s)
    BY FirstAndRest
<1>3. Fold(base, <<Head(s)>> \o Tail(s)) = Fold(Fold(base, <<Head(s)>>), Tail(s))
    BY <1>1, FoldConcat, Zenon
<1>4. Fold(base, <<Head(s)>>) = Op(base, Head(s))
    BY <1>1, FoldOne, Zenon
<1> QED BY <1>2, <1>3, <1>4, Zenon

(* A step that adds what an element brings: the fold collects, and of two  *)
(* sequences in a row it collects what it does of each.                    *)
Collects(S, T, g) ==
    /\ Fold(<< >>, << >>) = << >>
    /\ \A s \in Seq(S) : Fold(<< >>, s) \in Seq(T)
    /\ \A s \in Seq(S) : \A x \in S :
           Fold(<< >>, Append(s, x)) = Fold(<< >>, s) \o g[x]
    /\ \A x \in S : Fold(<< >>, <<x>>) = g[x]
    /\ \A s, t \in Seq(S) :
           Fold(<< >>, s \o t) = Fold(<< >>, s) \o Fold(<< >>, t)
    /\ \A s \in Seq(S) : s # << >> =>
           Fold(<< >>, s) = g[Head(s)] \o Fold(<< >>, Tail(s))

LEMMA FoldCollects ==
    ASSUME NEW S, NEW T, NEW g \in [S -> Seq(T)],
           \A t \in Seq(T) : \A x \in S : Op(t, x) = t \o g[x]
    PROVE  Collects(S, T, g)
<1> DEFINE F(s) == Fold(<< >>, s)
<1>0. /\ << >> \in Seq(T) /\ << >> \in Seq(S)
      /\ \A t \in Seq(T) : t \o << >> = t /\ << >> \o t = t
      /\ \A t, u \in Seq(T) : t \o u \in Seq(T)
      /\ \A x \in S : g[x] \in Seq(T)
    BY EmptySeq, ConcatEmptySeq, ConcatProperties
<1>1. F(<< >>) = << >>
    BY FoldEmpty
<1>2. \A s \in Seq(S) : \A x \in S : F(Append(s, x)) = Op(F(s), x)
    BY FoldAppend, Zenon
<1>3. \A s, t \in Seq(S) : F(s \o t) = Fold(F(s), t)
    BY FoldConcat, Zenon
<1>4. \A x \in S : F(<<x>>) = Op(<< >>, x)
    BY FoldOne, Zenon
<1> HIDE DEF F
<1>5. \A s \in Seq(S) : F(s) \in Seq(T)
    <2> DEFINE P == {s \in Seq(S) : F(s) \in Seq(T)}
    <2>1. << >> \in P
        BY <1>0, <1>1
    <2>2. ASSUME NEW s \in Seq(S), s \in P, NEW x \in S PROVE Append(s, x) \in P
        <3>1. F(Append(s, x)) = F(s) \o g[x]
            BY <1>2, <2>2
        <3>2. F(s) \o g[x] \in Seq(T) /\ Append(s, x) \in Seq(S)
            BY <1>0, <2>2
        <3> QED BY <3>1, <3>2
    <2> HIDE DEF P
    <2>3. \A s \in Seq(S) : s \in P
        BY <2>1, <2>2, SeqInduction
    <2> QED BY <2>3 DEF P
<1>6. \A s \in Seq(S) : \A x \in S : F(Append(s, x)) = F(s) \o g[x]
    BY <1>2, <1>5
<1>7. ASSUME NEW x \in S PROVE F(<<x>>) = g[x]
    <2>1. Op(<< >>, x) = << >> \o g[x]
        BY <1>0, Zenon
    <2> QED BY <1>0, <1>4, <2>1
<1>8. ASSUME NEW t \in Seq(T)
      PROVE  \A s \in Seq(S) : Fold(t, s) = t \o F(s)
    <2> DEFINE P == {s \in Seq(S) : Fold(t, s) = t \o F(s)}
    <2>1. << >> \in P
        BY <1>0, <1>1, FoldEmpty
    <2>2. \A s \in Seq(S) : s \in P => \A x \in S : Append(s, x) \in P
        <3> SUFFICES ASSUME NEW s \in Seq(S), s \in P, NEW x \in S
                     PROVE  Append(s, x) \in P
            OBVIOUS
        <3>1. Fold(t, Append(s, x)) = Op(t \o F(s), x)
            <4>1. Fold(t, Append(s, x)) = Op(Fold(t, s), x)
                BY FoldAppend, Zenon
            <4> QED BY <4>1
        <3>2. F(s) \in Seq(T) /\ g[x] \in Seq(T) /\ t \o F(s) \in Seq(T)
            BY <1>0, <1>5
        <3>3. Fold(t, Append(s, x)) = (t \o F(s)) \o g[x]
            BY <3>1, <3>2
        <3>4. (t \o F(s)) \o g[x] = t \o (F(s) \o g[x])
            BY <3>2, ConcatAssociative
        <3>5. Append(s, x) \in Seq(S)
            OBVIOUS
        <3> QED BY <1>6, <3>3, <3>4, <3>5
    <2> HIDE DEF P
    <2>3. \A s \in Seq(S) : s \in P
        BY <2>1, <2>2, SeqInduction
    <2> QED BY <2>3 DEF P
<1>9. \A s, t \in Seq(S) : F(s \o t) = F(s) \o F(t)
    BY <1>3, <1>5, <1>8
<1>10. \A s \in Seq(S) : s # << >> => F(s) = g[Head(s)] \o F(Tail(s))
    <2> TAKE s \in Seq(S)
    <2> SUFFICES ASSUME s # << >> PROVE F(s) = g[Head(s)] \o F(Tail(s))
        OBVIOUS
    <2>1. /\ Head(s) \in S /\ Tail(s) \in Seq(S) /\ <<Head(s)>> \in Seq(S)
          /\ s = <<Head(s)>> \o Tail(s)
        BY FirstAndRest
    <2> QED BY <1>7, <1>9, <2>1
<1> QED BY <1>1, <1>5, <1>6, <1>7, <1>9, <1>10 DEF F, Collects

LEMMA PrefixOfConcat ==
    ASSUME NEW S, NEW s \in Seq(S), NEW t \in Seq(S)
    PROVE  IsPrefix(s, s \o t)
<1>1. /\ s \in Seq(S) /\ t \in Seq(S) /\ Len(s) \in Nat /\ Len(t) \in Nat
      /\ s \o t \in Seq(S) /\ Len(s \o t) = Len(s) + Len(t)
      /\ \A i \in 1..(Len(s) + Len(t)) :
             (s \o t)[i] = IF i <= Len(s) THEN s[i] ELSE t[i - Len(s)]
    BY ConcatProperties, LenProperties
<1> DEFINE u == s \o t
<1> HIDE DEF u
<1>2. \A i \in 1..Len(s) : u[i] = s[i] /\ s[i] \in S
    BY <1>1 DEF u
<1>3. /\ SubSeq(u, 1, Len(s)) \in Seq(S)
      /\ Len(SubSeq(u, 1, Len(s))) = IF 1 <= Len(s) THEN Len(s) - 1 + 1 ELSE 0
      /\ \A i \in 1..(Len(s) - 1 + 1) : SubSeq(u, 1, Len(s))[i] = u[1 + i - 1]
    BY <1>1, <1>2, SubSeqProperties
<1>4. SubSeq(u, 1, Len(s)) = s
    <2>1. Len(SubSeq(u, 1, Len(s))) = Len(s)
        BY <1>1, <1>3
    <2>2. \A i \in 1..Len(s) : SubSeq(u, 1, Len(s))[i] = s[i]
        <3> TAKE i \in 1..Len(s)
        <3>1. i \in 1..(Len(s) - 1 + 1) /\ 1 + i - 1 = i
            BY <1>1
        <3> QED BY <1>2, <1>3, <3>1
    <2> QED BY <1>1, <1>3, <2>1, <2>2, SeqEqual
<1>5. SubSeq(s, 1, Len(s)) = s
    BY <1>1, SubSeqFull
<1> QED BY <1>1, <1>4, <1>5 DEF IsPrefix, u
=============================================================================
