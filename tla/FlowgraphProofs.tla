--------------------------- MODULE FlowgraphProofs ---------------------------
(***************************************************************************)
(* Proofs about Flowgraph, for every flow graph, signal, set of tags and   *)
(* way in which the scheduler cuts the stream.                             *)
(*                                                                         *)
(*   TypesHold                      types; no sink eats what is not there  *)
(*   BurstsAlwaysPublished          packetize_burst                        *)
(*   TaggedPacketsAlwaysPublished   tagged_stream_to_large_pdu_f,          *)
(*                                  prototype_tagged_stream_to_vector      *)
(*   SymbolsAlwaysDecoded           the three symbol decoders              *)
(*                                                                         *)
(* Each sink has an invariant that says, in terms of positions in the      *)
(* whole stream, what its buffer holds between two calls and which packets *)
(* are out.  It stays when the stream gets longer, and every call of       *)
(* work(), wherever its window ends, takes it to itself.  For the symbol   *)
(* decoders that is one more sample at a time (AppendAdds, FoldFacts), and *)
(* their counters are distances to the last edge and sound (Metronome).    *)
(***************************************************************************)
EXTENDS Flowgraph, FiniteSetTheorems, SequenceTheorems, TLAPS

-----------------------------------------------------------------------------
(* Positions in order, and what stands there.                              *)

(* A nonempty set of numbers has a least one.                              *)
LEMMA LeastOf ==
    ASSUME NEW T, T \subseteq Nat, T # {}
    PROVE  \E m \in T : \A k \in T : m <= k
<1> DEFINE less == OpToRel(<, Nat)
<1>1. IsWellFoundedOn(less, Nat)
    BY NatLessThanWellFounded
<1>2. \A x, y \in Nat : y < x => <<y, x>> \in less
    BY DEF OpToRel
<1> HIDE DEF less
<1>3. PICK m \in T : \A y \in T : <<y, m>> \notin less
    BY <1>1, WFMin
<1>4. \A y \in T : m <= y
    <2> TAKE y \in T
    <2>1. m \in Nat /\ y \in Nat /\ ~(y < m)
        BY <1>2, <1>3
    <2> QED BY <2>1
<1> QED BY <1>3, <1>4

(* q lists the elements of S, from the least on.                           *)
Enumerates(q, S) ==
    /\ q \in Seq(S)
    /\ \A i, j \in 1..Len(q) : i < j => q[i] < q[j]
    /\ \A x \in S : \E i \in 1..Len(q) : q[i] = x

LEMMA InOrderUnique ==
    ASSUME NEW S, S \subseteq Int, NEW q, Enumerates(q, S)
    PROVE  InOrder(S) = q /\ IsFiniteSet(S) /\ Cardinality(S) = Len(q)
<1> DEFINE n == Len(q)
<1>1. n \in Nat /\ q \in [1..n -> S] /\ \A i \in 1..n : q[i] \in S /\ q[i] \in Int
    <2>1. q \in Seq(S)
        BY DEF Enumerates
    <2>2. n \in Nat /\ q \in [1..n -> S]
        BY <2>1, LenProperties
    <2> QED BY <2>2
<1> HIDE DEF n
<1>2. \A i, j \in 1..n : (i < j <=> q[i] < q[j]) /\ (q[i] = q[j] => i = j)
    <2> TAKE i, j \in 1..n
    <2>1. (i < j => q[i] < q[j]) /\ (j < i => q[j] < q[i])
        BY DEF Enumerates, n
    <2> QED BY <1>1, <2>1
<1>3. ASSUME NEW m \in 1..n
      PROVE  /\ IsFiniteSet({q[k] : k \in 1..m})
             /\ Cardinality({q[k] : k \in 1..m}) = m
    <2> DEFINE f == [k \in 1..m |-> q[k]]
               T == {q[k] : k \in 1..m}
    <2>1. f \in Bijection(1..m, T)
        <3>1. f \in [1..m -> T] /\ \A a, b \in 1..m : f[a] = f[b] => a = b
                BY <1>1, <1>2, 1..m \subseteq 1..n
        <3>2. \A t \in T : \E s \in 1..m : f[s] = t
            OBVIOUS
        <3> QED BY <3>1, <3>2 DEF Bijection, Injection, Surjection, IsInjective
    <2> HIDE DEF T, f
    <2>2. ExistsBijection(1..m, T)
        BY <2>1 DEF ExistsBijection
    <2>3. IsFiniteSet(1..m)
        BY FS_Interval
    <2> QED BY <2>2, <2>3, FS_CountingElements, FS_Bijection DEF T
<1>4. S = {q[k] : k \in 1..n}
    BY <1>1 DEF Enumerates, n
<1>5. IsFiniteSet(S) /\ Cardinality(S) = n
    <2>1. CASE n = 0
        <3>1. S = {}
            BY <1>4, <2>1
        <3> QED BY <2>1, <3>1, FS_EmptySet
    <2>2. CASE n # 0
        <3>1. n \in 1..n
            BY <1>1, <2>2
        <3> QED BY <1>3, <1>4, <3>1
    <2> QED BY <2>1, <2>2
<1>6. ASSUME NEW i \in 1..n
      PROVE  Cardinality({y \in S : y < q[i]}) = i - 1
    <2>1. {y \in S : y < q[i]} = {q[k] : k \in 1..(i - 1)}
        BY <1>1, <1>2, <1>4
    <2>2. CASE i = 1
        <3>1. {q[k] : k \in 1..(i - 1)} = {}
            BY <2>2
        <3> QED BY <2>1, <2>2, <3>1, FS_EmptySet
    <2>3. CASE i # 1
        <3>1. i - 1 \in 1..n
            BY <1>1, <2>3
        <3> QED BY <1>3, <2>1, <3>1
    <2> QED BY <2>2, <2>3
<1>7. ASSUME NEW i \in 1..n
      PROVE  (CHOOSE x \in S : Cardinality({y \in S : y < x}) = i - 1) = q[i]
    <2>1. q[i] \in S /\ Cardinality({y \in S : y < q[i]}) = i - 1
        BY <1>1, <1>6
    <2>2. ASSUME NEW x \in S, Cardinality({y \in S : y < x}) = i - 1
          PROVE  x = q[i]
        <3>1. PICK j \in 1..n : x = q[j]
            BY <1>4
        <3>2. j - 1 = i - 1
            BY <1>6, <2>2, <3>1
        <3> QED BY <3>1, <3>2
    <2> QED BY <2>1, <2>2
<1>8. InOrder(S) = [i \in 1..n |-> q[i]]
    <2>1. InOrder(S) =
          [i \in 1..n |-> CHOOSE x \in S : Cardinality({y \in S : y < x}) = i - 1]
        BY <1>5 DEF InOrder
    <2> QED BY <1>7, <2>1
<1>9. q = [i \in 1..n |-> q[i]]
    BY <1>1
<1> QED BY <1>5, <1>8, <1>9 DEF n

LEMMA EnumeratesAppend ==
    ASSUME NEW S, S \subseteq Int, NEW q, Enumerates(q, S),
           NEW m \in Int, \A x \in S : x < m
    PROVE  Enumerates(Append(q, m), S \cup {m})
<1> DEFINE T == S \cup {m}
           r == Append(q, m)
<1>1. q \in Seq(S) /\ q \in Seq(T) /\ m \in T /\ Len(q) \in Nat
    <2>1. q \in Seq(S)
        BY DEF Enumerates
    <2> QED BY <2>1, SeqMonotonic
<1>2. /\ r \in Seq(T) /\ Len(r) = Len(q) + 1 /\ r[Len(q) + 1] = m
      /\ \A i \in 1..Len(q) : r[i] = q[i] /\ q[i] \in S /\ q[i] < m
    <2>1. \A i \in 1..Len(q) : q[i] \in S
        BY <1>1, ElementOfSeq
    <2> HIDE DEF T
    <2>2. /\ r \in Seq(T) /\ Len(r) = Len(q) + 1 /\ r[Len(q) + 1] = m
          /\ \A i \in 1..Len(q) : r[i] = q[i]
        BY <1>1, AppendProperties
    <2> QED BY <2>1, <2>2
<1> HIDE DEF T, r
<1>3. \A i, j \in 1..Len(r) : i < j => r[i] < r[j]
    <2> SUFFICES ASSUME NEW i \in 1..Len(r), NEW j \in 1..Len(r), i < j
                 PROVE  r[i] < r[j]
        OBVIOUS
    <2>1. i \in 1..Len(q)
        BY <1>1, <1>2
    <2>2. CASE j = Len(q) + 1
        BY <1>2, <2>1, <2>2
    <2>3. CASE j \in 1..Len(q)
        BY <1>2, <2>1, <2>3 DEF Enumerates
    <2> QED BY <1>1, <1>2, <2>2, <2>3
<1>4. \A x \in T : \E i \in 1..Len(r) : r[i] = x
    <2> TAKE x \in T
    <2>1. CASE x = m
        BY <1>1, <1>2, <2>1
    <2>2. CASE x \in S
        <3>1. PICK i \in 1..Len(q) : q[i] = x
            BY <2>2 DEF Enumerates
        <3> QED BY <1>1, <1>2, <3>1
    <2> QED BY <2>1, <2>2 DEF T
<1> QED BY <1>2, <1>3, <1>4 DEF Enumerates, T, r

LEMMA InOrderEmpty == Enumerates(<< >>, {}) /\ InOrder({}) = << >>
<1>1. Enumerates(<< >>, {})
    BY EmptySeq DEF Enumerates
<1> QED BY <1>1, InOrderUnique

LEMMA InOrderExists ==
    \A b \in Nat : \A S \in SUBSET (0..(b - 1)) : \E q : Enumerates(q, S)
<1> DEFINE T == {b \in Nat : \E S \in SUBSET (0..(b - 1)) : ~ \E q : Enumerates(q, S)}
<1> SUFFICES ASSUME T # {} PROVE FALSE
    OBVIOUS
<1>1. PICK b \in T : \A k \in T : b <= k
    BY LeastOf, T \subseteq Nat
<1>2. PICK S \in SUBSET (0..(b - 1)) : ~ \E q : Enumerates(q, S)
    BY <1>1
<1>3. b \in Nat /\ b # 0
    <2> SUFFICES ASSUME b = 0 PROVE FALSE
        BY <1>1
    <2>1. S = {}
        OBVIOUS
    <2> QED BY <1>2, <2>1, InOrderEmpty
<1> DEFINE R == S \ {b - 1}
<1>4. b - 1 \in Nat /\ R \in SUBSET (0..((b - 1) - 1)) /\ b - 1 \notin T
    <2>1. b - 1 \in Nat /\ ~(b <= b - 1)
        BY <1>3
    <2>2. b - 1 \notin T
        BY <1>1, <2>1
    <2>3. \A x \in R : x \in 0..((b - 1) - 1)
        BY <1>3
    <2> QED BY <2>1, <2>2, <2>3
<1>5. PICK q : Enumerates(q, R)
    BY <1>4
<1>6. CASE b - 1 \in S
    <2>1. R \subseteq Int /\ \A x \in R : x < b - 1
        BY <1>3
    <2>2. S = R \cup {b - 1} /\ b - 1 \in Int
        BY <1>3, <1>6
    <2> HIDE DEF R
    <2>3. Enumerates(Append(q, b - 1), S)
        BY <1>5, <2>1, <2>2, EnumeratesAppend
    <2> QED BY <1>2, <2>3
<1>7. CASE b - 1 \notin S
    <2>1. R = S
        BY <1>7
    <2> QED BY <1>2, <1>5, <2>1
<1> QED BY <1>6, <1>7

LEMMA InOrderIs ==
    ASSUME NEW b \in Nat, NEW S, \A x \in S : x \in Nat /\ x <= b
    PROVE  /\ Enumerates(InOrder(S), S)
           /\ IsFiniteSet(S) /\ Cardinality(S) = Len(InOrder(S))
           /\ InOrder(S) \in Seq(S)
           /\ DOMAIN InOrder(S) = 1..Len(InOrder(S))
           /\ Len(InOrder(S)) \in Nat
           /\ \A i \in DOMAIN InOrder(S) : InOrder(S)[i] \in S
<1>1. b + 1 \in Nat /\ S \in SUBSET (0..((b + 1) - 1)) /\ S \subseteq Int
    OBVIOUS
<1>2. PICK q : Enumerates(q, S)
    BY <1>1, InOrderExists
<1>3. InOrder(S) = q /\ IsFiniteSet(S) /\ Cardinality(S) = Len(q)
    BY <1>1, <1>2, InOrderUnique
<1>4. q \in Seq(S)
    BY <1>2 DEF Enumerates
<1>5. DOMAIN q = 1..Len(q) /\ Len(q) \in Nat /\ \A i \in 1..Len(q) : q[i] \in S
    BY <1>4, LenProperties, ElementOfSeq
<1> QED BY <1>2, <1>3, <1>4, <1>5

LEMMA InOrderAdd ==
    ASSUME NEW m \in Nat, NEW S, \A x \in S : x \in Nat /\ x < m
    PROVE  InOrder(S \cup {m}) = Append(InOrder(S), m)
<1>1. Enumerates(InOrder(S), S)
    BY InOrderIs
<1>2. S \subseteq Int /\ S \cup {m} \subseteq Int /\ m \in Int
    OBVIOUS
<1>3. Enumerates(Append(InOrder(S), m), S \cup {m})
    BY <1>1, <1>2, EnumeratesAppend
<1> QED BY <1>2, <1>3, InOrderUnique

LEMMA PartEmpty == \A s : Part(s, {}) = << >>
BY InOrderEmpty DEF Part

LEMMA PartType ==
    ASSUME NEW b \in Nat, NEW S, \A x \in S : x \in Nat /\ x <= b,
           NEW V, NEW s, \A x \in S : s[x] \in V
    PROVE  /\ Part(s, S) \in Seq(V) /\ Len(Part(s, S)) = Cardinality(S)
           /\ \A i \in 1..Len(Part(s, S)) : Part(s, S)[i] = s[InOrder(S)[i]]
<1> DEFINE q == InOrder(S)
<1>1. /\ DOMAIN q = 1..Len(q) /\ Len(q) \in Nat /\ Len(q) = Cardinality(S)
      /\ \A i \in DOMAIN q : q[i] \in S
    BY InOrderIs
<1> HIDE DEF q
<1>2. Part(s, S) = [i \in 1..Len(q) |-> s[q[i]]]
    BY <1>1 DEF Part, q
<1>3. Part(s, S) \in [1..Len(q) -> V]
    BY <1>1, <1>2
<1>4. Part(s, S) \in Seq(V) /\ Len(Part(s, S)) = Len(q)
    BY <1>1, <1>2, <1>3
<1> QED BY <1>1, <1>2, <1>4 DEF q

LEMMA PartSame ==
    ASSUME NEW b \in Nat, NEW S, \A x \in S : x \in Nat /\ x <= b,
           NEW s, NEW t, \A x \in S : s[x] = t[x]
    PROVE  Part(s, S) = Part(t, S)
<1>1. \A i \in DOMAIN InOrder(S) : InOrder(S)[i] \in S
    BY InOrderIs
<1> QED BY <1>1 DEF Part

LEMMA PartAdd ==
    ASSUME NEW m \in Nat, NEW S, \A x \in S : x \in Nat /\ x < m, NEW s
    PROVE  Part(s, S \cup {m}) = Append(Part(s, S), s[m])
<1>0. ASSUME NEW U, \A x \in S : s[x] \in U
      PROVE  /\ Part(s, S) \in Seq(U) /\ Len(Part(s, S)) = Cardinality(S)
             /\ \A i \in 1..Len(Part(s, S)) : Part(s, S)[i] = s[InOrder(S)[i]]
    <2>1. m \in Nat /\ \A x \in S : x \in Nat /\ x <= m
        OBVIOUS
    <2>2. Part(s, S) \in Seq(U)
        BY <1>0, <2>1, PartType
    <2>3. Len(Part(s, S)) = Cardinality(S)
        BY <1>0, <2>1, PartType
    <2>4. \A i \in 1..Len(Part(s, S)) : Part(s, S)[i] = s[InOrder(S)[i]]
        BY <1>0, <2>1, PartType
    <2> QED BY <2>2, <2>3, <2>4
<1> DEFINE T == S \cup {m}
           V == {s[x] : x \in T}
           q == InOrder(S)
           r == InOrder(T)
           n == Len(q)
           p == Part(s, S)
<1>1. r = Append(q, m)
    BY InOrderAdd
<1>2. q \in Seq(S) /\ n \in Nat /\ n = Cardinality(S)
    BY InOrderIs
<1>3. q \in Seq(T) /\ m \in T
    BY <1>2, SeqMonotonic
<1>4. \A x \in T : s[x] \in V
    OBVIOUS
<1>5. p \in Seq(V) /\ Len(p) = n /\ \A i \in 1..n : p[i] = s[q[i]]
    <2>1. \A x \in S : s[x] \in V
        BY <1>4
    <2> HIDE DEF V, T
    <2>2. \A x \in S : x \in Nat /\ x <= m
        OBVIOUS
    <2>3. /\ Part(s, S) \in Seq(V) /\ Len(Part(s, S)) = Cardinality(S)
          /\ \A i \in 1..Len(Part(s, S)) : Part(s, S)[i] = s[InOrder(S)[i]]
        BY <1>0, <2>1
    <2> QED BY <1>2, <2>3
<1>6. Part(s, T) \in Seq(V) /\ Len(Part(s, T)) = Len(r)
      /\ \A i \in 1..Len(r) : Part(s, T)[i] = s[r[i]]
    <2>1. \A x \in T : x \in Nat /\ x <= m
        OBVIOUS
    <2> HIDE DEF V, T
    <2>2. Len(r) = Cardinality(T)
        BY <2>1, InOrderIs
    <2> QED BY <1>4, <2>1, <2>2, PartType
<1> HIDE DEF V, q, r, p, T, n
<1>7. /\ Len(r) = n + 1 /\ r[n + 1] = m /\ \A i \in 1..n : r[i] = q[i]
    BY <1>1, <1>3, AppendProperties DEF n
<1>8. /\ Append(p, s[m]) \in Seq(V) /\ Len(Append(p, s[m])) = n + 1
      /\ Append(p, s[m])[n + 1] = s[m]
      /\ \A i \in 1..n : Append(p, s[m])[i] = s[q[i]]
    <2>1. s[m] \in V
        BY <1>3, <1>4
    <2> QED BY <1>5, <2>1, AppendProperties
<1>9. \A i \in 1..(n + 1) : Part(s, T)[i] = Append(p, s[m])[i]
    <2> TAKE i \in 1..(n + 1)
    <2>1. CASE i = n + 1
        BY <1>2, <1>6, <1>7, <1>8, <2>1
    <2>2. CASE i \in 1..n
        BY <1>2, <1>6, <1>7, <1>8, <2>2
    <2>3. i = n + 1 \/ i \in 1..n
        BY <1>2
    <2> QED BY <2>1, <2>2, <2>3
<1>10. Part(s, T) = Append(p, s[m])
    BY <1>6, <1>7, <1>8, <1>9, SeqEqual
<1> QED BY <1>10 DEF T, p

-----------------------------------------------------------------------------
(* Helpers: least and greatest, and what the PDU to PDU blocks publish.    *)

LEMMA MinIs ==
    ASSUME NEW S, S \subseteq Nat, S # {}
    PROVE  Min(S) \in S /\ \A y \in S : Min(S) <= y
<1>1. \E x \in S : \A y \in S : x <= y
    BY LeastOf
<1> QED BY <1>1 DEF Min

LEMMA MaxIs ==
    ASSUME NEW b \in Nat, NEW S, \A x \in S : x \in Nat /\ x <= b, S # {}
    PROVE  Max(S) \in S /\ \A y \in S : y <= Max(S)
<1> DEFINE T == {b - x : x \in S}
<1>1. T \subseteq Nat /\ T # {}
    OBVIOUS
<1>2. PICK m \in T : \A y \in T : m <= y
    BY <1>1, LeastOf
<1>3. PICK k \in S : m = b - k
    BY <1>2
<1>4. \A y \in S : k >= y
    <2> TAKE y \in S
    <2>1. b - y \in T /\ y \in Nat /\ k \in Nat
        OBVIOUS
    <2> HIDE DEF T
    <2>2. m <= b - y
        BY <1>2, <2>1
    <2> QED BY <1>3, <2>1, <2>2
<1>5. \E x \in S : \A y \in S : x >= y
    BY <1>4
<1>6. Max(S) \in S /\ \A y \in S : Max(S) >= y
    BY <1>5 DEF Max
<1> QED BY <1>6

LEMMA MinOfTwo ==
    ASSUME NEW m \in Nat, NEW n \in Nat
    PROVE  Min({m, n}) = IF m <= n THEN m ELSE n
<1>1. {m, n} \subseteq Nat /\ {m, n} # {}
    OBVIOUS
<1>2. Min({m, n}) \in {m, n} /\ \A y \in {m, n} : Min({m, n}) <= y
    BY <1>1, MinIs
<1> QED BY <1>2

LEMMA BitsType ==
    ASSUME NEW s \in Seq(Int)
    PROVE  BytesToBits(s) \in Seq(Int) /\ PackedBytes(s) \in Seq(Int)
<1>1. Len(s) \in Nat /\ DOMAIN s = 1..Len(s) /\ \A i \in 1..Len(s) : s[i] \in Int
    BY ElementOfSeq
<1>2. BytesToBits(s) \in Seq(Int)
    <2> DEFINE n == 8 * Len(s)
               e(i) == (s[(i + 7) \div 8] \div Weight[((i - 1) % 8) + 1]) % 2
    <2>1. n \in Nat
        BY <1>1
    <2>2. \A i \in 1..n : e(i) \in Int
        <3> TAKE i \in 1..n
        <3>1. (i + 7) \div 8 \in 1..Len(s)
            BY <1>1
        <3>2. (i - 1) % 8 \in 0..7
            BY <1>1
        <3>3. Weight[((i - 1) % 8) + 1] \in Nat \ {0}
            <4>1. \A j \in 1..8 : Weight[j] \in Nat \ {0}
                BY DEF Weight
            <4>2. ((i - 1) % 8) + 1 \in 1..8
                BY <3>2
            <4> QED BY <4>1, <4>2
        <3>4. s[(i + 7) \div 8] \in Int
            BY <1>1, <3>1
        <3>5. \A x \in Int, w \in Nat \ {0} : (x \div w) % 2 \in Int
            OBVIOUS
        <3> QED BY <3>3, <3>4, <3>5
    <2> HIDE DEF n, e
    <2>3. [i \in 1..n |-> e(i)] \in Seq(Int)
        BY <2>1, <2>2, IsASeq
    <2> QED BY <2>3 DEF BytesToBits, n, e
<1>3. PackedBytes(s) \in Seq(Int)
    <2> DEFINE bit(i) == IF i \in DOMAIN s THEN s[i] ELSE 0
               at(k, c) == bit(8 * (k - 1) + c) * Weight[c]
               n == (Len(s) + 7) \div 8
               e(k) == at(k, 1) + at(k, 2) + at(k, 3) + at(k, 4)
                       + at(k, 5) + at(k, 6) + at(k, 7) + at(k, 8)
    <2>1. n \in Nat
        BY <1>1
    <2>2. \A i : bit(i) \in Int
        BY <1>1
    <2> HIDE DEF n, bit
    <2>3. \A k \in 1..n : \A c \in 1..8 : at(k, c) \in Int
        <3> TAKE k \in 1..n
        <3> TAKE c \in 1..8
        <3>1. Weight[c] \in Int
            BY DEF Weight
        <3>2. bit(8 * (k - 1) + c) \in Int
            BY <2>2
        <3>3. \A x, y \in Int : x * y \in Int
            OBVIOUS
        <3> QED BY <3>1, <3>2, <3>3
    <2> HIDE DEF at
    <2>4. \A k \in 1..n : e(k) \in Int
        BY <2>3
    <2> HIDE DEF e
    <2>5. [k \in 1..n |-> e(k)] \in Seq(Int)
        BY <2>1, <2>4, IsASeq
    <2> QED BY <2>5 DEF PackedBytes, n, e, at, bit
<1> QED BY <1>2, <1>3

LEMMA PublishType ==
    ASSUME NEW c, c.preamble \in Seq(Int), c.prefix \in Seq(Int),
           NEW block \in PduBlocks, NEW pdu \in Seq(Int)
    PROVE  Publish(c, block, pdu) \in Seq(Seq(Int))
<1>1. CASE block = "bitunpacker"
    <2>1. Publish(c, block, pdu) = <<BytesToBits(pdu)>>
        BY <1>1 DEF Publish
    <2> QED BY <2>1, BitsType
<1>2. CASE block = "bitpacker"
    <2>1. Publish(c, block, pdu) = <<PackedBytes(pdu)>>
        BY <1>2 DEF Publish
    <2> QED BY <2>1, BitsType
<1>3. CASE block = "preamble_adder"
    <2>1. Publish(c, block, pdu) = <<c.preamble \o pdu>>
        BY <1>3 DEF Publish
    <2>2. c.preamble \o pdu \in Seq(Int)
        BY ConcatProperties
    <2> QED BY <2>1, <2>2
<1>4. CASE block = "preamble_stripper"
    <2> DEFINE found == Found(c, pdu)
               rest == SubSeq(pdu, Max(found) + Len(c.prefix) + 1, Len(pdu))
    <2>1. Publish(c, block, pdu) = IF found = {} THEN << >> ELSE <<rest>>
        BY <1>4 DEF Publish, StripPreamble
    <2>2. ASSUME found # {} PROVE rest \in Seq(Int)
        <3>1. Len(c.prefix) \in Nat /\ Len(pdu) \in Nat
            BY LenProperties
        <3>2. \A x \in found : x \in Nat /\ x <= 2 * Len(c.prefix)
            BY <3>1 DEF Found, Searched
        <3>3. Max(found) \in found
            <4> HIDE DEF found
            <4>1. 2 * Len(c.prefix) \in Nat
                BY <3>1
            <4> QED BY <2>2, <3>2, <4>1, MaxIs
        <3>4. Max(found) \in Nat
            BY <3>2, <3>3
        <3> HIDE DEF found
        <3>5. /\ Max(found) + Len(c.prefix) + 1 \in Int /\ Len(pdu) \in Int
              /\ \A i \in (Max(found) + Len(c.prefix) + 1)..Len(pdu) : pdu[i] \in Int
            BY <3>1, <3>4, ElementOfSeq
        <3> QED BY <3>5, SubSeqProperties
    <2>3. << >> \in Seq(Seq(Int))
        BY EmptySeq
    <2> QED BY <2>1, <2>2, <2>3
<1>5. CASE block = "packet_size_filter"
    <2>1. Publish(c, block, pdu) = IF InSize(c, pdu) THEN <<pdu>> ELSE << >>
        BY <1>5 DEF Publish
    <2>2. << >> \in Seq(Seq(Int)) /\ <<pdu>> \in Seq(Seq(Int))
        BY EmptySeq
    <2> QED BY <2>1, <2>2
<1> QED BY <1>1, <1>2, <1>3, <1>4, <1>5 DEF PduBlocks

-----------------------------------------------------------------------------
(* Types: the chain of blocks, what a call of work() is handed and eats.   *)

LEMMA EarliestIs ==
    ASSUME NEW T, T # {}, \A t \in T : t.at \in Nat
    PROVE  Earliest(T) \in T /\ \A u \in T : Earliest(T).at <= u.at
<1> DEFINE A == {t.at : t \in T}
<1>1. A \subseteq Nat /\ A # {}
    OBVIOUS
<1>2. PICK m \in A : \A k \in A : m <= k
    BY <1>1, LeastOf
<1>3. \E t \in T : \A u \in T : t.at <= u.at
    BY <1>2
<1> QED BY <1>3 DEF Earliest

TypeInv ==
    /\ graph \in Graphs
    /\ DOMAIN mail = Mailboxes
    /\ \A i \in 1..Source : mail[i] \in Seq(Seq(Int))
    /\ queue \in Seq(Int) /\ stream \in Seq(Int) /\ read \in 0..Len(stream)

LEMMA GraphIs ==
    ASSUME graph \in Graphs
    PROVE  /\ graph.before \in Seq(PduBlocks) /\ graph.behind \in Seq(PduBlocks)
           /\ graph.conf.sps \in Nat \ {0} /\ graph.conf.nulls \in Nat \ {0}
           /\ graph.conf.offset \in Nat /\ graph.conf.padding \in Nat
           /\ graph.conf.len \in Nat
           /\ graph.conf.prefix \in Seq(Int) /\ graph.conf.preamble \in Seq(Int)
           /\ graph.posted \in Seq(Seq(Int)) /\ graph.signal \in Seq(Int)
           /\ \A t \in graph.tags : IsTag(t)
           /\ graph.most \in Nat /\ \A n \in graph.windows : n \in Nat \ {0}
BY FlowgraphAssumption

LEMMA ChainIs ==
    ASSUME graph \in Graphs
    PROVE  /\ Len(graph.before) \in Nat /\ Len(graph.behind) \in Nat
           /\ Source \in Nat \ {0} /\ Len(Chain) \in Nat
           /\ Len(Chain) = Source + Len(graph.behind)
           /\ DOMAIN Chain = 1..Len(Chain)
           /\ Source \in Mailboxes /\ Source + 1 \in Mailboxes
           /\ Chain[Source] = graph.source
           /\ \A i \in 1..(Source - 1) : Chain[i] = graph.before[i] /\ Chain[i] \in PduBlocks
           /\ \A i \in (Source + 1)..Len(Chain) :
                 Chain[i] = graph.behind[i - Source] /\ Chain[i] \in PduBlocks
<1> DEFINE S == PduBlocks \cup {graph.source}
           b == graph.before
           e == graph.behind
           m == <<graph.source>>
<1>1. /\ b \in Seq(PduBlocks) /\ e \in Seq(PduBlocks) /\ b \in Seq(S) /\ e \in Seq(S)
      /\ m \in Seq(S) /\ Len(m) = 1 /\ m[1] = graph.source
    <2>1. b \in Seq(PduBlocks) /\ e \in Seq(PduBlocks)
        BY GraphIs
    <2>2. m \in Seq(S) /\ Len(m) = 1 /\ m[1] = graph.source
        OBVIOUS
    <2> QED BY <2>1, <2>2, SeqMonotonic
<1> HIDE DEF S, b, e, m
<1> DEFINE l == b \o m
<1>2. /\ l \in Seq(S) /\ Len(l) = Len(b) + 1 /\ l[Len(b) + 1] = graph.source
      /\ \A i \in 1..Len(b) : l[i] = b[i] /\ b[i] \in PduBlocks
      /\ Len(b) \in Nat /\ Len(e) \in Nat
    <2>1. Len(b) \in Nat /\ Len(e) \in Nat /\ \A i \in 1..Len(b) : b[i] \in PduBlocks
        BY <1>1, LenProperties, ElementOfSeq
    <2>2. /\ l \in Seq(S) /\ Len(l) = Len(b) + Len(m)
          /\ \A i \in 1..(Len(b) + Len(m)) : l[i] = IF i <= Len(b) THEN b[i] ELSE m[i - Len(b)]
        BY <1>1, ConcatProperties
    <2> HIDE DEF l
    <2>3. l[Len(b) + 1] = m[1]
        BY <1>1, <2>1, <2>2
    <2>4. \A i \in 1..Len(b) : l[i] = b[i]
        BY <1>1, <2>1, <2>2
    <2> QED BY <1>1, <2>1, <2>2, <2>3, <2>4
<1>3. /\ Chain \in Seq(S) /\ Len(Chain) = Len(b) + 1 + Len(e)
      /\ \A i \in 1..(Len(b) + 1) : Chain[i] = l[i]
      /\ \A i \in (Len(b) + 2)..(Len(b) + 1 + Len(e)) : Chain[i] = e[i - (Len(b) + 1)]
      /\ \A i \in 1..Len(e) : e[i] \in PduBlocks
    <2>0. Chain = l \o e
        BY DEF Chain, b, m, e
    <2> HIDE DEF l
    <2>1. /\ Chain \in Seq(S) /\ Len(Chain) = Len(l) + Len(e)
          /\ \A i \in 1..(Len(l) + Len(e)) :
                Chain[i] = IF i <= Len(l) THEN l[i] ELSE e[i - Len(l)]
        BY <1>1, <1>2, <2>0, ConcatProperties
    <2>2. \A i \in 1..Len(e) : e[i] \in PduBlocks
        BY <1>1, ElementOfSeq
    <2> QED BY <1>2, <2>1, <2>2
<1> HIDE DEF l
<1>4. DOMAIN Chain = 1..Len(Chain)
    BY <1>3, LenProperties
<1>5. Source = Len(b) + 1
    BY DEF Source, b
<1>6. \A i \in (Source + 1)..Len(Chain) : i - Source \in 1..Len(e)
    BY <1>2, <1>3, <1>5
<1>7. \A i \in 1..(Source - 1) : Chain[i] = b[i] /\ Chain[i] \in PduBlocks
    BY <1>2, <1>3, <1>5
<1>8. \A i \in (Source + 1)..Len(Chain) : Chain[i] = e[i - Source] /\ Chain[i] \in PduBlocks
    BY <1>2, <1>3, <1>5, <1>6
<1>9. /\ Source \in Nat \ {0} /\ Len(Chain) = Source + Len(e) /\ Len(Chain) \in Nat
      /\ Chain[Source] = graph.source
    BY <1>2, <1>3, <1>5
<1>10. Source \in Mailboxes /\ Source + 1 \in Mailboxes
    BY <1>2, <1>9 DEF Mailboxes
<1> QED BY <1>2, <1>4, <1>7, <1>8, <1>9, <1>10 DEF b, e

LEMMA SameChain ==
    ASSUME UNCHANGED graph
    PROVE  UNCHANGED <<Chain, Source, Mailboxes>>
BY DEF Chain, Source, Mailboxes

LEMMA OfferedIs ==
    ASSUME stream \in Seq(Int), read \in Nat, NEW n \in Nat, read + n <= Len(stream)
    PROVE  /\ Offered(n) \in Seq(Int) /\ Len(Offered(n)) = n
           /\ \A i \in 1..n : Offered(n)[i] = stream[read + i]
<1>1. /\ read + 1 \in Int /\ read + n \in Int /\ Len(stream) \in Nat
      /\ \A i \in (read + 1)..(read + n) : stream[i] \in Int
    BY ElementOfSeq, LenProperties
<1>2. /\ Offered(n) \in Seq(Int)
      /\ Len(Offered(n)) =
            IF read + 1 <= read + n THEN (read + n) - (read + 1) + 1 ELSE 0
      /\ \A i \in 1..((read + n) - (read + 1) + 1) :
            Offered(n)[i] = stream[(read + 1) + i - 1]
    BY <1>1, SubSeqProperties DEF Offered
<1>3. (read + n) - (read + 1) + 1 = n /\ \A i \in Int : (read + 1) + i - 1 = read + i
    OBVIOUS
<1> QED BY <1>2, <1>3

LEMMA TaggedIs ==
    ASSUME graph \in Graphs, read \in Nat, NEW n \in Nat
    PROVE  /\ \A t \in Tagged(n) :
                 /\ t = [at |-> t.at, key |-> t.key, value |-> t.value]
                 /\ t.at \in 0..(n - 1)
                 /\ [t EXCEPT !.at = read + t.at] \in graph.tags
           /\ \A u \in graph.tags :
                 u.at \in read..(read + n - 1) =>
                    [at |-> u.at - read, key |-> u.key, value |-> u.value] \in Tagged(n)
<1>1. \A u \in graph.tags : IsTag(u)
    BY GraphIs
<1>2. ASSUME NEW t \in Tagged(n)
      PROVE  /\ t = [at |-> t.at, key |-> t.key, value |-> t.value]
             /\ t.at \in 0..(n - 1)
             /\ [t EXCEPT !.at = read + t.at] \in graph.tags
    <2>1. PICK u \in graph.tags : u.at \in read..(read + n - 1) /\ t = [u EXCEPT !.at = @ - read]
        BY DEF Tagged
    <2>2. u = [at |-> u.at, key |-> u.key, value |-> u.value] /\ u.at \in Nat
        BY <1>1 DEF IsTag
    <2>3. t = [at |-> u.at - read, key |-> u.key, value |-> u.value]
        BY <2>1, <2>2
    <2>4. read + (u.at - read) = u.at
        BY <2>2
    <2>5. [t EXCEPT !.at = read + t.at] = u
        BY <2>2, <2>3, <2>4
    <2> QED BY <2>1, <2>2, <2>3, <2>5
<1>3. ASSUME NEW u \in graph.tags, u.at \in read..(read + n - 1)
      PROVE  [at |-> u.at - read, key |-> u.key, value |-> u.value] \in Tagged(n)
    <2>1. u = [at |-> u.at, key |-> u.key, value |-> u.value] /\ u.at \in Nat
        BY <1>1 DEF IsTag
    <2>2. [u EXCEPT !.at = @ - read] = [at |-> u.at - read, key |-> u.key, value |-> u.value]
        BY <2>1
    <2> QED BY <1>3, <2>2 DEF Tagged
<1> QED BY <1>2, <1>3

(* No sink eats more than it was handed.                                   *)
LEMMA AteIs ==
    ASSUME NEW c, NEW e, NEW win \in Seq(Int), NEW tags,
           \A t \in tags : t.at \in 0..(Len(win) - 1)
    PROVE  /\ PacketizeBurst(e, win, tags).ate \in 0..Len(win)
           /\ LargePdu(e, win, tags).ate \in 0..Len(win)
           /\ ToVector(c, e, win, tags).ate \in 0..Len(win)
<1>1. Len(win) \in Nat
    BY LenProperties
<1>2. ASSUME NEW T \in SUBSET tags, T # {}
      PROVE  Earliest(T).at \in 0..(Len(win) - 1)
    <2>1. \A t \in T : t.at \in Nat /\ t.at \in 0..(Len(win) - 1)
        BY <1>1
    <2>2. Earliest(T) \in T
        BY <1>2, <2>1, EarliestIs
    <2> QED BY <2>1, <2>2
<1>3. \A k : Keyed(tags, k) \in SUBSET tags
    BY DEF Keyed
<1>4. PacketizeBurst(e, win, tags).ate \in 0..Len(win)
    <2> DEFINE mine == Keyed(tags, "burst")
    <2>1. CASE mine = {}
        BY <1>1, <2>1 DEF PacketizeBurst, Middle
    <2>2. CASE mine # {}
        <3>1. Earliest(mine).at \in 0..(Len(win) - 1)
            BY <1>2, <1>3, <2>2
        <3>2. PacketizeBurst(e, win, tags).ate = Earliest(mine).at + 1
            BY <2>2 DEF PacketizeBurst, Start, End
        <3> HIDE DEF mine
        <3> QED BY <1>1, <3>1, <3>2
    <2> QED BY <2>1, <2>2
<1>5. LargePdu(e, win, tags).ate \in 0..Len(win)
    <2> DEFINE mine == IF e.len = 0 THEN Keyed(tags, "length") ELSE {}
               later == {t \in mine : t.at # 0}
    <2>1. CASE later = {}
        <3>1. LargePdu(e, win, tags).ate = Len(win)
            BY <2>1 DEF LargePdu, ReadOn
        <3> QED BY <1>1, <3>1
    <2>2. CASE later # {}
        <3>1. later \in SUBSET tags
            BY <1>3
        <3>2. LargePdu(e, win, tags).ate = Earliest(later).at
            BY <2>2 DEF LargePdu
        <3>3. Earliest(later).at \in 0..(Len(win) - 1)
            BY <1>2, <2>2, <3>1
        <3> QED BY <1>1, <3>2, <3>3
    <2> QED BY <2>1, <2>2
<1>6. ToVector(c, e, win, tags).ate \in 0..Len(win)
    <2> DEFINE mine == {t \in Keyed(tags, "length") : t.value = c.len}
    <2>1. CASE mine = {}
        BY <1>1, <2>1 DEF ToVector
    <2>2. CASE mine # {}
        <3>1. mine \in SUBSET tags
            BY <1>3
        <3>2. Earliest(mine).at \in 0..(Len(win) - 1)
            BY <1>2, <2>2, <3>1
        <3>3. ToVector(c, e, win, tags).ate =
                 IF Earliest(mine).at # 0 THEN Earliest(mine).at ELSE 1
            BY <2>2 DEF ToVector
        <3> HIDE DEF mine
        <3> QED BY <1>1, <3>2, <3>3
    <2> QED BY <2>1, <2>2
<1> QED BY <1>4, <1>5, <1>6

LEMMA TypeInit == Init => TypeInv
<1> SUFFICES ASSUME Init PROVE TypeInv
    OBVIOUS
<1>1. graph \in Graphs
    BY DEF Init
<1>2. graph.posted \in Seq(Seq(Int)) /\ graph.signal \in Seq(Int)
    BY <1>1, GraphIs
<1>3. DOMAIN mail = Mailboxes
    BY DEF Init
<1>4. \A i \in 1..Source : mail[i] \in Seq(Seq(Int))
    <2> TAKE i \in 1..Source
    <2>1. i \in Mailboxes
        BY <1>1, ChainIs DEF Mailboxes
    <2>2. mail[i] = IF i = 1 THEN graph.posted ELSE << >>
        BY <2>1 DEF Init
    <2>3. << >> \in Seq(Seq(Int))
        BY EmptySeq
    <2> QED BY <1>2, <2>2, <2>3
<1>5. queue \in Seq(Int) /\ stream \in Seq(Int) /\ read \in 0..Len(stream)
    <2>1. << >> \in Seq(Int) /\ Len(graph.signal) \in Nat
        BY <1>2, EmptySeq, LenProperties
    <2> QED BY <1>2, <2>1 DEF Init
<1> QED BY <1>1, <1>3, <1>4, <1>5 DEF TypeInv

LEMMA UpToSource ==
    ASSUME TypeInv
    PROVE  \A j \in 1..Source : mail[j] \in Seq(Seq(Int)) /\ j \in Mailboxes
<1>1. \A j \in 1..Source : mail[j] \in Seq(Seq(Int))
    BY DEF TypeInv
<1>2. \A j \in 1..Source : j \in Mailboxes
    BY ChainIs DEF TypeInv, Mailboxes
<1> QED BY <1>1, <1>2

LEMMA QueuedType ==
    ASSUME NEW bits \in Seq(Int), graph \in Graphs
    PROVE  Queued(bits) \in Seq(Int)
<1>1. Len(bits) \in Nat /\ DOMAIN bits = 1..Len(bits)
    BY LenProperties
<1>2. Floats(bits) \in Seq(Int)
    <2>1. Floats(bits) = [i \in 1..Len(bits) |-> IF bits[i] = 1 THEN 1 ELSE -1]
        BY <1>1 DEF Floats
    <2>2. \A i \in 1..Len(bits) : (IF bits[i] = 1 THEN 1 ELSE -1) \in Int
        OBVIOUS
    <2>3. [i \in 1..Len(bits) |-> IF bits[i] = 1 THEN 1 ELSE -1] \in Seq(Int)
        BY <1>1
    <2> QED BY <2>1, <2>3
<1>3. graph.conf.padding \in Nat
    BY GraphIs
<1>4. Silence(graph.conf.padding) \in Seq(Int)
    BY <1>3 DEF Silence
<1> QED BY <1>2, <1>4, ConcatProperties DEF Queued

LEMMA SilenceIs ==
    ASSUME NEW n \in Nat
    PROVE  Silence(n) \in Seq(Int) /\ Len(Silence(n)) = n /\ \A i \in 1..n : Silence(n)[i] = 0
BY DEF Silence

LEMMA TypeRelay ==
    ASSUME TypeInv, NEW i \in DOMAIN Chain, Relay(i)
    PROVE  TypeInv'
<1>1. graph \in Graphs /\ i \in 1..Len(Chain) /\ Source \in Nat \ {0} /\ Len(Chain) \in Nat
    BY ChainIs DEF TypeInv
<1>2. UNCHANGED <<graph, queue, stream, read>> /\ UNCHANGED <<Chain, Source, Mailboxes>>
    BY SameChain DEF Relay
<1> DEFINE p == Publish(graph.conf, Chain[i], Head(mail[i]))
<1>3. /\ i # Source /\ mail[i] # << >>
      /\ mail' = [mail EXCEPT ![i] = Tail(mail[i]), ![i + 1] = mail[i + 1] \o p]
    BY <1>1 DEF Relay
<1>4. DOMAIN mail = Mailboxes /\ i \in Mailboxes /\ i + 1 \in Mailboxes
    BY <1>1 DEF Mailboxes, TypeInv
<1>5. ASSUME i < Source
      PROVE  Tail(mail[i]) \in Seq(Seq(Int)) /\ mail[i + 1] \o p \in Seq(Seq(Int))
    <2>1. mail[i] \in Seq(Seq(Int)) /\ mail[i + 1] \in Seq(Seq(Int))
        BY <1>1, <1>5, UpToSource
    <2>2. Head(mail[i]) \in Seq(Int) /\ Tail(mail[i]) \in Seq(Seq(Int))
        BY <1>3, <2>1, HeadTailProperties
    <2>3. Chain[i] \in PduBlocks
        <3>1. i \in 1..(Source - 1)
            BY <1>1, <1>5
        <3> QED BY <1>1, <3>1, ChainIs
    <2>4. p \in Seq(Seq(Int))
        BY <1>1, <2>2, <2>3, PublishType, GraphIs
    <2> HIDE DEF p
    <2> QED BY <2>1, <2>2, <2>4, ConcatProperties
<1> HIDE DEF p
<1>6. DOMAIN mail' = Mailboxes
    BY <1>3, <1>4
<1>7. ASSUME NEW j \in 1..Source PROVE mail'[j] \in Seq(Seq(Int))
    <2>1. mail[j] \in Seq(Seq(Int)) /\ j \in Mailboxes
        BY UpToSource
    <2>2. CASE j = i
        <3>1. mail'[j] = Tail(mail[i]) /\ i < Source
            BY <1>1, <1>3, <1>4, <2>2
        <3> QED BY <1>5, <3>1
    <2>3. CASE j = i + 1
        <3>1. mail'[j] = mail[i + 1] \o p /\ i < Source
            BY <1>1, <1>3, <1>4, <2>3
        <3> QED BY <1>5, <3>1
    <2>4. CASE j # i /\ j # i + 1
        <3>1. mail'[j] = mail[j]
            BY <1>3, <1>4, <2>1, <2>4
        <3> QED BY <2>1, <3>1
    <2> QED BY <2>2, <2>3, <2>4
<1> QED BY <1>2, <1>6, <1>7 DEF TypeInv

LEMMA TypeHandle ==
    ASSUME TypeInv, Handle
    PROVE  TypeInv'
<1>1. graph \in Graphs /\ Source \in Nat \ {0} /\ Source \in Mailboxes
    BY ChainIs DEF TypeInv
<1>2. UNCHANGED <<graph, stream, read>> /\ UNCHANGED <<Chain, Source, Mailboxes>>
    BY SameChain DEF Handle
<1>3. /\ mail[Source] \in Seq(Seq(Int)) /\ mail[Source] # << >>
      /\ mail' = [mail EXCEPT ![Source] = Tail(mail[Source])]
      /\ DOMAIN mail = Mailboxes
      /\ queue \in Seq(Int) /\ queue' = queue \o Queued(Head(mail[Source]))
    <2>1. mail[Source] \in Seq(Seq(Int))
        BY <1>1, UpToSource
    <2> QED BY <2>1 DEF Handle, TypeInv
<1>4. Head(mail[Source]) \in Seq(Int) /\ Tail(mail[Source]) \in Seq(Seq(Int))
    BY <1>3, HeadTailProperties
<1>5. queue' \in Seq(Int)
    BY <1>1, <1>3, <1>4, QueuedType, ConcatProperties
<1>6. DOMAIN mail' = Mailboxes
    BY <1>3
<1>7. \A j \in 1..Source : mail'[j] \in Seq(Seq(Int))
    <2> TAKE j \in 1..Source
    <2>1. mail[j] \in Seq(Seq(Int)) /\ j \in Mailboxes
        BY UpToSource
    <2>2. mail'[j] = IF j = Source THEN Tail(mail[Source]) ELSE mail[j]
        BY <1>3, <2>1
    <2> QED BY <1>4, <2>1, <2>2
<1> QED BY <1>2, <1>5, <1>6, <1>7 DEF TypeInv

LEMMA SentIs ==
    ASSUME TypeInv, NEW n \in graph.windows, SourceWork(n)
    PROVE  \E p \in Nat : \E s \in Seq(Int) :
              /\ p = (IF n <= Len(queue) THEN n ELSE Len(queue)) /\ p \in 0..Len(queue)
              /\ s = SubSeq(queue, 1, p) \o Silence(n - p) /\ Len(s) = n
              /\ SubSeq(queue, 1, p) \in Seq(Int) /\ n \in Nat \ {0}
              /\ stream' = stream \o s /\ stream' \in Seq(Int)
              /\ Len(stream') = Len(stream) + n
              /\ \A i \in 1..Len(stream) : stream'[i] = stream[i]
              /\ queue' = Left(p) /\ queue' \in Seq(Int)
              /\ intact' = (intact /\ (p = Len(queue) \/ 2 * p = Len(queue)))
<1> DEFINE p == Min({n, Len(queue)})
           f == SubSeq(queue, 1, p)
           s == f \o Silence(n - p)
<1>1. /\ n \in Nat \ {0} /\ queue \in Seq(Int) /\ stream \in Seq(Int)
      /\ Len(queue) \in Nat /\ Len(stream) \in Nat
    <2>1. n \in Nat \ {0}
        BY GraphIs DEF TypeInv
    <2>2. queue \in Seq(Int) /\ stream \in Seq(Int)
        BY DEF TypeInv
    <2> QED BY <2>1, <2>2, LenProperties
<1>2. p = (IF n <= Len(queue) THEN n ELSE Len(queue)) /\ p \in 0..Len(queue) /\ n - p \in Nat
    BY <1>1, MinOfTwo
<1>3. /\ stream' = (stream \o f) \o Silence(n - p)
      /\ queue' = Left(p)
      /\ intact' = (intact /\ (p = Len(queue) \/ 2 * p = Len(queue)))
    BY DEF SourceWork
<1> HIDE DEF p
<1>4. f \in Seq(Int) /\ Len(f) = p
    <2>1. \A i \in 1..p : queue[i] \in Int
        BY <1>1, <1>2, ElementOfSeq
    <2>2. f \in Seq(Int) /\ Len(f) = IF 1 <= p THEN p - 1 + 1 ELSE 0
        BY <1>2, <2>1, SubSeqProperties
    <2> QED BY <1>2, <2>2
<1>5. Silence(n - p) \in Seq(Int) /\ Len(Silence(n - p)) = n - p
    BY <1>2, SilenceIs
<1> HIDE DEF f
<1>6. s \in Seq(Int) /\ Len(s) = n
    <2>1. s \in Seq(Int) /\ Len(s) = Len(f) + Len(Silence(n - p))
        BY <1>4, <1>5, ConcatProperties
    <2> HIDE DEF s
    <2>2. p \in Nat /\ n \in Nat
        BY <1>1, <1>2
    <2> QED BY <1>4, <1>5, <2>1, <2>2
<1>7. stream' = stream \o s
    <2> DEFINE z == Silence(n - p)
    <2> HIDE DEF z
    <2>1. z \in Seq(Int) /\ f \in Seq(Int) /\ stream \in Seq(Int)
        BY <1>1, <1>4, <1>5 DEF z
    <2>2. (stream \o f) \o z = stream \o (f \o z)
        BY <2>1, ConcatAssociative
    <2> QED BY <1>3, <2>2 DEF z
<1> HIDE DEF s
<1>8. /\ stream' \in Seq(Int) /\ Len(stream') = Len(stream) + n
      /\ \A i \in 1..Len(stream) : stream'[i] = stream[i]
    <2>1. /\ stream' \in Seq(Int) /\ Len(stream') = Len(stream) + Len(s)
          /\ \A i \in 1..(Len(stream) + Len(s)) :
                stream'[i] = IF i <= Len(stream) THEN stream[i] ELSE s[i - Len(stream)]
        BY <1>1, <1>6, <1>7, ConcatProperties
    <2> QED BY <1>1, <1>6, <2>1
<1>9. queue' \in Seq(Int)
    <2>1. \A i \in (Len(queue) - p + 1)..Len(queue) : queue[i] \in Int
        BY <1>1, <1>2, ElementOfSeq
    <2>2. SubSeq(queue, Len(queue) - p + 1, Len(queue)) \in Seq(Int)
        BY <1>1, <1>2, <2>1, SubSeqProperties
    <2>3. << >> \in Seq(Int)
        BY EmptySeq
    <2> QED BY <1>3, <2>2, <2>3 DEF Left
<1> QED BY <1>1, <1>2, <1>3, <1>4, <1>6, <1>7, <1>8, <1>9 DEF s, f

LEMMA TypeSource ==
    ASSUME TypeInv, NEW n \in graph.windows, SourceWork(n)
    PROVE  TypeInv'
<1>1. UNCHANGED <<graph, mail, read>> /\ UNCHANGED <<Chain, Source, Mailboxes>>
    BY SameChain DEF SourceWork
<1>2. /\ stream' \in Seq(Int) /\ Len(stream') = Len(stream) + n /\ n \in Nat
      /\ queue' \in Seq(Int)
    BY SentIs
<1>3. read' \in 0..Len(stream')
    <2>1. read \in 0..Len(stream) /\ Len(stream) \in Nat
        BY LenProperties DEF TypeInv
    <2> QED BY <1>1, <1>2, <2>1
<1> QED BY <1>1, <1>2, <1>3 DEF TypeInv

LEMMA TypeSink ==
    ASSUME TypeInv, UNCHANGED <<graph, queue, stream>>,
           NEW n \in Nat, read + n <= Len(stream),
           NEW k \in 0..n, read' = read + k,
           NEW x, mail' = [mail EXCEPT ![Source + 1] = x]
    PROVE  TypeInv'
<1>1. /\ graph \in Graphs /\ Source \in Nat \ {0} /\ Source \in Mailboxes
      /\ UNCHANGED <<Chain, Source, Mailboxes>>
    BY ChainIs, SameChain DEF TypeInv
<1>2. read' \in 0..Len(stream')
    <2>1. read \in 0..Len(stream) /\ Len(stream) \in Nat /\ stream' = stream
        BY LenProperties DEF TypeInv
    <2> QED BY <2>1
<1>3. DOMAIN mail = Mailboxes
    BY DEF TypeInv
<1>4. DOMAIN mail' = Mailboxes
    BY <1>3
<1>5. \A j \in 1..Source : mail'[j] \in Seq(Seq(Int))
    <2> TAKE j \in 1..Source
    <2>1. mail[j] \in Seq(Seq(Int)) /\ j \in Mailboxes
        BY UpToSource
    <2>2. mail'[j] = mail[j]
        BY <1>1, <1>3, <2>1
    <2> QED BY <2>1, <2>2
<1> QED BY <1>1, <1>2, <1>4, <1>5 DEF TypeInv

-----------------------------------------------------------------------------
(* Every call of a sink's work(), and the type invariant.                  *)

SinkCall(n) ==
    /\ n \in Nat \ {0} /\ read + n <= Len(stream)
    /\ UNCHANGED <<graph, queue, stream>>
    /\ TypeInv'

LEMMA FoldWorkIs ==
    ASSUME TypeInv, NEW n \in graph.windows,
           PnDecodeWork(n) \/ OokDecodeWork(n) \/ IdentityWork(n)
    PROVE  SinkCall(n) /\ read' = read + n
<1>1. /\ read + n <= Len(stream) /\ UNCHANGED <<graph, queue, stream>>
      /\ read' = read + n /\ \E x : mail' = [mail EXCEPT ![Source + 1] = x]
    <2>1. CASE PnDecodeWork(n)
        BY <2>1 DEF PnDecodeWork, SinkWork
    <2>2. CASE OokDecodeWork(n)
        BY <2>2 DEF OokDecodeWork, SinkWork
    <2>3. CASE IdentityWork(n)
        BY <2>3 DEF IdentityWork, SinkWork
    <2> QED BY <2>1, <2>2, <2>3
<1>2. n \in Nat \ {0} /\ n \in 0..n
    BY GraphIs DEF TypeInv
<1>3. TypeInv'
    BY <1>1, <1>2, TypeSink
<1> QED BY <1>1, <1>2, <1>3 DEF SinkCall

LEMMA HandedIs ==
    ASSUME TypeInv, NEW n \in graph.windows, read + n <= Len(stream)
    PROVE  /\ n \in Nat \ {0}
           /\ read \in Nat
           /\ Offered(n) \in Seq(Int) /\ Len(Offered(n)) = n
           /\ \A i \in 1..n : Offered(n)[i] = stream[read + i]
           /\ \A t \in Tagged(n) : t.at \in 0..(n - 1)
<1>1. n \in Nat \ {0} /\ graph \in Graphs /\ stream \in Seq(Int) /\ read \in Nat
    BY GraphIs DEF TypeInv
<1> QED BY <1>1, OfferedIs, TaggedIs

LEMMA TagWorkIs ==
    ASSUME TypeInv, NEW n \in graph.windows,
           NEW sink, NEW next, NEW ate, SinkWork(sink, n, next, ate),
           read + n <= Len(stream) => ate \in 0..n
    PROVE  SinkCall(n) /\ d' = next /\ read' = read + ate /\ graph.sink = sink
<1>1. /\ read + n <= Len(stream) /\ UNCHANGED <<graph, queue, stream>>
      /\ read' = read + ate /\ \E x : mail' = [mail EXCEPT ![Source + 1] = x]
      /\ d' = next /\ graph.sink = sink
    BY DEF SinkWork
<1>2. n \in Nat \ {0} /\ ate \in 0..n
    BY <1>1, GraphIs DEF TypeInv
<1>3. TypeInv'
    BY <1>1, <1>2, TypeSink
<1> QED BY <1>1, <1>2, <1>3 DEF SinkCall

LEMMA BurstWorkIs ==
    ASSUME TypeInv, NEW n \in graph.windows, PacketizeBurstWork(n)
    PROVE  LET r == PacketizeBurst(d, Offered(n), Tagged(n))
           IN  /\ SinkCall(n) /\ graph.sink = "packetize_burst"
               /\ d' = r.d /\ read' = read + r.ate /\ r.ate \in 0..n
<1> DEFINE r == PacketizeBurst(d, Offered(n), Tagged(n))
<1>1. SinkWork("packetize_burst", n, r.d, r.ate)
    BY DEF PacketizeBurstWork
<1>2. read + n <= Len(stream)
    BY <1>1 DEF SinkWork
<1>3. r.ate \in 0..n
    BY <1>2, HandedIs, AteIs
<1> HIDE DEF r
<1>4. PICK next, ate : next = r.d /\ ate = r.ate
    OBVIOUS
<1>5. SinkCall(n) /\ d' = next /\ read' = read + ate /\ graph.sink = "packetize_burst"
    BY <1>1, <1>3, <1>4, TagWorkIs
<1> QED BY <1>3, <1>4, <1>5 DEF r

LEMMA LargeWorkIs ==
    ASSUME TypeInv, NEW n \in graph.windows, LargePduWork(n)
    PROVE  LET r == LargePdu(d, Offered(n), Tagged(n))
           IN  /\ SinkCall(n) /\ graph.sink = "tagged_stream_to_large_pdu_f"
               /\ d' = r.d /\ read' = read + r.ate /\ r.ate \in 0..n
               /\ alone' = (alone /\ Cardinality(Touched(n)) <= 1)
<1> DEFINE r == LargePdu(d, Offered(n), Tagged(n))
<1>1. SinkWork("tagged_stream_to_large_pdu_f", n, r.d, r.ate)
    BY DEF LargePduWork
<1>2. read + n <= Len(stream)
    BY <1>1 DEF SinkWork
<1>3. r.ate \in 0..n
    BY <1>2, HandedIs, AteIs
<1> HIDE DEF r
<1>4. PICK next, ate : next = r.d /\ ate = r.ate
    OBVIOUS
<1>5. /\ SinkCall(n) /\ d' = next /\ read' = read + ate
      /\ graph.sink = "tagged_stream_to_large_pdu_f"
    BY <1>1, <1>3, <1>4, TagWorkIs
<1>6. alone' = (alone /\ Cardinality(Touched(n)) <= 1)
    BY DEF LargePduWork
<1> QED BY <1>3, <1>4, <1>5, <1>6 DEF r

LEMMA VectorWorkIs ==
    ASSUME TypeInv, NEW n \in graph.windows, ToVectorWork(n)
    PROVE  LET r == ToVector(graph.conf, d, Offered(n), Tagged(n))
           IN  /\ SinkCall(n) /\ graph.sink = "prototype_tagged_stream_to_vector"
               /\ d' = r.d /\ read' = read + r.ate /\ r.ate \in 0..n
               /\ n >= 10 * graph.conf.len
<1> DEFINE r == ToVector(graph.conf, d, Offered(n), Tagged(n))
<1>1. SinkWork("prototype_tagged_stream_to_vector", n, r.d, r.ate)
    BY DEF ToVectorWork
<1>2. read + n <= Len(stream)
    BY <1>1 DEF SinkWork
<1>3. r.ate \in 0..n
    BY <1>2, HandedIs, AteIs
<1> HIDE DEF r
<1>4. PICK next, ate : next = r.d /\ ate = r.ate
    OBVIOUS
<1>5. /\ SinkCall(n) /\ d' = next /\ read' = read + ate
      /\ graph.sink = "prototype_tagged_stream_to_vector"
    BY <1>1, <1>3, <1>4, TagWorkIs
<1>6. n >= 10 * graph.conf.len
    BY DEF ToVectorWork, Forecast
<1> QED BY <1>3, <1>4, <1>5, <1>6 DEF r

LEMMA TypeNext ==
    ASSUME TypeInv, [Next]_vars
    PROVE  TypeInv'
<1>1. CASE UNCHANGED vars
    <2>1. UNCHANGED <<Chain, Source, Mailboxes>>
        BY <1>1, SameChain DEF vars
    <2> QED BY <1>1, <2>1 DEF vars, TypeInv
<1>2. CASE Handle
    BY <1>2, TypeHandle
<1>3. ASSUME NEW i \in DOMAIN Chain, Relay(i) PROVE TypeInv'
    BY <1>3, TypeRelay
<1>4. ASSUME NEW n \in graph.windows,
             \/ SourceWork(n)
             \/ PnDecodeWork(n) \/ OokDecodeWork(n) \/ IdentityWork(n)
             \/ PacketizeBurstWork(n) \/ LargePduWork(n) \/ ToVectorWork(n)
      PROVE  TypeInv'
    <2>1. CASE SourceWork(n)
        BY <2>1, TypeSource
    <2>2. CASE PnDecodeWork(n) \/ OokDecodeWork(n) \/ IdentityWork(n)
        BY <2>2, FoldWorkIs DEF SinkCall
    <2>3. CASE PacketizeBurstWork(n)
        BY <2>3, BurstWorkIs DEF SinkCall
    <2>4. CASE LargePduWork(n)
        BY <2>4, LargeWorkIs DEF SinkCall
    <2>5. CASE ToVectorWork(n)
        BY <2>5, VectorWorkIs DEF SinkCall
    <2> QED BY <1>4, <2>1, <2>2, <2>3, <2>4, <2>5
<1> QED BY <1>1, <1>2, <1>3, <1>4 DEF Next

(* Whatever the scheduler does, mail reaches only blocks of the chain, what *)
(* the blocks before the stream are posted and what is queued and produced *)
(* are sequences of numbers, and no sink eats more than was produced.      *)
THEOREM TypesHold == Spec => []TypeInv
<1>1. Init => TypeInv
    BY TypeInit
<1>2. TypeInv /\ [Next]_vars => TypeInv'
    BY TypeNext
<1> QED BY <1>1, <1>2, PTL DEF Spec

-----------------------------------------------------------------------------
(* Slices of the stream, and the steps that are not calls of the sink.     *)

LEMMA SubSeqSame ==
    ASSUME NEW s, NEW t, NEW m \in Int, NEW n \in Int, \A i \in m..n : s[i] = t[i]
    PROVE  SubSeq(s, m, n) = SubSeq(t, m, n)
<1> DEFINE V == {s[i] : i \in m..n}
           k == IF m <= n THEN n - m + 1 ELSE 0
<1>1. \A i \in m..n : s[i] \in V /\ t[i] \in V
    OBVIOUS
<1> HIDE DEF V
<1>2. /\ SubSeq(s, m, n) \in Seq(V) /\ Len(SubSeq(s, m, n)) = k
      /\ \A i \in 1..(n - m + 1) : SubSeq(s, m, n)[i] = s[m + i - 1]
    BY <1>1, SubSeqProperties
<1>3. /\ SubSeq(t, m, n) \in Seq(V) /\ Len(SubSeq(t, m, n)) = k
      /\ \A i \in 1..(n - m + 1) : SubSeq(t, m, n)[i] = t[m + i - 1]
    BY <1>1, SubSeqProperties
<1>4. \A i \in 1..k : SubSeq(s, m, n)[i] = SubSeq(t, m, n)[i]
    <2> TAKE i \in 1..k
    <2>1. i \in 1..(n - m + 1) /\ m + i - 1 \in m..n
        OBVIOUS
    <2> QED BY <1>2, <1>3, <2>1
<1> QED BY <1>2, <1>3, <1>4, SeqEqual

(* A slice of a window is a slice of what the window shows.                *)
LEMMA SubSeqShift ==
    ASSUME NEW s, NEW w, NEW b \in Nat, NEW m \in Nat,
           \A i \in 1..m : w[i] = s[b + i]
    PROVE  SubSeq(w, 1, m) = SubSeq(s, b + 1, b + m)
<1> DEFINE V == {w[i] : i \in 1..m}
<1>1. /\ \A i \in 1..m : w[i] \in V
      /\ \A i \in (b + 1)..(b + m) : s[i] \in V
    <2>1. \A i \in 1..m : w[i] \in V
        OBVIOUS
    <2>2. ASSUME NEW i \in (b + 1)..(b + m) PROVE s[i] \in V
        <3>1. i - b \in 1..m /\ b + (i - b) = i
            OBVIOUS
        <3> QED BY <3>1
    <2> QED BY <2>1, <2>2
<1> HIDE DEF V
<1>2. /\ SubSeq(w, 1, m) \in Seq(V) /\ Len(SubSeq(w, 1, m)) = m
      /\ \A i \in 1..m : SubSeq(w, 1, m)[i] = w[i]
    <2>1. /\ SubSeq(w, 1, m) \in Seq(V)
          /\ Len(SubSeq(w, 1, m)) = IF 1 <= m THEN m - 1 + 1 ELSE 0
          /\ \A i \in 1..(m - 1 + 1) : SubSeq(w, 1, m)[i] = w[1 + i - 1]
        BY <1>1, SubSeqProperties
    <2> QED BY <2>1
<1>3. /\ SubSeq(s, b + 1, b + m) \in Seq(V) /\ Len(SubSeq(s, b + 1, b + m)) = m
      /\ \A i \in 1..m : SubSeq(s, b + 1, b + m)[i] = s[b + i]
    <2>1. /\ SubSeq(s, b + 1, b + m) \in Seq(V)
          /\ Len(SubSeq(s, b + 1, b + m)) =
                IF b + 1 <= b + m THEN (b + m) - (b + 1) + 1 ELSE 0
          /\ \A i \in 1..((b + m) - (b + 1) + 1) :
                SubSeq(s, b + 1, b + m)[i] = s[(b + 1) + i - 1]
        BY <1>1, SubSeqProperties
    <2>2. (b + m) - (b + 1) + 1 = m /\ \A i \in Int : (b + 1) + i - 1 = b + i
        OBVIOUS
    <2> QED BY <2>1, <2>2
<1> QED BY <1>2, <1>3, SeqEqual

(* What was produced stays, and more may come.                             *)
Longer ==
    /\ stream' \in Seq(Int) /\ Len(stream) <= Len(stream')
    /\ \A i \in 1..Len(stream) : stream'[i] = stream[i]

Calls(n) ==
    \/ PnDecodeWork(n) \/ OokDecodeWork(n) \/ IdentityWork(n)
    \/ PacketizeBurstWork(n) \/ LargePduWork(n) \/ ToVectorWork(n)

LEMMA StepIs ==
    ASSUME TypeInv, [Next]_vars
    PROVE  /\ TypeInv' /\ UNCHANGED graph
           /\ \/ UNCHANGED <<read, d, alone>> /\ Longer
              \/ \E n \in graph.windows : Calls(n)
<1>1. TypeInv'
    BY TypeNext
<1>2. stream \in Seq(Int) /\ Len(stream) \in Nat
    BY LenProperties DEF TypeInv
<1>3. stream' = stream => Longer
    BY <1>2 DEF Longer
<1>4. CASE UNCHANGED vars
    BY <1>1, <1>3, <1>4 DEF vars
<1>5. CASE Handle
    BY <1>1, <1>3, <1>5 DEF Handle
<1>6. ASSUME NEW i \in DOMAIN Chain, Relay(i)
      PROVE  UNCHANGED <<graph, read, d, alone>> /\ Longer
    BY <1>3, <1>6 DEF Relay
<1>7. ASSUME NEW n \in graph.windows, SourceWork(n)
      PROVE  UNCHANGED <<graph, read, d, alone>> /\ Longer
    <2>1. /\ stream' \in Seq(Int) /\ Len(stream') = Len(stream) + n /\ n \in Nat
          /\ \A i \in 1..Len(stream) : stream'[i] = stream[i]
        BY <1>7, SentIs
    <2>2. Longer
        BY <1>2, <2>1 DEF Longer
    <2> QED BY <1>7, <2>2 DEF SourceWork
<1>8. ASSUME NEW n \in graph.windows, Calls(n) PROVE UNCHANGED graph
    <2>1. CASE PnDecodeWork(n)
        BY <2>1 DEF PnDecodeWork, SinkWork
    <2>2. CASE OokDecodeWork(n)
        BY <2>2 DEF OokDecodeWork, SinkWork
    <2>3. CASE IdentityWork(n)
        BY <2>3 DEF IdentityWork, SinkWork
    <2>4. CASE PacketizeBurstWork(n)
        BY <2>4 DEF PacketizeBurstWork, SinkWork
    <2>5. CASE LargePduWork(n)
        BY <2>5 DEF LargePduWork, SinkWork
    <2>6. CASE ToVectorWork(n)
        BY <2>6 DEF ToVectorWork, SinkWork
    <2> QED BY <1>8, <2>1, <2>2, <2>3, <2>4, <2>5, <2>6 DEF Calls
<1>9. \/ UNCHANGED <<graph, read, d, alone>> /\ Longer
      \/ \E n \in graph.windows : Calls(n)
    <2>1. CASE UNCHANGED vars \/ Handle
        BY <1>3, <2>1 DEF vars, Handle
    <2>2. CASE \E i \in DOMAIN Chain : Relay(i)
        BY <1>6, <2>2
    <2>3. CASE \E n \in graph.windows : SourceWork(n)
        BY <1>7, <2>3
    <2>4. CASE \E n \in graph.windows : Calls(n)
        BY <2>4
    <2> QED BY <2>1, <2>2, <2>3, <2>4 DEF Next, Calls
<1> QED BY <1>1, <1>8, <1>9

(* A sink's own work is the only call there is.                            *)
LEMMA OwnCall ==
    ASSUME NEW n, Calls(n)
    PROVE  /\ graph.sink = "pn_decode_f" => PnDecodeWork(n)
           /\ graph.sink = "ook_decode_b" => OokDecodeWork(n)
           /\ graph.sink = "pn_decode_identity_b" => IdentityWork(n)
           /\ graph.sink = "packetize_burst" => PacketizeBurstWork(n)
           /\ graph.sink = "tagged_stream_to_large_pdu_f" => LargePduWork(n)
           /\ graph.sink = "prototype_tagged_stream_to_vector" => ToVectorWork(n)
BY DEF Calls, PnDecodeWork, OokDecodeWork, IdentityWork, PacketizeBurstWork,
       LargePduWork, ToVectorWork, SinkWork

Same(t, u) == t.at = u.at /\ t.key = u.key /\ t.value = u.value

LEMMA SeenIs ==
    ASSUME TypeInv, NEW n \in Nat
    PROVE  /\ \A t \in Tagged(n) :
                 /\ t.at \in 0..(n - 1)
                 /\ \E u \in graph.tags :
                       u.at = read + t.at /\ u.key = t.key /\ u.value = t.value
           /\ \A u \in graph.tags :
                 u.at \in read..(read + n - 1) =>
                    \E t \in Tagged(n) :
                       t.at = u.at - read /\ t.key = u.key /\ t.value = u.value
           /\ \A u \in graph.tags : u.at \in Nat
           /\ read \in Nat
<1>1. graph \in Graphs /\ read \in Nat
    BY DEF TypeInv
<1>2. /\ \A t \in Tagged(n) :
                 /\ t = [at |-> t.at, key |-> t.key, value |-> t.value]
                 /\ t.at \in 0..(n - 1)
                 /\ [t EXCEPT !.at = read + t.at] \in graph.tags
      /\ \A u \in graph.tags :
                 u.at \in read..(read + n - 1) =>
                    [at |-> u.at - read, key |-> u.key, value |-> u.value] \in Tagged(n)
    BY <1>1, TaggedIs
<1>3. ASSUME NEW t \in Tagged(n)
      PROVE  \E u \in graph.tags : u.at = read + t.at /\ u.key = t.key /\ u.value = t.value
    <2>1. PICK u \in graph.tags : u = [t EXCEPT !.at = read + t.at]
        BY <1>2
    <2>2. u = [at |-> read + t.at, key |-> t.key, value |-> t.value]
        BY <1>2, <2>1
    <2> QED BY <2>2
<1>4. ASSUME NEW u \in graph.tags, u.at \in read..(read + n - 1)
      PROVE  \E t \in Tagged(n) : t.at = u.at - read /\ t.key = u.key /\ t.value = u.value
    BY <1>2, <1>4
<1>5. \A u \in graph.tags : u.at \in Nat
    BY <1>1, GraphIs DEF IsTag
<1> QED BY <1>1, <1>2, <1>3, <1>4, <1>5

-----------------------------------------------------------------------------
(* prototype_tagged_stream_to_vector                                       *)

(* Where the tags are that count for it.                                   *)
VectorAt == {t.at : t \in {u \in Keyed(Past, "length") : u.value = graph.conf.len}}
Vectors == [p \in Nat |-> SubSeq(stream, p + 1, p + graph.conf.len)]

VectorInv ==
    graph.sink = "prototype_tagged_stream_to_vector" =>
        /\ d = [bits |-> d.bits, silent |-> d.silent, next |-> d.next, last |-> d.last,
                buf |-> d.buf, len |-> d.len, out |-> d.out]
        /\ d.out = Part(Vectors, VectorAt)
        /\ \A p \in VectorAt : p + graph.conf.len <= Len(stream)

LEMMA VectorAtIs ==
    ASSUME TypeInv
    PROVE  \A p : p \in VectorAt <=>
              /\ p \in Nat /\ p < read
              /\ \E u \in graph.tags : u.at = p /\ u.key = "length" /\ u.value = graph.conf.len
<1>1. \A u \in graph.tags : u.at \in Nat
    BY GraphIs DEF TypeInv, IsTag
<1> QED BY <1>1 DEF VectorAt, Keyed, Past

LEMMA VectorInit == Init => VectorInv
<1> SUFFICES ASSUME Init PROVE VectorInv
    OBVIOUS
<1>1. TypeInv /\ read = 0
    BY TypeInit DEF Init
<1>2. VectorAt = {}
    BY <1>1, VectorAtIs
<1>3. d = [bits |-> << >>, silent |-> 0, next |-> -1, last |-> 0,
           buf |-> << >>, len |-> 0, out |-> << >>]
    BY DEF Init
<1>4. Part(Vectors, VectorAt) = << >>
    BY <1>2, PartEmpty
<1> QED BY <1>2, <1>3, <1>4 DEF VectorInv

LEMMA VectorLonger ==
    ASSUME TypeInv, VectorInv, TypeInv', UNCHANGED <<graph, read, d>>, Longer
    PROVE  VectorInv'
<1> SUFFICES ASSUME graph.sink = "prototype_tagged_stream_to_vector" PROVE VectorInv'
    BY DEF VectorInv
<1>1. VectorAt' = VectorAt
    BY DEF VectorAt, Past
<1>2. /\ stream \in Seq(Int) /\ Len(stream) \in Nat /\ Len(stream') \in Nat /\ read \in Nat
      /\ graph.conf.len \in Nat
    BY LenProperties, GraphIs DEF TypeInv
<1>3. \A p \in VectorAt : p \in Nat /\ p <= read /\ p + graph.conf.len <= Len(stream)
    BY <1>2, VectorAtIs DEF VectorInv
<1>4. ASSUME NEW p \in VectorAt PROVE Vectors[p] = Vectors'[p]
    <2>1. p \in Nat /\ p + graph.conf.len <= Len(stream)
        BY <1>3
    <2>2. \A i \in (p + 1)..(p + graph.conf.len) :
              stream[i] = stream'[i] /\ stream[i] \in Int
        BY <1>2, <2>1, ElementOfSeq DEF Longer
    <2>3. SubSeq(stream, p + 1, p + graph.conf.len) = SubSeq(stream', p + 1, p + graph.conf.len)
        <3>1. p + 1 \in Int /\ p + graph.conf.len \in Int
            BY <1>2, <2>1
        <3>2. \A i \in (p + 1)..(p + graph.conf.len) : stream[i] = stream'[i]
            BY <2>2
        <3> QED BY <3>1, <3>2, SubSeqSame
    <2> QED BY <2>1, <2>3 DEF Vectors
<1>5. Part(Vectors, VectorAt) = Part(Vectors', VectorAt)
    BY <1>2, <1>3, <1>4, PartSame
<1>6. \A p \in VectorAt : p + graph.conf.len <= Len(stream')
    BY <1>2, <1>3 DEF Longer
<1> QED BY <1>1, <1>5, <1>6 DEF VectorInv

LEMMA VectorStep ==
    ASSUME TypeInv, VectorInv, NEW n \in graph.windows, ToVectorWork(n)
    PROVE  VectorInv'
<1> DEFINE c == graph.conf
           mine == {t \in Keyed(Tagged(n), "length") : t.value = c.len}
           t == Earliest(mine)
           r == ToVector(c, d, Offered(n), Tagged(n))
<1>1. /\ UNCHANGED <<graph, stream>> /\ n \in Nat \ {0} /\ read + n <= Len(stream)
      /\ d' = r.d /\ read' = read + r.ate /\ TypeInv' /\ n >= 10 * c.len
      /\ graph.sink = "prototype_tagged_stream_to_vector"
    BY VectorWorkIs DEF SinkCall
<1>2. c.len \in Nat /\ read \in Nat /\ stream \in Seq(Int) /\ Len(stream) \in Nat
    BY GraphIs, LenProperties DEF TypeInv
<1>3. /\ d = [bits |-> d.bits, silent |-> d.silent, next |-> d.next, last |-> d.last,
              buf |-> d.buf, len |-> d.len, out |-> d.out]
      /\ d.out = Part(Vectors, VectorAt)
      /\ \A p \in VectorAt : p + c.len <= Len(stream)
    BY <1>1 DEF VectorInv
<1>4. \A p : p \in VectorAt <=>
              /\ p \in Nat /\ p < read
              /\ \E u \in graph.tags : u.at = p /\ u.key = "length" /\ u.value = c.len
    BY VectorAtIs
<1>5. \A p : p \in VectorAt' <=>
              /\ p \in Nat /\ p < read'
              /\ \E u \in graph.tags : u.at = p /\ u.key = "length" /\ u.value = c.len
    <2>1. \A u \in graph.tags : u.at \in Nat
        BY <1>1, SeenIs
    <2> HIDE DEF r, t, mine
    <2> QED BY <1>1, <2>1 DEF VectorAt, Keyed, Past
<1>6. Vectors' = Vectors
    BY <1>1 DEF Vectors
<1>7. /\ \A u \in graph.tags :
            (u.at \in read..(read + n - 1) /\ u.key = "length" /\ u.value = c.len) =>
                \E x \in mine : x.at = u.at - read
      /\ \A x \in mine : /\ x.at \in 0..(n - 1)
                         /\ \E u \in graph.tags : /\ u.at = read + x.at
                                                 /\ u.key = "length" /\ u.value = c.len
    <2> HIDE DEF r, t
    <2>1. /\ \A x \in Tagged(n) :
                 /\ x.at \in 0..(n - 1)
                 /\ \E u \in graph.tags :
                       u.at = read + x.at /\ u.key = x.key /\ u.value = x.value
          /\ \A u \in graph.tags :
                 u.at \in read..(read + n - 1) =>
                    \E x \in Tagged(n) :
                       x.at = u.at - read /\ x.key = u.key /\ x.value = u.value
        BY <1>1, SeenIs
    <2>2. \A x : x \in mine <=> x \in Tagged(n) /\ x.key = "length" /\ x.value = c.len
        BY DEF Keyed
    <2> HIDE DEF mine
    <2> QED BY <2>1, <2>2
<1>8. r = IF mine = {} THEN [d |-> d, ate |-> Len(Offered(n))]
          ELSE IF t.at # 0 THEN [d |-> d, ate |-> t.at]
          ELSE [d |-> [d EXCEPT !.out = Append(@, SubSeq(Offered(n), 1, c.len))], ate |-> 1]
    BY DEF ToVector
<1> HIDE DEF r, mine
<1>9. mine # {} => t \in mine /\ \A x \in mine : t.at <= x.at
    <2>1. \A x \in mine : x.at \in Nat
        BY <1>7
    <2> QED BY <2>1, EarliestIs
<1> HIDE DEF t
(* Nothing to put out among the samples eaten.                             *)
<1>10. ASSUME NEW k \in 0..n, read' = read + k, d' = d, \A x \in mine : k <= x.at
       PROVE  VectorInv'
    <2>1. VectorAt' = VectorAt
        <3>1. ASSUME NEW p \in VectorAt' PROVE p \in VectorAt
            <4>1. PICK u \in graph.tags : u.at = p /\ u.key = "length" /\ u.value = c.len
                BY <1>5, <3>1
            <4>2. p \in Nat /\ p < read + k
                BY <1>5, <1>10, <3>1
            <4>3. ASSUME read <= p PROVE FALSE
                <5>1. p \in read..(read + n - 1)
                    BY <1>1, <1>2, <1>10, <4>2, <4>3
                <5>2. PICK x \in mine : x.at = p - read
                    BY <1>7, <4>1, <5>1
                <5> QED BY <1>2, <1>10, <4>2, <5>2
            <4> QED BY <1>2, <1>4, <4>1, <4>2, <4>3
        <3>2. ASSUME NEW p \in VectorAt PROVE p \in VectorAt'
            BY <1>2, <1>4, <1>5, <1>10, <3>2
        <3> QED BY <3>1, <3>2
    <2> QED BY <1>1, <1>3, <1>6, <1>10, <2>1 DEF VectorInv
<1>11. CASE mine = {}
    <2>1. Len(Offered(n)) = n
        BY <1>1, HandedIs
    <2>2. d' = d /\ read' = read + n
        BY <1>1, <1>8, <1>11, <2>1
    <2>3. n \in 0..n
        BY <1>1
    <2> QED BY <1>10, <1>11, <2>2, <2>3
<1>12. CASE mine # {} /\ t.at # 0
    <2>1. t.at \in 0..n /\ \A x \in mine : t.at <= x.at
        BY <1>1, <1>7, <1>9, <1>12
    <2>2. d' = d /\ read' = read + t.at
        BY <1>1, <1>8, <1>12
    <2> QED BY <1>10, <2>1, <2>2
<1>13. CASE mine # {} /\ t.at = 0
    <2>1. t \in mine
        BY <1>9, <1>13
    <2>2. /\ d' = [d EXCEPT !.out = Append(@, SubSeq(Offered(n), 1, c.len))]
          /\ read' = read + 1
        BY <1>1, <1>8, <1>13
    <2>3. PICK u \in graph.tags : u.at = read /\ u.key = "length" /\ u.value = c.len
        BY <1>2, <1>7, <1>13, <2>1
    <2>4. VectorAt' = VectorAt \cup {read}
        <3>1. \A p \in Nat : p < read + 1 <=> (p < read \/ p = read)
            BY <1>2
        <3> QED BY <1>2, <1>4, <1>5, <2>2, <2>3, <3>1
    <2>5. SubSeq(Offered(n), 1, c.len) = SubSeq(stream, read + 1, read + c.len)
        <3>1. c.len <= n
            BY <1>1, <1>2
        <3>2. /\ Offered(n) \in Seq(Int) /\ Len(Offered(n)) = n
              /\ \A i \in 1..n : Offered(n)[i] = stream[read + i]
            BY <1>1, HandedIs
        <3>3. /\ \A i \in 1..c.len : Offered(n)[i] = stream[read + i]
              /\ read \in Nat /\ c.len \in Nat
            <4>1. n \in Nat /\ c.len \in Nat /\ read \in Nat
                BY <1>1, <1>2
            <4>2. \A i \in 1..c.len : i \in 1..n
                BY <3>1, <4>1
            <4> QED BY <3>2, <4>1, <4>2
        <3> QED BY <3>3, SubSeqShift
    <2>6. Part(Vectors, VectorAt') = Append(Part(Vectors, VectorAt), Vectors[read])
        <3>1. \A p \in VectorAt : p \in Nat /\ p < read
            BY <1>4
        <3> QED BY <1>2, <2>4, <3>1, PartAdd
    <2>7. Vectors[read] = SubSeq(stream, read + 1, read + c.len)
        BY <1>2 DEF Vectors
    <2>8. \A p \in VectorAt' : p + c.len <= Len(stream)
        <3>1. read + c.len <= Len(stream)
            BY <1>1, <1>2
        <3> QED BY <1>3, <2>4, <3>1
    <2>9. /\ d' = [bits |-> d'.bits, silent |-> d'.silent, next |-> d'.next, last |-> d'.last,
                   buf |-> d'.buf, len |-> d'.len, out |-> d'.out]
          /\ d'.out = Append(d.out, SubSeq(Offered(n), 1, c.len))
        BY <1>3, <2>2
    <2>10. d'.out = Part(Vectors', VectorAt')
        BY <1>3, <1>6, <2>5, <2>6, <2>7, <2>9
    <2> QED BY <1>1, <2>8, <2>9, <2>10 DEF VectorInv
<1> QED BY <1>11, <1>12, <1>13

LEMMA VectorPublished ==
    ASSUME TypeInv, VectorInv, graph.sink = "prototype_tagged_stream_to_vector"
    PROVE  d.out = VectorPackets(graph.conf, stream, Past)
<1> DEFINE c == graph.conf
           T == {t \in Keyed(Past, "length") : t.value = c.len}
           whole == {t \in Keyed(T, "length") : t.at + t.value <= Len(stream)}
           at == InOrder({t.at : t \in whole})
<1>1. d.out = Part(Vectors, VectorAt) /\ \A p \in VectorAt : p + c.len <= Len(stream)
    BY DEF VectorInv
<1>2. \A p \in VectorAt : p \in Nat /\ p <= read
    <2>1. read \in Nat
        BY DEF TypeInv
    <2> QED BY <2>1, VectorAtIs
<1>3. whole = T /\ {t.at : t \in whole} = VectorAt
    <2>1. {t.at : t \in T} = VectorAt
        BY DEF VectorAt
    <2>2. \A t \in T : t.at + t.value <= Len(stream) /\ t \in Keyed(T, "length")
        BY <1>1, <2>1 DEF Keyed
    <2>3. whole = T
        BY <2>2 DEF Keyed
    <2> QED BY <2>1, <2>3
<1>4. at = InOrder(VectorAt) /\ \A i \in DOMAIN at : at[i] \in VectorAt
    <2>1. read \in Nat
        BY DEF TypeInv
    <2> QED BY <1>2, <1>3, <2>1, InOrderIs
<1>5. ASSUME NEW p \in VectorAt PROVE Announced(stream, whole, p) = Vectors[p]
    <2>1. \E t \in T : t.at = p
        BY <1>3
    <2>2. /\ (CHOOSE u \in whole : u.at = p) \in T
        BY <1>3, <2>1
    <2>3. (CHOOSE u \in whole : u.at = p).value = c.len
        BY <2>2
    <2>4. p \in Nat
        BY <1>2
    <2> HIDE DEF whole
    <2>5. Announced(stream, whole, p) =
              SubSeq(stream, p + 1, p + (CHOOSE u \in whole : u.at = p).value)
        BY DEF Announced
    <2>6. Vectors[p] = SubSeq(stream, p + 1, p + c.len)
        BY <2>4 DEF Vectors
    <2> QED BY <2>3, <2>5, <2>6
<1>6. VectorPackets(c, stream, Past) = [i \in DOMAIN at |-> Announced(stream, whole, at[i])]
    BY DEF VectorPackets, LengthPackets
<1>7. Part(Vectors, VectorAt) = [i \in DOMAIN at |-> Vectors[at[i]]]
    BY <1>4 DEF Part
<1> HIDE DEF at, whole
<1>8. \A i \in DOMAIN at : Announced(stream, whole, at[i]) = Vectors[at[i]]
    BY <1>4, <1>5
<1> QED BY <1>1, <1>6, <1>7, <1>8

-----------------------------------------------------------------------------
(* packetize_burst                                                         *)

LEMMA JoinsWindow ==
    ASSUME TypeInv, NEW n \in Nat, read + n <= Len(stream),
           NEW b \in 0..read, NEW m \in 0..n
    PROVE  /\ SubSeq(stream, b + 1, read) \o SubSeq(Offered(n), 1, m)
                 = SubSeq(stream, b + 1, read + m)
           /\ m = n => SubSeq(Offered(n), 1, m) = Offered(n)
<1>1. stream \in Seq(Int) /\ Len(stream) \in Nat /\ read \in 0..Len(stream)
    BY LenProperties DEF TypeInv
<1>2. /\ Offered(n) \in Seq(Int) /\ Len(Offered(n)) = n
      /\ \A i \in 1..n : Offered(n)[i] = stream[read + i]
    BY <1>1, OfferedIs
<1>3. SubSeq(Offered(n), 1, m) = SubSeq(stream, read + 1, read + m)
    <2>1. m \in Nat /\ read \in Nat /\ \A i \in 1..m : Offered(n)[i] = stream[read + i]
        BY <1>1, <1>2
    <2> QED BY <2>1, SubSeqShift
<1>4. /\ b + 1 \in 1..(Len(stream) + 1) /\ read \in ((b + 1) - 1)..Len(stream)
      /\ read + m \in read..Len(stream)
    BY <1>1
<1>5. SubSeq(stream, b + 1, read) \o SubSeq(stream, read + 1, read + m)
          = SubSeq(stream, b + 1, read + m)
    BY <1>1, <1>4, ConcatAdjacentSubSeq
<1>6. m = n => SubSeq(Offered(n), 1, m) = Offered(n)
    BY <1>2, SubSeqFull
<1> QED BY <1>3, <1>5, <1>6

LEMMA OneSample ==
    ASSUME NEW s \in Seq(Int), NEW i \in 1..Len(s)
    PROVE  SubSeq(s, i, i) = <<s[i]>>
<1>1. s[i] \in Int /\ i \in Int
    BY ElementOfSeq
<1>2. /\ SubSeq(s, i, i) \in Seq(Int) /\ Len(SubSeq(s, i, i)) = IF i <= i THEN i - i + 1 ELSE 0
      /\ \A j \in 1..(i - i + 1) : SubSeq(s, i, i)[j] = s[i + j - 1]
    BY <1>1, SubSeqProperties
<1>3. Len(SubSeq(s, i, i)) = 1 /\ SubSeq(s, i, i)[1] = s[i]
    BY <1>1, <1>2
<1>4. <<s[i]>> \in Seq(Int) /\ Len(<<s[i]>>) = 1 /\ <<s[i]>>[1] = s[i]
    BY <1>1
<1> DEFINE x == SubSeq(s, i, i)
           y == <<s[i]>>
<1>5. x \in Seq(Int) /\ y \in Seq(Int) /\ Len(x) = Len(y)
      /\ \A j \in 1..Len(x) : x[j] = y[j]
    BY <1>2, <1>3, <1>4
<1> HIDE DEF x, y
<1>6. x = y
    BY <1>5, SeqEqual
<1> QED BY <1>6 DEF x, y

LEMMA SliceNotEmpty ==
    ASSUME NEW s \in Seq(Int), NEW m \in 0..Len(s), NEW b \in 0..m, b < m
    PROVE  SubSeq(s, b + 1, m) # << >>
<1>1. /\ b + 1 \in Int /\ m \in Int /\ b + 1 <= m
      /\ \A i \in (b + 1)..m : s[i] \in Int
    BY ElementOfSeq
<1>2. Len(SubSeq(s, b + 1, m)) = m - (b + 1) + 1
    BY <1>1, SubSeqProperties
<1>3. Len(SubSeq(s, b + 1, m)) # 0
    BY <1>1, <1>2
<1> QED BY <1>3, EmptySeq

BurstsAt == [e \in Nat |-> Burst(stream, graph.tags, e)]
EndsSeen == {e \in EndsAt(graph.tags) : e < read}

(* Starts of a burst whose end is not seen yet: one at most.               *)
Open ==
    {b \in StartsAt(graph.tags) :
        b < read /\ \A e \in EndsAt(graph.tags) : e < read => e < b}

BurstInv ==
    graph.sink = "packetize_burst" /\ TakeTurns(graph.tags) =>
        /\ d = [bits |-> d.bits, silent |-> d.silent, next |-> d.next, last |-> d.last,
                buf |-> d.buf, len |-> d.len, out |-> d.out]
        /\ d.out = Part(BurstsAt, EndsSeen)
        /\ Open = {} => d.buf = << >>
        /\ \A b \in Open : d.buf = SubSeq(stream, b + 1, read)

LEMMA BurstTags ==
    ASSUME graph \in Graphs
    PROVE  /\ \A p \in StartsAt(graph.tags) \cup EndsAt(graph.tags) : p \in Nat
           /\ \A u \in graph.tags : u.key = "burst" =>
                 /\ u.value \in BOOLEAN
                 /\ u.value => u.at \in StartsAt(graph.tags)
                 /\ ~u.value => u.at \in EndsAt(graph.tags)
           /\ \A p \in StartsAt(graph.tags) :
                 \E u \in graph.tags : u.at = p /\ u.key = "burst" /\ u.value
           /\ \A p \in EndsAt(graph.tags) :
                 \E u \in graph.tags : u.at = p /\ u.key = "burst" /\ ~u.value
<1>1. \A u \in graph.tags : u.at \in Nat /\ (u.key = "burst" => u.value \in BOOLEAN)
    BY GraphIs DEF IsTag
<1> QED BY <1>1 DEF StartsAt, EndsAt, Keyed

LEMMA BurstInit == Init => BurstInv
<1> SUFFICES ASSUME Init PROVE BurstInv
    OBVIOUS
<1>1. graph \in Graphs /\ read = 0
    BY DEF Init
<1>2. EndsSeen = {} /\ Open = {}
    BY <1>1, BurstTags DEF EndsSeen, Open
<1>3. d = [bits |-> << >>, silent |-> 0, next |-> -1, last |-> 0,
           buf |-> << >>, len |-> 0, out |-> << >>]
    BY DEF Init
<1>4. Part(BurstsAt, EndsSeen) = << >>
    BY <1>2, PartEmpty
<1> QED BY <1>2, <1>3, <1>4 DEF BurstInv

LEMMA BurstLonger ==
    ASSUME TypeInv, BurstInv, TypeInv', UNCHANGED <<graph, read, d>>, Longer
    PROVE  BurstInv'
<1> SUFFICES ASSUME graph.sink = "packetize_burst", TakeTurns(graph.tags) PROVE BurstInv'
    BY DEF BurstInv
<1>1. EndsSeen' = EndsSeen /\ Open' = Open
    BY DEF EndsSeen, Open
<1>2. /\ stream \in Seq(Int) /\ Len(stream) \in Nat /\ read \in 0..Len(stream)
      /\ graph \in Graphs
    BY LenProperties DEF TypeInv
<1>3. \A e \in EndsSeen : e \in Nat /\ e < read /\ e <= read
    BY <1>2, BurstTags DEF EndsSeen
<1>4. ASSUME NEW b \in Nat, NEW m \in Int, m <= read
      PROVE  SubSeq(stream, b + 1, m) = SubSeq(stream', b + 1, m)
    <2>1. \A i \in (b + 1)..m : stream[i] = stream'[i]
        <3> TAKE i \in (b + 1)..m
        <3>1. i \in 1..Len(stream)
            BY <1>2, <1>4
        <3> QED BY <3>1 DEF Longer
    <2>2. b + 1 \in Int
        OBVIOUS
    <2> QED BY <2>1, <2>2, SubSeqSame
<1>5. ASSUME NEW e \in EndsSeen PROVE BurstsAt[e] = BurstsAt'[e]
    <2> DEFINE B == BeginsAt(graph.tags, e)
    <2>1. B # {} => Min(B) \in Nat
        <3>1. B \subseteq Nat
            BY <1>2, BurstTags DEF BeginsAt
        <3> QED BY <3>1, MinIs
    <2>2. e \in Nat /\ e + 1 \in Int /\ e + 1 <= read
        BY <1>2, <1>3
    <2>3. /\ BurstsAt[e] = IF B = {} THEN << >> ELSE SubSeq(stream, Min(B) + 1, e + 1)
          /\ BurstsAt'[e] = IF B = {} THEN << >> ELSE SubSeq(stream', Min(B) + 1, e + 1)
        BY <2>2 DEF BurstsAt, Burst
    <2> HIDE DEF B
    <2> QED BY <1>4, <2>1, <2>2, <2>3
<1>6. Part(BurstsAt, EndsSeen) = Part(BurstsAt', EndsSeen)
    <2>1. read \in Nat
        BY <1>2
    <2> QED BY <1>3, <1>5, <2>1, PartSame
<1>7. ASSUME NEW b \in Open PROVE SubSeq(stream, b + 1, read) = SubSeq(stream', b + 1, read)
    <2>1. b \in Nat
        BY <1>2, BurstTags DEF Open
    <2>2. read \in Int /\ read <= read
        BY <1>2
    <2> QED BY <1>4, <2>1, <2>2
<1> QED BY <1>1, <1>6, <1>7 DEF BurstInv

LEMMA BurstStep ==
    ASSUME TypeInv, BurstInv, NEW n \in graph.windows, PacketizeBurstWork(n)
    PROVE  BurstInv'
<1> DEFINE S == StartsAt(graph.tags)
           E == EndsAt(graph.tags)
           win == Offered(n)
           mine == Keyed(Tagged(n), "burst")
           t == Earliest(mine)
           r == PacketizeBurst(d, win, Tagged(n))
<1>1. /\ UNCHANGED <<graph, stream>> /\ n \in Nat \ {0} /\ read + n <= Len(stream)
      /\ d' = r.d /\ read' = read + r.ate /\ TypeInv'
      /\ graph.sink = "packetize_burst"
    BY BurstWorkIs DEF SinkCall
<1> SUFFICES ASSUME TakeTurns(graph.tags) PROVE BurstInv'
    BY <1>1 DEF BurstInv
<1>2. /\ stream \in Seq(Int) /\ Len(stream) \in Nat /\ read \in 0..Len(stream)
      /\ graph \in Graphs
    BY LenProperties DEF TypeInv
<1>3. /\ d = [bits |-> d.bits, silent |-> d.silent, next |-> d.next, last |-> d.last,
              buf |-> d.buf, len |-> d.len, out |-> d.out]
      /\ d.out = Part(BurstsAt, EndsSeen)
      /\ Open = {} => d.buf = << >>
      /\ \A b \in Open : d.buf = SubSeq(stream, b + 1, read)
    BY <1>1 DEF BurstInv
<1>4. /\ \A p \in S \cup E : p \in Nat
      /\ S \cap E = {}
      /\ \A p, q \in S : p < q => \E e \in E : p < e /\ e < q
    BY <1>2, BurstTags DEF TakeTurns
<1>5. /\ \A p \in S \cup E : p \in read..(read + n - 1) => \E x \in mine : x.at = p - read
      /\ \A x \in mine :
            /\ x.at \in 0..(n - 1) /\ x.value \in BOOLEAN
            /\ x.value => read + x.at \in S
            /\ ~x.value => read + x.at \in E
    <2> HIDE DEF r, t
    <2>1. /\ \A x \in Tagged(n) :
                 /\ x.at \in 0..(n - 1)
                 /\ \E u \in graph.tags :
                       u.at = read + x.at /\ u.key = x.key /\ u.value = x.value
          /\ \A u \in graph.tags :
                 u.at \in read..(read + n - 1) =>
                    \E x \in Tagged(n) :
                       x.at = u.at - read /\ x.key = u.key /\ x.value = u.value
        BY <1>1, SeenIs
    <2>2. \A x : x \in mine <=> x \in Tagged(n) /\ x.key = "burst"
        BY DEF Keyed
    <2>3. /\ \A u \in graph.tags : u.key = "burst" =>
                 /\ u.value \in BOOLEAN
                 /\ u.value => u.at \in S
                 /\ ~u.value => u.at \in E
          /\ \A p \in S \cup E :
                 \E u \in graph.tags : u.at = p /\ u.key = "burst"
        BY <1>2, BurstTags
    <2> HIDE DEF mine, S, E
    <2>4. ASSUME NEW p \in S \cup E, p \in read..(read + n - 1)
          PROVE  \E x \in mine : x.at = p - read
        BY <2>1, <2>2, <2>3, <2>4
    <2>5. ASSUME NEW x \in mine
          PROVE  /\ x.at \in 0..(n - 1) /\ x.value \in BOOLEAN
                 /\ x.value => read + x.at \in S
                 /\ ~x.value => read + x.at \in E
        <3>1. x.at \in 0..(n - 1)
            BY <2>1, <2>2
        <3>2. PICK u \in graph.tags : u.at = read + x.at /\ u.key = "burst" /\ u.value = x.value
            BY <2>1, <2>2
        <3> QED BY <2>3, <3>1, <3>2
    <2> QED BY <2>4, <2>5
<1>6. r = IF mine = {} THEN Middle(d, win)
          ELSE IF t.value THEN Start(d, win, t) ELSE End(d, win, t)
    BY DEF PacketizeBurst
<1>7. /\ win \in Seq(Int) /\ Len(win) = n
      /\ \A i \in 1..n : win[i] = stream[read + i]
    BY <1>1, HandedIs
<1> HIDE DEF r, mine
<1>8. mine # {} => t \in mine /\ \A x \in mine : t.at <= x.at
    <2>1. \A x \in mine : x.at \in Nat
        BY <1>5
    <2> QED BY <2>1, EarliestIs
<1> HIDE DEF t, win
<1>9. /\ \A p : p \in EndsSeen <=> p \in E /\ p < read
      /\ \A p : p \in EndsSeen' <=> p \in E /\ p < read'
      /\ \A p : p \in Open <=>
            p \in S /\ p < read /\ \A e \in E : e < read => e < p
      /\ \A p : p \in Open' <=>
            p \in S /\ p < read' /\ \A e \in E : e < read' => e < p
      /\ BurstsAt' = BurstsAt
    BY <1>1 DEF EndsSeen, Open, BurstsAt
<1>10. \A b \in Open : b \in 0..read /\ b < read
    BY <1>2, <1>4, <1>9
<1> HIDE DEF S, E
<1>11. \A a, b \in Open : a = b
    <2> SUFFICES ASSUME NEW a \in Open, NEW b \in Open, a < b PROVE FALSE
        BY <1>10
    <2>1. PICK e \in E : a < e /\ e < b
        BY <1>4, <1>9
    <2>2. e < read /\ e \in Nat
        BY <1>2, <1>4, <1>10, <2>1
    <2> QED BY <1>4, <1>9, <1>10, <2>1, <2>2
<1>12. CASE mine = {}
    <2>1. \A p \in S \cup E : p \notin read..(read + n - 1)
        BY <1>5, <1>12
    <2>2. /\ d' = [d EXCEPT !.buf = IF d.buf = << >> THEN d.buf ELSE d.buf \o win]
          /\ read' = read + n
        BY <1>1, <1>6, <1>7, <1>12 DEF Middle
    <2>3. \A p \in S \cup E : p < read' <=> p < read
        BY <1>1, <1>2, <1>4, <2>1, <2>2
    <2>4. EndsSeen' = EndsSeen
        <3>1. \A p \in E : p < read' <=> p < read
            BY <2>3
        <3> QED BY <1>9, <3>1
    <2>5. Open' = Open
        <3>1. \A p \in Open : p \in Open'
            BY <1>9, <2>3
        <3>2. \A p \in Open' : p \in Open
            BY <1>9, <2>3
        <3> QED BY <3>1, <3>2
    <2>6. /\ d' = [bits |-> d'.bits, silent |-> d'.silent, next |-> d'.next, last |-> d'.last,
                   buf |-> d'.buf, len |-> d'.len, out |-> d'.out]
          /\ d'.out = d.out
          /\ d'.buf = IF d.buf = << >> THEN d.buf ELSE d.buf \o win
        BY <1>3, <2>2
    <2>7. ASSUME NEW b \in Open PROVE d'.buf = SubSeq(stream, b + 1, read')
        <3>1. /\ d.buf = SubSeq(stream, b + 1, read) /\ b \in 0..read
              /\ b < read
            BY <1>3, <1>10
        <3>2. d.buf \o win = SubSeq(stream, b + 1, read')
            <4>1. n \in Nat /\ n \in 0..n
                BY <1>1
            <4>2. /\ SubSeq(stream, b + 1, read) \o SubSeq(win, 1, n) = SubSeq(stream, b + 1, read + n)
                  /\ SubSeq(win, 1, n) = win
                BY <1>1, <3>1, <4>1, JoinsWindow DEF win
            <4> QED BY <2>2, <3>1, <4>2
        <3>3. d.buf # << >>
            BY <1>2, <3>1, SliceNotEmpty
        <3> QED BY <2>6, <3>2, <3>3
    <2>8. Open = {} => d'.buf = << >>
        BY <1>3, <2>6
    <2> QED BY <1>1, <1>3, <1>9, <2>4, <2>5, <2>6, <2>7, <2>8 DEF BurstInv
<1>13. ASSUME mine # {}
       PROVE  /\ t.at \in 0..(n - 1) /\ read + t.at \in Nat
              /\ \A p \in S \cup E : p < read + t.at <=> p < read
    <2>1. t \in mine /\ t.at \in 0..(n - 1)
        BY <1>5, <1>8, <1>13
    <2>2. ASSUME NEW p \in S \cup E, p < read + t.at, ~(p < read) PROVE FALSE
        <3>1. p \in Nat /\ p \in read..(read + n - 1)
            BY <1>1, <1>2, <1>4, <2>1, <2>2
        <3>2. PICK x \in mine : x.at = p - read
            BY <1>5, <3>1
        <3>3. t.at <= x.at
            BY <1>8, <1>13
        <3> QED BY <1>2, <2>1, <2>2, <3>1, <3>2, <3>3
    <2>3. \A p \in S \cup E : p < read => p < read + t.at
        BY <1>2, <1>4, <2>1
    <2> QED BY <1>2, <2>1, <2>2, <2>3
<1>14. CASE mine # {} /\ t.value
    <2> DEFINE q == read + t.at
    <2>1. /\ d' = [d EXCEPT !.buf = Append(d.buf, win[t.at + 1])]
          /\ read' = q + 1
        BY <1>1, <1>2, <1>6, <1>13, <1>14 DEF Start
    <2>2. q \in S /\ q \in Nat /\ q + 1 \in 1..Len(stream)
        BY <1>1, <1>2, <1>5, <1>8, <1>13, <1>14
    <2>3. \A p \in S \cup E : p < q <=> p < read
        BY <1>13, <1>14
    <2> HIDE DEF q
    <2>4. Open = {}
        <3> SUFFICES ASSUME NEW b \in Open PROVE FALSE
            OBVIOUS
        <3>1. b \in S /\ b < read /\ b < q
            BY <1>9, <2>3
        <3>2. PICK e \in E : b < e /\ e < q
            BY <1>4, <2>2, <3>1
        <3>3. e < read
            BY <2>3, <3>2
        <3>4. e < b /\ e \in Nat /\ b \in Nat
            BY <1>4, <1>9, <3>1, <3>3
        <3> QED BY <3>2, <3>4
    <2>5. \A p \in E : p < q + 1 <=> p < read
        <3> TAKE p \in E
        <3>1. p # q /\ p \in Nat
            BY <1>4, <2>2
        <3>2. p < q + 1 <=> p < q
            BY <2>2, <3>1
        <3> QED BY <2>3, <3>2
    <2>6. EndsSeen' = EndsSeen
        BY <1>9, <2>1, <2>5
    <2>7. Open' = {q}
        <3>1. q \in Open'
            <4>1. q < read'
                BY <2>1, <2>2
            <4>2. ASSUME NEW e \in E, e < read' PROVE e < q
                BY <2>1, <2>3, <2>5, <4>2
            <4> QED BY <1>9, <2>2, <4>1, <4>2
        <3>2. ASSUME NEW b \in Open', b # q PROVE FALSE
            <4>1. b \in S /\ b < q + 1 /\ b \in Nat /\ \A e \in E : e < q + 1 => e < b
                BY <1>4, <1>9, <2>1
            <4>2. b < q
                BY <2>2, <3>2, <4>1
            <4>3. PICK e \in E : b < e /\ e < q
                BY <1>4, <2>2, <4>1, <4>2
            <4>4. e \in Nat /\ e < q + 1
                <5>1. e \in Nat /\ e < q /\ q \in Nat
                    BY <1>4, <2>2, <4>3
                <5> QED BY <5>1
            <4> QED BY <4>1, <4>3, <4>4
        <3> QED BY <3>1, <3>2
    <2>8. d.buf = << >> /\ Append(d.buf, win[t.at + 1]) = SubSeq(stream, q + 1, q + 1)
        <3>1. d.buf = << >>
            BY <1>3, <2>4
        <3>2. t.at + 1 \in 1..n
            BY <1>1, <1>13, <1>14
        <3>3. win[t.at + 1] = stream[q + 1]
            BY <1>2, <1>7, <1>13, <1>14, <3>2 DEF q
        <3>4. stream[q + 1] \in Int
            BY <1>2, <2>2, ElementOfSeq
        <3>5. Append(<< >>, stream[q + 1]) = <<stream[q + 1]>>
            BY <3>4
        <3> QED BY <1>2, <2>2, <3>1, <3>3, <3>5, OneSample
    <2>9. /\ d' = [bits |-> d'.bits, silent |-> d'.silent, next |-> d'.next, last |-> d'.last,
                   buf |-> d'.buf, len |-> d'.len, out |-> d'.out]
          /\ d'.out = d.out /\ d'.buf = SubSeq(stream, q + 1, q + 1)
        BY <1>3, <2>1, <2>8
    <2> QED BY <1>1, <1>3, <1>9, <2>1, <2>6, <2>7, <2>9 DEF BurstInv
<1>15. CASE mine # {} /\ ~t.value
    <2> DEFINE q == read + t.at
               packet == IF d.buf = << >> THEN << >> ELSE d.buf \o SubSeq(win, 1, t.at + 1)
    <2>1. /\ d' = [d EXCEPT !.buf = << >>, !.out = Append(d.out, packet)]
          /\ read' = q + 1
        BY <1>1, <1>2, <1>6, <1>13, <1>15 DEF End
    <2>2. /\ q \in E /\ q \in Nat /\ q + 1 \in 1..Len(stream) /\ t.at + 1 \in 0..n
          /\ read + (t.at + 1) = q + 1
        <3>1. t \in mine /\ t.at \in 0..(n - 1) /\ q \in Nat
            BY <1>8, <1>13, <1>15
        <3>2. q \in E
            BY <1>5, <1>15, <3>1
        <3>3. n \in Nat /\ read \in Nat
            BY <1>1, <1>2
        <3>4. q + 1 \in 1..Len(stream)
            BY <1>1, <1>2, <3>1, <3>3
        <3>5. t.at + 1 \in 0..n /\ read + (t.at + 1) = q + 1
            BY <3>1, <3>3
        <3> QED BY <3>1, <3>2, <3>4, <3>5
    <2>3. \A p \in S \cup E : p < q <=> p < read
        BY <1>13, <1>15
    <2> HIDE DEF q, packet
    <2>4. EndsSeen' = EndsSeen \cup {q}
        <3>1. \A p \in E : p < q + 1 <=> (p < read \/ p = q)
            BY <1>4, <2>2, <2>3
        <3> QED BY <1>9, <2>1, <2>2, <3>1
    <2>5. Open' = {}
        <3> SUFFICES ASSUME NEW b \in Open' PROVE FALSE
            OBVIOUS
        <3>1. b \in S /\ b < q + 1 /\ b \in Nat /\ \A e \in E : e < q + 1 => e < b
            BY <1>4, <1>9, <2>1
        <3> QED BY <2>2, <3>1
    <2>6. BeginsAt(graph.tags, q) = Open
        <3>1. \A p : p \in BeginsAt(graph.tags, q) <=>
                    p \in S /\ p < q /\ \A e \in E : e < q => e < p
            BY DEF BeginsAt, S, E
        <3>2. \A p \in BeginsAt(graph.tags, q) : p \in Open
            BY <1>9, <2>3, <3>1
        <3>3. \A p \in Open : p \in BeginsAt(graph.tags, q)
            BY <1>9, <2>3, <3>1
        <3> QED BY <3>2, <3>3
    <2>7. packet = BurstsAt[q]
        <3>1. BurstsAt[q] = IF Open = {} THEN << >> ELSE SubSeq(stream, Min(Open) + 1, q + 1)
            BY <2>2, <2>6 DEF BurstsAt, Burst
        <3>2. CASE Open = {}
            BY <1>3, <3>1, <3>2 DEF packet
        <3>3. ASSUME NEW b \in Open PROVE packet = BurstsAt[q]
            <4>1. Min(Open) = b
                <5>1. Open \subseteq Nat /\ Open # {}
                    BY <1>10, <3>3
                <5>2. Min(Open) \in Open
                    BY <5>1, MinIs
                <5> QED BY <1>11, <5>2
            <4>2. d.buf = SubSeq(stream, b + 1, read) /\ b \in 0..read /\ b < read
                BY <1>3, <1>10
            <4>3. d.buf # << >>
                BY <1>2, <4>2, SliceNotEmpty
            <4>4. d.buf \o SubSeq(win, 1, t.at + 1) = SubSeq(stream, b + 1, read + (t.at + 1))
                <5>1. n \in Nat
                    BY <1>1
                <5> QED BY <1>1, <2>2, <4>2, <5>1, JoinsWindow DEF win
            <4> QED BY <2>2, <3>1, <3>3, <4>1, <4>3, <4>4 DEF packet
        <3> QED BY <3>2, <3>3
    <2>8. Part(BurstsAt, EndsSeen') = Append(Part(BurstsAt, EndsSeen), BurstsAt[q])
        <3>1. \A p \in EndsSeen : p \in Nat /\ p < q
            BY <1>4, <1>9, <2>3
        <3> QED BY <2>2, <2>4, <3>1, PartAdd
    <2>9. /\ d' = [bits |-> d'.bits, silent |-> d'.silent, next |-> d'.next, last |-> d'.last,
                   buf |-> d'.buf, len |-> d'.len, out |-> d'.out]
          /\ d'.out = Append(d.out, packet) /\ d'.buf = << >>
        BY <1>3, <2>1
    <2> QED BY <1>1, <1>3, <1>9, <2>5, <2>7, <2>8, <2>9 DEF BurstInv
<1> QED BY <1>5, <1>8, <1>12, <1>14, <1>15

LEMMA ConsumedIs ==
    ASSUME TypeInv
    PROVE  /\ Consumed \in Seq(Int) /\ Len(Consumed) = read /\ read \in Nat
           /\ \A i \in 1..read : Consumed[i] = stream[i]
<1>1. /\ stream \in Seq(Int) /\ read \in 0..Len(stream) /\ Len(stream) \in Nat
    BY LenProperties DEF TypeInv
<1>2. \A i \in 1..read : stream[i] \in Int
    BY <1>1, ElementOfSeq
<1>3. /\ Consumed \in Seq(Int) /\ Len(Consumed) = IF 1 <= read THEN read - 1 + 1 ELSE 0
      /\ \A i \in 1..(read - 1 + 1) : Consumed[i] = stream[1 + i - 1]
    BY <1>1, <1>2, SubSeqProperties DEF Consumed
<1>4. read - 1 + 1 = read /\ \A i \in Int : 1 + i - 1 = i
    BY <1>1
<1> QED BY <1>1, <1>3, <1>4

LEMMA BurstsFollow ==
    ASSUME TypeInv, BurstInv
    PROVE  BurstsPublished
<1> SUFFICES ASSUME graph.sink = "packetize_burst", TakeTurns(graph.tags)
             PROVE  d.out = BurstPackets(Consumed, Past)
    BY DEF BurstsPublished
<1>1. d.out = Part(BurstsAt, EndsSeen)
    BY DEF BurstInv
<1>2. graph \in Graphs /\ read \in Nat
    BY DEF TypeInv
<1>3. /\ \A p : p \in StartsAt(Past) <=> p \in StartsAt(graph.tags) /\ p < read
      /\ \A p : p \in EndsAt(Past) <=> p \in EndsAt(graph.tags) /\ p < read
    BY DEF StartsAt, EndsAt, Keyed, Past
<1>4. EndsAt(Past) = EndsSeen
    BY <1>3 DEF EndsSeen
<1>5. \A e \in EndsSeen : e \in Nat /\ e < read /\ e <= read
    BY <1>2, BurstTags DEF EndsSeen
<1>6. ASSUME NEW e \in EndsSeen PROVE Burst(Consumed, Past, e) = BurstsAt[e]
    <2> DEFINE B == BeginsAt(graph.tags, e)
    <2>0. e \in Nat /\ e < read /\ e + 1 \in Int /\ e + 1 <= read
        BY <1>2, <1>5
    <2>1. \A p \in StartsAt(graph.tags) \cup EndsAt(graph.tags) : p \in Nat
        BY <1>2, BurstTags
    <2>2. BeginsAt(Past, e) = B
        <3>1. \A p \in StartsAt(graph.tags) \cup EndsAt(graph.tags) : p < e => p < read
            BY <1>2, <2>0, <2>1
        <3>2. \A p \in BeginsAt(Past, e) : p \in B
            BY <1>3, <3>1 DEF BeginsAt
        <3>3. \A p \in B : p \in BeginsAt(Past, e)
            BY <1>3, <3>1 DEF BeginsAt
        <3> QED BY <3>2, <3>3
    <2>3. B # {} => Min(B) \in Nat
        <3>1. B \subseteq Nat
            BY <2>1 DEF BeginsAt
        <3> QED BY <3>1, MinIs
    <2>4. /\ BurstsAt[e] = IF B = {} THEN << >> ELSE SubSeq(stream, Min(B) + 1, e + 1)
          /\ Burst(Consumed, Past, e) =
                IF B = {} THEN << >> ELSE SubSeq(Consumed, Min(B) + 1, e + 1)
        BY <2>0, <2>2 DEF BurstsAt, Burst
    <2> HIDE DEF B
    <2>5. ASSUME NEW m \in Nat
          PROVE  SubSeq(Consumed, m + 1, e + 1) = SubSeq(stream, m + 1, e + 1)
        <3>1. \A i \in (m + 1)..(e + 1) : Consumed[i] = stream[i]
            <4> TAKE i \in (m + 1)..(e + 1)
            <4>1. i \in 1..read
                BY <1>2, <2>0
            <4> QED BY <4>1, ConsumedIs
        <3>2. m + 1 \in Int /\ e + 1 \in Int
            BY <2>0
        <3> QED BY <3>1, <3>2, SubSeqSame
    <2> QED BY <2>3, <2>4, <2>5
<1> DEFINE at == InOrder(EndsSeen)
<1>7. \A i \in DOMAIN at : at[i] \in EndsSeen
    BY <1>2, <1>5, InOrderIs
<1>8. /\ BurstPackets(Consumed, Past) = [i \in DOMAIN at |-> Burst(Consumed, Past, at[i])]
      /\ Part(BurstsAt, EndsSeen) = [i \in DOMAIN at |-> BurstsAt[at[i]]]
    BY <1>4 DEF BurstPackets, Part
<1> HIDE DEF at
<1>9. \A i \in DOMAIN at : Burst(Consumed, Past, at[i]) = BurstsAt[at[i]]
    BY <1>6, <1>7
<1> QED BY <1>1, <1>8, <1>9

LEMMA BurstNext ==
    ASSUME TypeInv, BurstInv, [Next]_vars
    PROVE  BurstInv'
<1>1. TypeInv' /\ UNCHANGED graph
    BY StepIs
<1>2. CASE UNCHANGED <<read, d, alone>> /\ Longer
    BY <1>1, <1>2, BurstLonger
<1>3. ASSUME NEW n \in graph.windows, Calls(n) PROVE BurstInv'
    <2>1. CASE graph.sink = "packetize_burst"
        BY <1>3, <2>1, OwnCall, BurstStep
    <2>2. CASE graph.sink # "packetize_burst"
        BY <1>1, <2>2 DEF BurstInv
    <2> QED BY <2>1, <2>2
<1> QED BY <1>2, <1>3, StepIs

LEMMA VectorNext ==
    ASSUME TypeInv, VectorInv, [Next]_vars
    PROVE  VectorInv'
<1>1. TypeInv' /\ UNCHANGED graph
    BY StepIs
<1>2. CASE UNCHANGED <<read, d, alone>> /\ Longer
    BY <1>1, <1>2, VectorLonger
<1>3. ASSUME NEW n \in graph.windows, Calls(n) PROVE VectorInv'
    <2>1. CASE graph.sink = "prototype_tagged_stream_to_vector"
        BY <1>3, <2>1, OwnCall, VectorStep
    <2>2. CASE graph.sink # "prototype_tagged_stream_to_vector"
        BY <1>1, <2>2 DEF VectorInv
    <2> QED BY <2>1, <2>2
<1> QED BY <1>2, <1>3, StepIs

(* packetize_burst: for every flow graph, signal and cut of the signal into *)
(* calls of work(), the PDUs are the bursts, if starts and ends take turns. *)
THEOREM BurstsAlwaysPublished == Spec => []BurstsPublished
<1>1. Init => TypeInv /\ BurstInv
    BY TypeInit, BurstInit
<1>2. TypeInv /\ BurstInv /\ [Next]_vars => (TypeInv /\ BurstInv)'
    BY TypeNext, BurstNext
<1>3. TypeInv /\ BurstInv => BurstsPublished
    BY BurstsFollow
<1> QED BY <1>1, <1>2, <1>3, PTL DEF Spec

-----------------------------------------------------------------------------
(* tagged_stream_to_large_pdu_f                                            *)

LengthTags == Keyed(graph.tags, "length")
TagAt(p) == CHOOSE t \in LengthTags : t.at = p
Spans == [p \in Nat |-> SubSeq(stream, p + 1, p + TagAt(p).value)]
(* Where the packets begin that were passed whole.                         *)
Whole == {t.at : t \in {u \in LengthTags : u.at + u.value <= read}}

NonEmpty(out) == {i \in DOMAIN out : out[i] # << >>}
Got(out) == Part(out, NonEmpty(out))

(* Of which some are put out, all while no call saw two at once.  A packet *)
(* is read into buffer_ from its tag on, and outside a packet all tags     *)
(* passed are of whole packets, again unless a call saw two at once.       *)
LargeInv ==
    graph.sink = "tagged_stream_to_large_pdu_f" /\ Apart(graph.tags) =>
        /\ d = [bits |-> d.bits, silent |-> d.silent, next |-> d.next, last |-> d.last,
                buf |-> d.buf, len |-> d.len, out |-> d.out]
        /\ d.out \in Seq(Seq(Int))
        /\ \E K \in SUBSET Whole : Got(d.out) = Part(Spans, K) /\ (alone => K = Whole)
        /\ d.len = 0 => d.buf = << >>
        /\ d.len # 0 =>
              \E t \in LengthTags :
                 /\ t.value = d.len /\ t.at <= read /\ read < t.at + t.value
                 /\ d.buf = SubSeq(stream, t.at + 1, read)
        /\ alone /\ d.len = 0 =>
              \A t \in LengthTags : t.at < read => t.at + t.value <= read

LEMMA LengthsAre ==
    ASSUME TypeInv, Apart(graph.tags)
    PROVE  /\ \A t \in LengthTags : t.at \in Nat /\ t.value \in Nat \ {0}
           /\ \A t, u \in LengthTags :
                 t # u => t.at + t.value <= u.at \/ u.at + u.value <= t.at
           /\ \A t, u \in LengthTags : t.at = u.at => t = u
           /\ \A t \in LengthTags : TagAt(t.at) = t /\ Spans[t.at] = SubSeq(stream, t.at + 1, t.at + t.value)
<1>1. /\ \A t \in LengthTags : t.at \in Nat /\ t.value \in Nat
      /\ \A t, u \in LengthTags :
            t.value > 0 /\ (t # u => t.at + t.value <= u.at \/ u.at + u.value <= t.at)
    BY GraphIs DEF TypeInv, LengthTags, Keyed, IsTag, Apart
<1>2. \A t \in LengthTags : t.value \in Nat \ {0}
    BY <1>1
<1>3. \A t, u \in LengthTags : t.at = u.at => t = u
    <2> SUFFICES ASSUME NEW t \in LengthTags, NEW u \in LengthTags, t.at = u.at, t # u
                 PROVE  FALSE
        OBVIOUS
    <2>1. t.at + t.value <= u.at \/ u.at + u.value <= t.at
        BY <1>1
    <2> QED BY <1>1, <1>2, <2>1
<1>4. ASSUME NEW t \in LengthTags
      PROVE  TagAt(t.at) = t /\ Spans[t.at] = SubSeq(stream, t.at + 1, t.at + t.value)
    <2>1. TagAt(t.at) = t
        BY <1>3 DEF TagAt
    <2> QED BY <1>1, <2>1 DEF Spans
<1> QED BY <1>1, <1>2, <1>3, <1>4

LEMMA WholeIs ==
    ASSUME TypeInv, Apart(graph.tags)
    PROVE  \A p \in Whole :
              /\ p \in Nat /\ p < read /\ p <= read
              /\ \E t \in LengthTags : t.at = p /\ t.at + t.value <= read
<1>1. read \in Nat
    BY DEF TypeInv
<1> QED BY <1>1, LengthsAre DEF Whole

LEMMA GotAppend ==
    ASSUME NEW out \in Seq(Seq(Int)), NEW x \in Seq(Int)
    PROVE  Got(Append(out, x)) = IF x = << >> THEN Got(out) ELSE Append(Got(out), x)
<1> DEFINE m == Len(out) + 1
           a == Append(out, x)
           N == NonEmpty(out)
<1>1. /\ Len(out) \in Nat /\ DOMAIN out = 1..Len(out) /\ m \in Nat
    BY LenProperties
<1>2. /\ a \in Seq(Seq(Int)) /\ Len(a) = m /\ a[m] = x
      /\ \A i \in 1..Len(out) : a[i] = out[i]
    BY AppendProperties
<1>3. DOMAIN a = 1..m
    BY <1>2, LenProperties
<1> HIDE DEF a
<1>4. NonEmpty(a) = IF x = << >> THEN N ELSE N \cup {m}
    <2>1. \A i : i \in 1..m <=> (i \in 1..Len(out) \/ i = m)
        BY <1>1
    <2> QED BY <1>1, <1>2, <1>3, <2>1 DEF NonEmpty
<1>5. \A i \in N : i \in Nat /\ i < m /\ i <= m /\ a[i] = out[i]
    BY <1>1, <1>2 DEF NonEmpty
<1> HIDE DEF N, m
<1>6. Part(a, N) = Part(out, N)
    BY <1>1, <1>5, PartSame
<1>7. Part(a, N \cup {m}) = Append(Part(a, N), x)
    <2>1. Part(a, N \cup {m}) = Append(Part(a, N), a[m])
        BY <1>1, <1>5, PartAdd
    <2> QED BY <1>2, <2>1
<1> QED BY <1>4, <1>6, <1>7 DEF Got, a, N

LEMMA LargeInit == Init => LargeInv
<1> SUFFICES ASSUME Init, Apart(graph.tags) PROVE LargeInv
    BY DEF LargeInv
<1>1. TypeInv /\ read = 0
    BY TypeInit DEF Init
<1>2. Whole = {}
    <2> SUFFICES ASSUME NEW p \in Whole PROVE FALSE
        OBVIOUS
    <2> QED BY <1>1, WholeIs
<1>3. d = [bits |-> << >>, silent |-> 0, next |-> -1, last |-> 0,
           buf |-> << >>, len |-> 0, out |-> << >>]
    BY DEF Init
<1>4. << >> \in Seq(Seq(Int)) /\ DOMAIN << >> = {}
    BY EmptySeq
<1>5. NonEmpty(<< >>) = {}
    BY <1>4 DEF NonEmpty
<1>6. Got(<< >>) = Part(Spans, {})
    BY <1>5, PartEmpty DEF Got
<1>7. \A t \in LengthTags : ~(t.at < read)
    BY <1>1, LengthsAre
<1> QED BY <1>2, <1>3, <1>4, <1>6, <1>7 DEF LargeInv

LEMMA LargeLonger ==
    ASSUME TypeInv, LargeInv, TypeInv', UNCHANGED <<graph, read, d, alone>>, Longer
    PROVE  LargeInv'
<1> SUFFICES ASSUME graph.sink = "tagged_stream_to_large_pdu_f", Apart(graph.tags)
             PROVE  LargeInv'
    BY DEF LargeInv
<1>1. LengthTags' = LengthTags /\ Whole' = Whole
    BY DEF LengthTags, Whole
<1>2. stream \in Seq(Int) /\ Len(stream) \in Nat /\ read \in 0..Len(stream)
    BY LenProperties DEF TypeInv
<1>3. ASSUME NEW b \in Nat, NEW m \in Int, m <= read
      PROVE  SubSeq(stream, b + 1, m) = SubSeq(stream', b + 1, m)
    <2>1. \A i \in (b + 1)..m : stream[i] = stream'[i]
        <3> TAKE i \in (b + 1)..m
        <3>1. i \in 1..Len(stream)
            BY <1>2, <1>3
        <3> QED BY <3>1 DEF Longer
    <2>2. b + 1 \in Int
        OBVIOUS
    <2> QED BY <2>1, <2>2, SubSeqSame
<1>4. ASSUME NEW p \in Whole PROVE Spans[p] = Spans'[p]
    <2>1. PICK t \in LengthTags : t.at = p /\ t.at + t.value <= read
        BY WholeIs
    <2>2. p \in Nat /\ TagAt(p) = t /\ t.value \in Nat
        BY <2>1, LengthsAre
    <2>3. TagAt(p)' = TagAt(p)
        BY <1>1 DEF TagAt
    <2>4. /\ Spans[p] = SubSeq(stream, p + 1, p + t.value)
          /\ Spans'[p] = SubSeq(stream', p + 1, p + t.value)
        BY <2>2, <2>3 DEF Spans
    <2>5. p + t.value \in Int /\ p + t.value <= read
        BY <2>1, <2>2
    <2> QED BY <1>3, <2>2, <2>4, <2>5
<1>5. ASSUME NEW K \in SUBSET Whole PROVE Part(Spans, K) = Part(Spans', K)
    <2>1. read \in Nat /\ \A p \in K : p \in Nat /\ p <= read
        BY <1>2, WholeIs
    <2>2. \A p \in K : Spans[p] = Spans'[p]
        BY <1>4
    <2> QED BY <2>1, <2>2, PartSame
<1>6. ASSUME NEW t \in LengthTags
      PROVE  SubSeq(stream, t.at + 1, read) = SubSeq(stream', t.at + 1, read)
    <2>1. t.at \in Nat /\ read \in Int /\ read <= read
        BY <1>2, LengthsAre
    <2> QED BY <1>3, <2>1
<1>7. \E K \in SUBSET Whole : Got(d.out) = Part(Spans', K) /\ (alone => K = Whole)
    BY <1>5 DEF LargeInv
<1> QED BY <1>1, <1>6, <1>7 DEF LargeInv

LEMMA TouchedOne ==
    ASSUME TypeInv, Apart(graph.tags), NEW n \in Nat, Cardinality(Touched(n)) <= 1
    PROVE  \A t, u \in LengthTags :
              (/\ t.at < read + n /\ read < t.at + t.value
               /\ u.at < read + n /\ read < u.at + u.value) => t = u
<1> DEFINE T == Touched(n)
           m == read + n
           f == [t \in T |-> t.at]
<1>1. read \in Nat /\ m \in Nat
    BY DEF TypeInv
<1>2. /\ \A t \in LengthTags : t.at \in Nat /\ t.value \in Nat
      /\ \A t, u \in LengthTags : t.at = u.at => t = u
    BY LengthsAre
<1>3. T = {t \in LengthTags : t.at < m /\ read < t.at + t.value}
    <2>1. T = {t \in LengthTags : t.at < m /\ t.at + t.value > read}
        BY DEF Touched, LengthTags
    <2>2. \A t \in LengthTags : t.at + t.value > read <=> read < t.at + t.value
        BY <1>1, <1>2
    <2> QED BY <2>1, <2>2
<1> HIDE DEF T, m
<1>4. f \in Injection(T, 0..m)
    <2>1. f \in [T -> 0..m]
        BY <1>1, <1>2, <1>3
    <2>2. \A a, b \in T : f[a] = f[b] => a = b
        BY <1>2, <1>3
    <2> QED BY <2>1, <2>2 DEF Injection, IsInjective
<1>5. IsFiniteSet(T)
    <2>1. IsFiniteSet(0..m)
        BY <1>1, FS_Interval
    <2> QED BY <1>4, <2>1, FS_Injection
<1>6. Cardinality(T) \in Nat /\ Cardinality(T) <= 1
    BY <1>5, FS_CardinalityType DEF T
<1>7. CASE Cardinality(T) = 0
    <2>1. T = {}
        BY <1>5, <1>7, FS_EmptySet
    <2> QED BY <1>3, <2>1 DEF m
<1>8. CASE Cardinality(T) = 1
    <2>1. PICK x : T = {x}
        BY <1>5, <1>8, FS_Singleton
    <2> QED BY <1>3, <2>1 DEF m
<1> QED BY <1>6, <1>7, <1>8

(* A call inside a packet: its rest, or as much of it as there is.         *)
LEMMA ReadsPacket ==
    ASSUME TypeInv, NEW n \in Nat \ {0}, read + n <= Len(stream),
           NEW t, t.at \in Nat, t.value \in Nat, t.at <= read, read < t.at + t.value,
           NEW e, e.buf = SubSeq(stream, t.at + 1, read), e.len = t.value
    PROVE  ReadOn(e, Offered(n)) =
              [d |-> IF t.at + t.value <= read + n
                     THEN [e EXCEPT !.buf = << >>, !.len = 0,
                                    !.out = Append(@, SubSeq(stream, t.at + 1, t.at + t.value))]
                     ELSE [e EXCEPT !.buf = SubSeq(stream, t.at + 1, read + n)],
               ate |-> n]
<1> DEFINE m == ToRead(e, Offered(n))
           left == t.at + t.value - read
           buf == e.buf \o SubSeq(Offered(n), 1, m)
           x == SubSeq(stream, t.at + 1, t.at + t.value)
<1> HIDE DEF m, left, buf, x
<1>1. stream \in Seq(Int) /\ Len(stream) \in Nat /\ read \in 0..Len(stream)
    BY LenProperties DEF TypeInv
<1>2. Len(Offered(n)) = n /\ n \in Nat
    BY <1>1, OfferedIs
<1>3. ASSUME NEW k \in Int, t.at <= k, k <= Len(stream)
      PROVE  Len(SubSeq(stream, t.at + 1, k)) = k - t.at
    <2>1. \A i \in (t.at + 1)..k : stream[i] \in Int
        BY <1>1, <1>3, ElementOfSeq
    <2>2. Len(SubSeq(stream, t.at + 1, k)) =
              IF t.at + 1 <= k THEN k - (t.at + 1) + 1 ELSE 0
        BY <1>3, <2>1, SubSeqProperties
    <2> QED BY <1>3, <2>2
<1>4. Len(e.buf) = read - t.at
    <2>1. read \in Int /\ read <= Len(stream)
        BY <1>1
    <2> QED BY <1>3, <2>1
<1>5. left \in Nat /\ (n < left <=> ~(t.at + t.value <= read + n))
    BY <1>1, <1>2 DEF left
<1>6. m = IF n <= left THEN n ELSE left
    <2>1. e.len - Len(e.buf) = left
        BY <1>1, <1>4 DEF left
    <2>2. m = Min({n, left})
        BY <1>2, <2>1 DEF ToRead, m
    <2> QED BY <1>2, <1>5, <2>2, MinOfTwo
<1>7. m \in 0..n /\ m \in Nat /\ read + m <= Len(stream)
    BY <1>1, <1>2, <1>5, <1>6
<1>8. buf = SubSeq(stream, t.at + 1, read + m)
    <2>1. t.at \in 0..read
        BY <1>1
    <2> QED BY <1>2, <1>7, <2>1, JoinsWindow DEF buf
<1>9. Len(buf) = (read + m) - t.at
    <2>1. PICK k \in Int : k = read + m
        BY <1>1, <1>7
    <2>2. t.at <= k /\ k <= Len(stream)
        BY <1>1, <1>7, <2>1
    <2>3. Len(SubSeq(stream, t.at + 1, k)) = k - t.at
        BY <1>3, <2>2
    <2>4. Len(buf) = Len(SubSeq(stream, t.at + 1, k))
        BY <1>8, <2>1, Zenon
    <2>5. Len(buf) = k - t.at
        BY <2>3, <2>4, Zenon
    <2> QED BY <2>1, <2>5, Zenon
<1>10. Len(buf) = e.len <=> m = left
    <2>1. ASSUME NEW a \in Nat, NEW b \in Nat, NEW k \in Nat, NEW v \in Nat
          PROVE  (a + k) - b = v <=> k = b + v - a
        OBVIOUS
    <2>2. read \in Nat
        BY <1>1
    <2> QED BY <1>7, <1>9, <2>1, <2>2 DEF left
<1>11. ReadOn(e, Offered(n)) =
          [d |-> IF Len(buf) = e.len
                 THEN [e EXCEPT !.buf = << >>, !.len = 0, !.out = Append(@, buf)]
                 ELSE [e EXCEPT !.buf = buf],
           ate |-> n]
    BY <1>2 DEF ReadOn, buf, m
<1>12. CASE n < left
    <2>1. m = n /\ m # left
        BY <1>2, <1>5, <1>6, <1>12
    <2>2. buf = SubSeq(stream, t.at + 1, read + n)
        BY <1>8, <2>1
    <2>3. Len(buf) # e.len
        BY <1>10, <2>1
    <2> QED BY <1>5, <1>11, <1>12, <2>2, <2>3
<1>13. CASE ~(n < left)
    <2>1. m = left
        BY <1>2, <1>5, <1>6, <1>13
    <2>2. read + m = t.at + t.value
        BY <1>1, <2>1 DEF left
    <2>3. buf = x
        BY <1>8, <2>2 DEF x
    <2>4. Len(buf) = e.len
        BY <1>10, <2>1
    <2> QED BY <1>5, <1>11, <1>13, <2>3, <2>4 DEF x
<1> QED BY <1>12, <1>13

(* ... keeps the invariant: the packet at hand goes out behind those       *)
(* before it, and if the call saw no other, no other was missed.           *)
LEMMA LargeReads ==
    ASSUME TypeInv, LargeInv, TypeInv', UNCHANGED <<graph, stream>>,
           graph.sink = "tagged_stream_to_large_pdu_f", Apart(graph.tags),
           NEW n \in Nat \ {0}, read + n <= Len(stream), read' = read + n,
           alone' = (alone /\ Cardinality(Touched(n)) <= 1),
           NEW t \in LengthTags, t.at <= read, read < t.at + t.value,
           d' = IF t.at + t.value <= read + n
                THEN [d EXCEPT !.buf = << >>, !.len = 0,
                               !.out = Append(@, SubSeq(stream, t.at + 1, t.at + t.value))]
                ELSE [d EXCEPT !.len = t.value, !.buf = SubSeq(stream, t.at + 1, read + n)]
    PROVE  LargeInv'
<1>1. LengthTags' = LengthTags /\ Spans' = Spans
    BY DEF LengthTags, Spans, TagAt
<1>2. /\ read \in 0..Len(stream) /\ Len(stream) \in Nat /\ stream \in Seq(Int)
      /\ t.at \in Nat /\ t.value \in Nat \ {0}
    BY LenProperties, LengthsAre DEF TypeInv
<1>3. /\ \A u \in LengthTags : u.at \in Nat /\ u.value \in Nat \ {0}
      /\ \A u, v \in LengthTags : u # v => u.at + u.value <= v.at \/ v.at + v.value <= u.at
    BY LengthsAre
<1>4. /\ d = [bits |-> d.bits, silent |-> d.silent, next |-> d.next, last |-> d.last,
              buf |-> d.buf, len |-> d.len, out |-> d.out]
      /\ d.out \in Seq(Seq(Int))
    BY DEF LargeInv
<1>5. PICK K \in SUBSET Whole : Got(d.out) = Part(Spans, K) /\ (alone => K = Whole)
    BY DEF LargeInv
<1>6. /\ \A p : p \in Whole <=> \E u \in LengthTags : u.at = p /\ u.at + u.value <= read
      /\ \A p : p \in Whole' <=> \E u \in LengthTags : u.at = p /\ u.at + u.value <= read + n
    BY <1>1 DEF Whole
<1>7. Whole \subseteq Whole'
    <2>1. \A u \in LengthTags : u.at + u.value <= read => u.at + u.value <= read + n
        BY <1>2, <1>3
    <2> QED BY <1>6, <2>1
(* If the call saw only this packet, it passed the end of no other.        *)
<1>8. ASSUME alone', NEW u \in LengthTags, u # t, u.at < read + n
      PROVE  u.at + u.value <= read
    <2>1. Cardinality(Touched(n)) <= 1
        BY <1>8
    <2>2. t.at < read + n
        BY <1>2
    <2>3. ~(read < u.at + u.value)
        BY <1>8, <2>1, <2>2, TouchedOne
    <2> QED BY <1>2, <1>3, <2>3
<1>9. ASSUME alone', NEW p \in Whole', p # t.at PROVE p \in Whole
    <2>1. PICK u \in LengthTags : u.at = p /\ u.at + u.value <= read + n
        BY <1>6
    <2>2. u # t /\ u.at < read + n
        BY <1>2, <1>3, <1>9, <2>1
    <2>3. u.at + u.value <= read
        BY <1>8, <1>9, <2>2
    <2> QED BY <1>6, <2>1, <2>3
<1>10. CASE t.at + t.value <= read + n
    <2> DEFINE x == SubSeq(stream, t.at + 1, t.at + t.value)
    <2>1. /\ d' = [bits |-> d'.bits, silent |-> d'.silent, next |-> d'.next, last |-> d'.last,
                   buf |-> d'.buf, len |-> d'.len, out |-> d'.out]
          /\ d'.out = Append(d.out, x) /\ d'.buf = << >> /\ d'.len = 0
        BY <1>4, <1>10
    <2>2. x \in Seq(Int) /\ x # << >>
        <3>1. /\ t.at \in 0..(t.at + t.value) /\ t.at + t.value \in 0..Len(stream)
              /\ t.at < t.at + t.value
            BY <1>2, <1>10
        <3>2. \A i \in (t.at + 1)..(t.at + t.value) : stream[i] \in Int
            BY <1>2, <3>1, ElementOfSeq
        <3>3. x \in Seq(Int)
            BY <1>2, <3>2, SubSeqProperties
        <3> QED BY <1>2, <3>1, <3>3, SliceNotEmpty
    <2>3. Spans[t.at] = x
        BY LengthsAre
    <2> HIDE DEF x
    <2>4. Got(d'.out) = Append(Part(Spans, K), Spans[t.at]) /\ d'.out \in Seq(Seq(Int))
        <3>1. Got(Append(d.out, x)) = Append(Got(d.out), x)
            BY <1>4, <2>2, GotAppend
        <3>2. Append(d.out, x) \in Seq(Seq(Int))
            BY <1>4, <2>2, AppendProperties
        <3> QED BY <1>5, <2>1, <2>3, <3>1, <3>2
    <2>5. \A p \in K : p \in Nat /\ p < t.at
        <3> TAKE p \in K
        <3>1. PICK u \in LengthTags : u.at = p /\ u.at + u.value <= read
            BY <1>6
        <3>2. u # t
            BY <1>2, <3>1
        <3>3. u.at + u.value <= t.at \/ t.at + t.value <= u.at
            BY <1>3, <3>2
        <3> QED BY <1>2, <1>3, <3>1, <3>3
    <2>6. Part(Spans, K \cup {t.at}) = Append(Part(Spans, K), Spans[t.at])
        BY <1>2, <2>5, PartAdd
    <2>7. t.at \in Whole'
        BY <1>6, <1>10
    <2>8. K \cup {t.at} \in SUBSET Whole' /\ (alone' => K \cup {t.at} = Whole')
        <3>1. K \cup {t.at} \subseteq Whole'
            BY <1>7, <2>7
        <3>2. ASSUME alone' PROVE Whole' \subseteq K \cup {t.at}
            BY <1>5, <1>9, <3>2
        <3> QED BY <3>1, <3>2
    <2>9. \E L \in SUBSET Whole' : Got(d'.out) = Part(Spans', L) /\ (alone' => L = Whole')
        BY <1>1, <2>4, <2>6, <2>8
    <2>10. alone' => \A u \in LengthTags : u.at < read + n => u.at + u.value <= read + n
        <3> SUFFICES ASSUME alone', NEW u \in LengthTags, u.at < read + n
                     PROVE  u.at + u.value <= read + n
            OBVIOUS
        <3>1. CASE u = t
            BY <1>10, <3>1
        <3>2. CASE u # t
            BY <1>2, <1>3, <1>8, <3>2
        <3> QED BY <3>1, <3>2
    <2> QED BY <1>1, <2>1, <2>4, <2>9, <2>10 DEF LargeInv
<1>11. CASE ~(t.at + t.value <= read + n)
    <2>1. /\ d' = [bits |-> d'.bits, silent |-> d'.silent, next |-> d'.next, last |-> d'.last,
                   buf |-> d'.buf, len |-> d'.len, out |-> d'.out]
          /\ d'.out = d.out /\ d'.buf = SubSeq(stream, t.at + 1, read + n) /\ d'.len = t.value
        BY <1>4, <1>11
    <2>2. alone' => Whole' = Whole
        <3> SUFFICES ASSUME alone', NEW p \in Whole' PROVE p \in Whole
            BY <1>7
        <3>1. PICK u \in LengthTags : u.at = p /\ u.at + u.value <= read + n
            BY <1>6
        <3>2. p # t.at
            BY <1>11, <3>1, LengthsAre
        <3> QED BY <1>9, <3>2
    <2>3. \E L \in SUBSET Whole' : Got(d'.out) = Part(Spans', L) /\ (alone' => L = Whole')
        BY <1>1, <1>5, <1>7, <2>1, <2>2
    <2>4. t.at <= read + n /\ read + n < t.at + t.value /\ d'.len # 0
        BY <1>2, <1>11, <2>1
    <2> QED BY <1>1, <1>4, <2>1, <2>3, <2>4 DEF LargeInv
<1> QED BY <1>10, <1>11

(* Outside a packet, the tags handed are those of the packets that begin   *)
(* in the window.                                                          *)
LEMMA HandedTags ==
    ASSUME TypeInv, NEW n \in Nat
    PROVE  /\ \A u \in LengthTags :
                 (read <= u.at /\ u.at < read + n) =>
                     \E x \in Keyed(Tagged(n), "length") : x.at = u.at - read
           /\ \A x \in Keyed(Tagged(n), "length") :
                 /\ x.at \in 0..(n - 1)
                 /\ \E u \in LengthTags : u.at = read + x.at /\ u.value = x.value
<1>1. /\ \A x \in Tagged(n) :
             /\ x.at \in 0..(n - 1)
             /\ \E u \in graph.tags :
                   u.at = read + x.at /\ u.key = x.key /\ u.value = x.value
      /\ \A u \in graph.tags :
             u.at \in read..(read + n - 1) =>
                \E x \in Tagged(n) :
                   x.at = u.at - read /\ x.key = u.key /\ x.value = u.value
      /\ \A u \in graph.tags : u.at \in Nat
      /\ read \in Nat
    BY SeenIs
<1>2. /\ \A x : x \in Keyed(Tagged(n), "length") <=> x \in Tagged(n) /\ x.key = "length"
      /\ \A u : u \in LengthTags <=> u \in graph.tags /\ u.key = "length"
    BY DEF Keyed, LengthTags
<1>3. \A u \in graph.tags : (read <= u.at /\ u.at < read + n) => u.at \in read..(read + n - 1)
    BY <1>1
<1> QED BY <1>1, <1>2, <1>3

(* A call that puts out no packet and passes the end of none that began    *)
(* in its window.                                                          *)
LEMMA NothingPut ==
    ASSUME TypeInv, LargeInv, UNCHANGED <<graph, stream>>,
           graph.sink = "tagged_stream_to_large_pdu_f", Apart(graph.tags),
           NEW k \in Nat, read' = read + k, d.len = 0, alone' => alone,
           Got(d'.out) = Got(d.out),
           alone' => \A u \in LengthTags : read <= u.at => ~(u.at + u.value <= read + k)
    PROVE  /\ \E L \in SUBSET Whole' : Got(d'.out) = Part(Spans', L) /\ (alone' => L = Whole')
           /\ alone' => \A u \in LengthTags : u.at < read => u.at + u.value <= read + k
<1>1. LengthTags' = LengthTags /\ Spans' = Spans
    BY DEF LengthTags, Spans, TagAt
<1>2. read \in Nat /\ \A u \in LengthTags : u.at \in Nat /\ u.value \in Nat
    BY LengthsAre DEF TypeInv
<1>3. PICK K \in SUBSET Whole : Got(d.out) = Part(Spans, K) /\ (alone => K = Whole)
    BY DEF LargeInv
<1>4. /\ \A p : p \in Whole <=> \E u \in LengthTags : u.at = p /\ u.at + u.value <= read
      /\ \A p : p \in Whole' <=> \E u \in LengthTags : u.at = p /\ u.at + u.value <= read + k
    BY <1>1 DEF Whole
<1>5. \A u \in LengthTags : u.at + u.value <= read => u.at + u.value <= read + k
    BY <1>2
<1>6. Whole \subseteq Whole'
    BY <1>4, <1>5
<1>7. alone' => \A u \in LengthTags : u.at < read => u.at + u.value <= read
    BY DEF LargeInv
<1>8. alone' => Whole' \subseteq Whole
    <2> SUFFICES ASSUME alone', NEW u \in LengthTags, u.at + u.value <= read + k
                 PROVE  u.at + u.value <= read
        BY <1>4
    <2>1. u.at < read
        BY <1>2
    <2> QED BY <1>7, <2>1
<1>9. \E L \in SUBSET Whole' : Got(d'.out) = Part(Spans', L) /\ (alone' => L = Whole')
    BY <1>1, <1>3, <1>6, <1>8
<1> QED BY <1>5, <1>7, <1>9

LEMMA LargeStep ==
    ASSUME TypeInv, LargeInv, NEW n \in graph.windows, LargePduWork(n)
    PROVE  LargeInv'
<1> DEFINE win == Offered(n)
           tags == Keyed(Tagged(n), "length")
           r == LargePdu(d, win, Tagged(n))
<1>1. /\ UNCHANGED <<graph, stream>> /\ n \in Nat \ {0} /\ n \in Nat
      /\ read + n <= Len(stream)
      /\ d' = r.d /\ read' = read + r.ate /\ TypeInv'
      /\ alone' = (alone /\ Cardinality(Touched(n)) <= 1)
      /\ graph.sink = "tagged_stream_to_large_pdu_f"
    BY LargeWorkIs DEF SinkCall
<1> SUFFICES ASSUME Apart(graph.tags) PROVE LargeInv'
    BY <1>1 DEF LargeInv
<1>2. /\ read \in Nat /\ read \in 0..Len(stream)
      /\ stream \in Seq(Int) /\ Len(stream) \in Nat
    BY LenProperties DEF TypeInv
<1>3. /\ \A u \in LengthTags : u.at \in Nat /\ u.value \in Nat \ {0}
    BY LengthsAre
<1>4. /\ d = [bits |-> d.bits, silent |-> d.silent, next |-> d.next, last |-> d.last,
              buf |-> d.buf, len |-> d.len, out |-> d.out]
      /\ d.out \in Seq(Seq(Int)) /\ (d.len = 0 => d.buf = << >>)
    BY <1>1 DEF LargeInv
<1>5. LengthTags' = LengthTags
    BY <1>1 DEF LengthTags
<1>6. /\ \A u \in LengthTags :
            (read <= u.at /\ u.at < read + n) => \E x \in tags : x.at = u.at - read
      /\ \A x \in tags : /\ x.at \in 0..(n - 1)
                         /\ \E u \in LengthTags : u.at = read + x.at /\ u.value = x.value
    BY <1>1, HandedTags
<1>7. ASSUME NEW p \in 0..Len(stream)
      PROVE  SubSeq(stream, p + 1, p) = << >>
    <2>1. \A i \in (p + 1)..p : stream[i] \in Int
        OBVIOUS
    <2>2. /\ SubSeq(stream, p + 1, p) \in Seq(Int)
          /\ Len(SubSeq(stream, p + 1, p)) = IF p + 1 <= p THEN p - (p + 1) + 1 ELSE 0
        BY <2>1, SubSeqProperties
    <2> QED BY <2>2, EmptySeq
(* A call inside a packet, or at its tag.                                  *)
<1>8. ASSUME NEW t \in LengthTags, t.at <= read, read < t.at + t.value,
             d.buf = SubSeq(stream, t.at + 1, read),
             r = ReadOn([d EXCEPT !.len = t.value], win)
      PROVE  LargeInv'
    <2> DEFINE e == [d EXCEPT !.len = t.value]
    <2>1. /\ e = [bits |-> d.bits, silent |-> d.silent, next |-> d.next, last |-> d.last,
                  buf |-> d.buf, len |-> t.value, out |-> d.out]
          /\ e.buf = SubSeq(stream, t.at + 1, read) /\ e.len = t.value
        <3>1. d = [bits |-> d.bits, silent |-> d.silent, next |-> d.next, last |-> d.last,
                   buf |-> d.buf, len |-> d.len, out |-> d.out]
            BY <1>4
        <3>2. e = [bits |-> d.bits, silent |-> d.silent, next |-> d.next, last |-> d.last,
                   buf |-> d.buf, len |-> t.value, out |-> d.out]
            BY <3>1
        <3> QED BY <1>8, <3>2
    <2>2. t.at \in Nat /\ t.value \in Nat
        BY <1>3
    <2> HIDE DEF e
    <2>3. ReadOn(e, win) =
              [d |-> IF t.at + t.value <= read + n
                     THEN [e EXCEPT !.buf = << >>, !.len = 0,
                                    !.out = Append(@, SubSeq(stream, t.at + 1, t.at + t.value))]
                     ELSE [e EXCEPT !.buf = SubSeq(stream, t.at + 1, read + n)],
               ate |-> n]
        BY <1>1, <1>8, <2>1, <2>2, ReadsPacket
    <2>4. r = ReadOn(e, win)
        BY <1>8 DEF e
    <2> HIDE DEF r, win
    <2>5. /\ read' = read + n
          /\ d' = IF t.at + t.value <= read + n
                  THEN [e EXCEPT !.buf = << >>, !.len = 0,
                                 !.out = Append(@, SubSeq(stream, t.at + 1, t.at + t.value))]
                  ELSE [e EXCEPT !.buf = SubSeq(stream, t.at + 1, read + n)]
        BY <1>1, <2>3, <2>4
    <2>6. d' = IF t.at + t.value <= read + n
               THEN [d EXCEPT !.buf = << >>, !.len = 0,
                              !.out = Append(@, SubSeq(stream, t.at + 1, t.at + t.value))]
               ELSE [d EXCEPT !.len = t.value, !.buf = SubSeq(stream, t.at + 1, read + n)]
        <3>1. d = [bits |-> d.bits, silent |-> d.silent, next |-> d.next, last |-> d.last,
                   buf |-> d.buf, len |-> d.len, out |-> d.out]
            BY <1>4
        <3>2. CASE t.at + t.value <= read + n
            <4> DEFINE p == SubSeq(stream, t.at + 1, t.at + t.value)
            <4>1. d' = [e EXCEPT !.buf = << >>, !.len = 0, !.out = Append(@, p)]
                BY <2>5, <3>2
            <4> HIDE DEF p
            <4>2. d' = [e EXCEPT !.buf = << >>, !.len = 0, !.out = Append(d.out, p)]
                BY <2>1, <4>1
            <4>3. d' = [d EXCEPT !.buf = << >>, !.len = 0, !.out = Append(@, p)]
                BY <3>1, <4>2 DEF e
            <4> QED BY <3>2, <4>3 DEF p
        <3>3. CASE ~(t.at + t.value <= read + n)
            <4> DEFINE p == SubSeq(stream, t.at + 1, read + n)
            <4>1. d' = [e EXCEPT !.buf = p]
                BY <2>5, <3>3
            <4> HIDE DEF p
            <4>2. d' = [d EXCEPT !.len = t.value, !.buf = p]
                BY <3>1, <4>1 DEF e
            <4> QED BY <3>3, <4>2 DEF p
        <3> QED BY <3>2, <3>3
    <2> QED BY <1>1, <1>8, <2>5, <2>6, LargeReads
<1>9. CASE d.len # 0
    <2>1. PICK t \in LengthTags :
              /\ t.value = d.len /\ t.at <= read /\ read < t.at + t.value
              /\ d.buf = SubSeq(stream, t.at + 1, read)
        BY <1>1, <1>9 DEF LargeInv
    <2>2. d = [d EXCEPT !.len = t.value]
        BY <1>4, <2>1
    <2>3. r = ReadOn(d, win)
        BY <1>9 DEF LargePdu
    <2> QED BY <1>8, <2>1, <2>2, <2>3
<1> DEFINE later == {x \in tags : x.at # 0}
<1>10. CASE d.len = 0 /\ tags = {}
    <2>1. r = ReadOn(d, win)
        BY <1>10 DEF LargePdu
    <2>2. Len(win) = n
        BY <1>1, <1>2, OfferedIs
    <2>3. ToRead(d, win) = 0
        <3>1. Len(d.buf) = 0
            BY <1>4, <1>10
        <3>2. ToRead(d, win) = Min({n, 0})
            BY <1>10, <2>2, <3>1 DEF ToRead
        <3> QED BY <1>1, <3>2, MinOfTwo
    <2>4. d.buf \o SubSeq(win, 1, 0) = << >>
        BY <1>4, <1>10
    <2>5. r = [d |-> [d EXCEPT !.buf = << >>, !.len = 0, !.out = Append(@, << >>)], ate |-> n]
        <3> DEFINE p == d.buf \o SubSeq(win, 1, ToRead(d, win))
        <3>1. p = << >> /\ Len(p) = d.len
            BY <1>10, <2>3, <2>4
        <3>2. r = [d |-> IF Len(p) = d.len
                        THEN [d EXCEPT !.buf = << >>, !.len = 0, !.out = Append(@, p)]
                        ELSE [d EXCEPT !.buf = p],
                   ate |-> Len(win)]
            BY <2>1 DEF ReadOn
        <3> HIDE DEF p, r
        <3> QED BY <2>2, <3>1, <3>2
    <2> HIDE DEF r, win, tags
    <2>6. /\ d' = [bits |-> d'.bits, silent |-> d'.silent, next |-> d'.next, last |-> d'.last,
                   buf |-> d'.buf, len |-> d'.len, out |-> d'.out]
          /\ d'.out = Append(d.out, << >>) /\ d'.buf = << >> /\ d'.len = 0
          /\ read' = read + n
        BY <1>1, <1>4, <2>5
    <2>7. << >> \in Seq(Int)
        BY EmptySeq
    <2>8. d'.out \in Seq(Seq(Int))
        BY <1>4, <2>6, <2>7, AppendProperties
    <2>9. Got(d'.out) = Got(d.out)
        BY <1>4, <2>6, <2>7, GotAppend
    <2>10. \A u \in LengthTags : read <= u.at => ~(u.at < read + n)
        BY <1>6, <1>10
    <2>11. \A u \in LengthTags : read <= u.at => ~(u.at + u.value <= read + n)
        BY <1>1, <1>2, <1>3, <2>10
    <2>12. /\ \E L \in SUBSET Whole' : Got(d'.out) = Part(Spans', L) /\ (alone' => L = Whole')
           /\ alone' => \A u \in LengthTags : u.at < read => u.at + u.value <= read + n
        BY <1>1, <1>10, <2>6, <2>9, <2>11, NothingPut
    <2>13. alone' => \A u \in LengthTags : u.at < read + n => u.at + u.value <= read + n
        BY <1>1, <1>2, <1>3, <2>10, <2>12
    <2> QED BY <1>1, <1>5, <2>6, <2>8, <2>12, <2>13 DEF LargeInv
<1>11. CASE d.len = 0 /\ tags # {} /\ later = {}
    <2> DEFINE x == Earliest(tags)
    <2>1. x \in tags
        <3>1. \A y \in tags : y.at \in Nat
            BY <1>6
        <3> QED BY <1>11, <3>1, EarliestIs
    <2>2. x.at = 0
        BY <1>11, <2>1
    <2>3. PICK t \in LengthTags : t.at = read + x.at /\ t.value = x.value
        BY <1>6, <2>1
    <2>4. t.at = read
        BY <1>2, <2>2, <2>3
    <2>5. r = ReadOn([d EXCEPT !.len = x.value], win)
        BY <1>11 DEF LargePdu
    <2>6. d.buf = SubSeq(stream, t.at + 1, read)
        BY <1>2, <1>4, <1>7, <1>11, <2>4
    <2>7. t.at <= read /\ read < t.at + t.value
        BY <1>2, <1>3, <2>4
    <2> QED BY <1>8, <2>3, <2>5, <2>6, <2>7
<1>12. CASE d.len = 0 /\ later # {}
    <2> DEFINE x == Earliest(later)
    <2>1. x \in later
        <3>1. \A y \in later : y.at \in Nat
            BY <1>6
        <3> QED BY <1>12, <3>1, EarliestIs
    <2>2. x \in tags /\ x.at # 0 /\ x.at \in 0..(n - 1)
        BY <1>6, <2>1
    <2>3. PICK t \in LengthTags : t.at = read + x.at /\ t.value = x.value
        BY <1>6, <2>2
    <2>4. r = [d |-> [d EXCEPT !.len = x.value], ate |-> x.at]
        BY <1>12 DEF LargePdu
    <2>5. PICK k \in Nat : k = x.at
        <3> HIDE DEF x
        <3>1. n - 1 \in Int
            BY <1>1
        <3> QED BY <2>2, <3>1
    <2>6. k < n /\ t.at = read + k /\ t.value \in Nat \ {0}
        BY <1>1, <1>3, <2>2, <2>3, <2>5
    <2> HIDE DEF r, win, tags, later, x
    <2>7. /\ d' = [bits |-> d'.bits, silent |-> d'.silent, next |-> d'.next, last |-> d'.last,
                   buf |-> d'.buf, len |-> d'.len, out |-> d'.out]
          /\ d'.out = d.out /\ d'.buf = << >> /\ d'.len = t.value /\ read' = read + k
        BY <1>1, <1>4, <1>12, <2>3, <2>4, <2>5
    <2>8. alone' => \A u \in LengthTags : read <= u.at => ~(u.at + u.value <= read + k)
        <3> SUFFICES ASSUME alone', NEW u \in LengthTags, read <= u.at,
                            u.at + u.value <= read + k
                     PROVE  FALSE
            OBVIOUS
        <3>0. read <= u.at /\ u.at + u.value <= read + k
            OBVIOUS
        <3>1. Cardinality(Touched(n)) <= 1
            BY <1>1
        <3>2. /\ u.at < read + n /\ read < u.at + u.value
              /\ t.at < read + n /\ read < t.at + t.value
            <4>1. /\ u.at \in Nat /\ u.value \in Nat \ {0} /\ t.value \in Nat \ {0}
                  /\ t.at = read + k /\ k < n /\ n \in Nat /\ read \in Nat
                BY <1>1, <1>2, <1>3, <2>6
            <4>2. u.at < read + n /\ t.at < read + n
                BY <3>0, <4>1
            <4>3. read < u.at + u.value
                BY <3>0, <4>1
            <4>4. read < t.at + t.value
                BY <4>1
            <4> QED BY <4>2, <4>3, <4>4
        <3>3. u = t
            BY <1>1, <3>1, <3>2, TouchedOne
        <3> QED BY <1>2, <1>3, <2>6, <3>3
    <2>9. \E L \in SUBSET Whole' : Got(d'.out) = Part(Spans', L) /\ (alone' => L = Whole')
        BY <1>1, <1>12, <2>7, <2>8, NothingPut
    <2>10. /\ t.value = d'.len /\ t.at <= read' /\ read' < t.at + t.value
           /\ d'.buf = SubSeq(stream', t.at + 1, read') /\ d'.len # 0
        <3>1. read + k \in 0..Len(stream)
            BY <1>1, <1>2, <2>6
        <3>2. SubSeq(stream, t.at + 1, read + k) = << >>
            BY <1>7, <2>6, <3>1
        <3> QED BY <1>1, <1>2, <2>6, <2>7, <3>2
    <2>11. d'.out \in Seq(Seq(Int))
        BY <1>4, <2>7
    <2> QED BY <1>1, <1>5, <2>7, <2>9, <2>10, <2>11 DEF LargeInv
<1> QED BY <1>9, <1>10, <1>11, <1>12

(* Some of what a set of positions shows, in order.                        *)
LEMMA PartOfPart ==
    ASSUME NEW b \in Nat, NEW W, \A x \in W : x \in Nat /\ x <= b,
           NEW K \in SUBSET W, NEW s
    PROVE  \E kept \in SUBSET DOMAIN Part(s, W) : Part(s, K) = Part(Part(s, W), kept)
<1> DEFINE q == InOrder(W)
           I == {i \in DOMAIN q : q[i] \in K}
           c == InOrder(I)
           r == [j \in 1..Len(c) |-> q[c[j]]]
<1>1. /\ DOMAIN q = 1..Len(q) /\ Len(q) \in Nat
      /\ \A i \in 1..Len(q) : q[i] \in W /\ q[i] \in Nat
      /\ \A i, j \in 1..Len(q) : i < j => q[i] < q[j]
      /\ \A x \in W : \E i \in 1..Len(q) : q[i] = x
    BY InOrderIs DEF Enumerates
<1> HIDE DEF q
<1>2. \A i \in I : i \in Nat /\ i <= Len(q) /\ i \in 1..Len(q) /\ q[i] \in K
    BY <1>1
<1>3. \A i \in 1..Len(q) : q[i] \in K => i \in I
    BY <1>1
<1> HIDE DEF I
<1>4. /\ DOMAIN c = 1..Len(c) /\ Len(c) \in Nat
      /\ \A j \in 1..Len(c) : c[j] \in I
      /\ \A i, j \in 1..Len(c) : i < j => c[i] < c[j]
      /\ \A x \in I : \E j \in 1..Len(c) : c[j] = x
    BY <1>1, <1>2, InOrderIs DEF Enumerates
<1> HIDE DEF c
<1>5. Len(r) = Len(c) /\ DOMAIN r = 1..Len(c) /\ r \in Seq(K)
    BY <1>2, <1>4
<1>6. \A i, j \in 1..Len(r) : i < j => r[i] < r[j]
    <2> SUFFICES ASSUME NEW i \in 1..Len(c), NEW j \in 1..Len(c), i < j
                 PROVE  q[c[i]] < q[c[j]]
        BY <1>5
    <2>1. c[i] \in 1..Len(q) /\ c[j] \in 1..Len(q) /\ c[i] < c[j]
        BY <1>2, <1>4
    <2> QED BY <1>1, <2>1
<1>7. \A x \in K : \E j \in 1..Len(r) : r[j] = x
    <2> TAKE x \in K
    <2>1. PICK i \in 1..Len(q) : q[i] = x
        BY <1>1
    <2>2. PICK j \in 1..Len(c) : c[j] = i
        BY <1>3, <1>4, <2>1
    <2> QED BY <1>5, <2>1, <2>2
<1>8. InOrder(K) = r
    <2>1. K \subseteq Int
        OBVIOUS
    <2>2. Enumerates(r, K)
        BY <1>5, <1>6, <1>7 DEF Enumerates
    <2> QED BY <2>1, <2>2, InOrderUnique
<1>9. Part(s, W) = [i \in 1..Len(q) |-> s[q[i]]]
    BY <1>1 DEF Part, q
<1>10. Part(s, K) = [j \in 1..Len(c) |-> s[q[c[j]]]]
    <2>1. Part(s, K) = [j \in 1..Len(c) |-> s[r[j]]]
        BY <1>5, <1>8 DEF Part
    <2> QED BY <2>1
<1>11. Part(Part(s, W), I) = [j \in 1..Len(c) |-> s[q[c[j]]]]
    <2>1. Part(Part(s, W), I) = [j \in 1..Len(c) |-> Part(s, W)[c[j]]]
        BY <1>4 DEF Part, c
    <2>2. \A j \in 1..Len(c) : Part(s, W)[c[j]] = s[q[c[j]]]
        BY <1>2, <1>4, <1>9
    <2> QED BY <2>1, <2>2
<1>12. I \subseteq DOMAIN Part(s, W)
    BY <1>2, <1>9
<1> QED BY <1>10, <1>11, <1>12

LEMMA LargeNext ==
    ASSUME TypeInv, LargeInv, [Next]_vars
    PROVE  LargeInv'
<1>1. TypeInv' /\ UNCHANGED graph
    BY StepIs
<1>2. CASE UNCHANGED <<read, d, alone>> /\ Longer
    BY <1>1, <1>2, LargeLonger
<1>3. ASSUME NEW n \in graph.windows, Calls(n) PROVE LargeInv'
    <2>1. CASE graph.sink = "tagged_stream_to_large_pdu_f"
        BY <1>3, <2>1, OwnCall, LargeStep
    <2>2. CASE graph.sink # "tagged_stream_to_large_pdu_f"
        BY <1>1, <2>2 DEF LargeInv
    <2> QED BY <2>1, <2>2
<1> QED BY <1>2, <1>3, StepIs

(* The packets announced in what was consumed are the spans of those whole. *)
LEMMA AllPackets ==
    ASSUME TypeInv, Apart(graph.tags)
    PROVE  LengthPackets(Consumed, Past) = Part(Spans, Whole)
<1> DEFINE whole == {t \in Keyed(Past, "length") : t.at + t.value <= Len(Consumed)}
           at == InOrder(Whole)
<1>1. read \in Nat /\ Len(Consumed) = read
    BY ConsumedIs
<1>2. /\ \A t \in LengthTags : t.at \in Nat /\ t.value \in Nat \ {0}
      /\ \A t, u \in LengthTags : t.at = u.at => t = u
    BY LengthsAre
<1>3. \A t : t \in whole <=> t \in LengthTags /\ t.at + t.value <= read
    <2>1. \A t : t \in whole <=> t \in LengthTags /\ t.at < read /\ t.at + t.value <= read
        BY <1>1 DEF Keyed, Past, LengthTags
    <2>2. \A t \in LengthTags : t.at + t.value <= read => t.at < read
        BY <1>1, <1>2
    <2> QED BY <2>1, <2>2
<1> HIDE DEF whole
<1>4. {t.at : t \in whole} = Whole
    BY <1>3 DEF Whole
<1>5. ASSUME NEW p \in Whole PROVE Announced(Consumed, whole, p) = Spans[p]
    <2>1. PICK t \in LengthTags : t.at = p /\ t.at + t.value <= read
        BY <1>4, <1>3
    <2>2. (CHOOSE u \in whole : u.at = p) = t
        BY <1>2, <1>3, <2>1
    <2>3. Announced(Consumed, whole, p) = SubSeq(Consumed, p + 1, p + t.value)
        BY <2>2 DEF Announced
    <2>4. Spans[p] = SubSeq(stream, p + 1, p + t.value)
        BY <2>1, LengthsAre
    <2>5. p + 1 \in Int /\ p + t.value \in Int /\ p \in Nat /\ p + t.value <= read
        BY <1>2, <2>1
    <2>6. \A i \in (p + 1)..(p + t.value) : Consumed[i] = stream[i]
        <3> TAKE i \in (p + 1)..(p + t.value)
        <3>1. i \in 1..read
            BY <1>1, <2>5
        <3> QED BY <3>1, ConsumedIs
    <2> QED BY <2>3, <2>4, <2>5, <2>6, SubSeqSame
<1>6. \A i \in DOMAIN at : at[i] \in Whole
    BY <1>1, WholeIs, InOrderIs
<1>7. LengthPackets(Consumed, Past) = [i \in DOMAIN at |-> Announced(Consumed, whole, at[i])]
    BY <1>4 DEF LengthPackets, whole
<1>8. Part(Spans, Whole) = [i \in DOMAIN at |-> Spans[at[i]]]
    BY DEF Part
<1> HIDE DEF at
<1> QED BY <1>5, <1>6, <1>7, <1>8

LEMMA LargeFollows ==
    ASSUME TypeInv, LargeInv, graph.sink = "tagged_stream_to_large_pdu_f"
    PROVE  LargePdusPublished
<1> DEFINE got == Part(d.out, {i \in DOMAIN d.out : d.out[i] # << >>})
           all == LengthPackets(Consumed, Past)
<1> SUFFICES ASSUME Apart(graph.tags)
             PROVE  /\ \E kept \in SUBSET DOMAIN all : got = Part(all, kept)
                    /\ alone => got = all
    BY DEF LargePdusPublished
<1>1. PICK K \in SUBSET Whole : Got(d.out) = Part(Spans, K) /\ (alone => K = Whole)
    BY DEF LargeInv
<1>2. got = Got(d.out)
    BY DEF Got, NonEmpty
<1>3. all = Part(Spans, Whole)
    BY AllPackets
<1> HIDE DEF got, all
<1>4. read \in Nat /\ \A x \in Whole : x \in Nat /\ x <= read
    BY WholeIs DEF TypeInv
<1>5. \E kept \in SUBSET DOMAIN Part(Spans, Whole) :
          Part(Spans, K) = Part(Part(Spans, Whole), kept)
    BY <1>4, PartOfPart
<1> QED BY <1>1, <1>2, <1>3, <1>5

LEMMA PacketsFollow ==
    ASSUME TypeInv, VectorInv, LargeInv
    PROVE  TaggedPacketsPublished
<1>1. CASE graph.sink = "tagged_stream_to_large_pdu_f"
    BY <1>1, LargeFollows DEF TaggedPacketsPublished
<1>2. CASE graph.sink = "prototype_tagged_stream_to_vector"
    BY <1>2, VectorPublished DEF TaggedPacketsPublished
<1>3. CASE /\ graph.sink # "tagged_stream_to_large_pdu_f"
           /\ graph.sink # "prototype_tagged_stream_to_vector"
    BY <1>3 DEF TaggedPacketsPublished
<1> QED BY <1>1, <1>2, <1>3

(* tagged_stream_to_large_pdu_f and prototype_tagged_stream_to_vector: for *)
(* every flow graph, signal and cut of the signal into calls of work(),    *)
(* what goes out are tagged packets, whole and in order; none is missing   *)
(* for the second, nor for the first if no call saw two packets at once.   *)
THEOREM TaggedPacketsAlwaysPublished == Spec => []TaggedPacketsPublished
<1>1. Init => TypeInv /\ VectorInv /\ LargeInv
    BY TypeInit, VectorInit, LargeInit
<1>2. TypeInv /\ VectorInv /\ LargeInv /\ [Next]_vars => (TypeInv /\ VectorInv /\ LargeInv)'
    BY TypeNext, VectorNext, LargeNext
<1>3. TypeInv /\ VectorInv /\ LargeInv => TaggedPacketsPublished
    BY PacketsFollow
<1> QED BY <1>1, <1>2, <1>3, PTL DEF Spec

-----------------------------------------------------------------------------
(* What the symbol decoders are given.                                     *)

LEMMA InSeq ==
    ASSUME NEW s \in Seq(Int), NEW V, \A i \in 1..Len(s) : s[i] \in V
    PROVE  s \in Seq(V)
<1>1. s \in [1..Len(s) -> Int] /\ Len(s) \in Nat
    BY LenProperties
<1>2. s \in [1..Len(s) -> V]
    BY <1>1
<1> QED BY <1>1, <1>2

SignInv ==
    /\ queue \in Seq(Signs)
    /\ graph.sink \in {"pn_decode_f", "pn_decode_identity_b"} => stream \in Seq(Signs)
    /\ graph.sink = "ook_decode_b" => stream \in Seq({0, 1})

LEMMA SignalIs ==
    ASSUME graph \in Graphs
    PROVE  IsSignal(graph)
BY FlowgraphAssumption

LEMMA SignInit == Init => SignInv
<1> SUFFICES ASSUME Init PROVE SignInv
    OBVIOUS
<1>1. graph \in Graphs /\ queue = << >> /\ stream = graph.signal
    BY DEF Init
<1>2. << >> \in Seq(Signs)
    BY EmptySeq
<1>3. IsSignal(graph)
    BY <1>1, SignalIs
<1> QED BY <1>1, <1>2, <1>3 DEF IsSignal, SignInv

LEMMA QueuedSigns ==
    ASSUME NEW bits \in Seq(Int), graph \in Graphs
    PROVE  Queued(bits) \in Seq(Signs)
<1>1. Len(bits) \in Nat /\ DOMAIN bits = 1..Len(bits)
    BY LenProperties
<1>2. Floats(bits) \in Seq(Signs)
    <2>1. Floats(bits) = [i \in 1..Len(bits) |-> IF bits[i] = 1 THEN 1 ELSE -1]
        BY <1>1 DEF Floats
    <2>2. \A i \in 1..Len(bits) : (IF bits[i] = 1 THEN 1 ELSE -1) \in Signs
        BY DEF Signs
    <2>3. [i \in 1..Len(bits) |-> IF bits[i] = 1 THEN 1 ELSE -1] \in Seq(Signs)
        BY <1>1, <2>2
    <2> QED BY <2>1, <2>3
<1>3. graph.conf.padding \in Nat
    BY GraphIs
<1>4. Silence(graph.conf.padding) \in Seq(Signs)
    <2>1. 0 \in Signs
        BY DEF Signs
    <2> QED BY <1>3, <2>1 DEF Silence
<1> QED BY <1>2, <1>4, ConcatProperties DEF Queued

LEMMA SignHandle ==
    ASSUME TypeInv, SignInv, Handle
    PROVE  SignInv'
<1>1. UNCHANGED <<graph, stream>> /\ graph \in Graphs
    BY DEF Handle, TypeInv
<1>2. mail[Source] # << >> /\ queue' = queue \o Queued(Head(mail[Source]))
    BY DEF Handle
<1>3. mail[Source] \in Seq(Seq(Int))
    <2>1. Source \in 1..Source
        BY <1>1, ChainIs
    <2> QED BY <2>1 DEF TypeInv
<1>4. Head(mail[Source]) \in Seq(Int)
    BY <1>2, <1>3, HeadTailProperties
<1>5. Queued(Head(mail[Source])) \in Seq(Signs)
    BY <1>1, <1>4, QueuedSigns
<1>6. queue' \in Seq(Signs)
    BY <1>2, <1>5, ConcatProperties DEF SignInv
<1> QED BY <1>1, <1>6 DEF SignInv

LEMMA SignSource ==
    ASSUME TypeInv, SignInv, NEW n \in graph.windows, SourceWork(n)
    PROVE  SignInv'
<1>1. PICK p \in Nat, s \in Seq(Int) :
          /\ p = (IF n <= Len(queue) THEN n ELSE Len(queue)) /\ p \in 0..Len(queue)
          /\ s = SubSeq(queue, 1, p) \o Silence(n - p) /\ n \in Nat \ {0}
          /\ stream' = stream \o s /\ queue' = Left(p)
    BY SentIs
<1>2. UNCHANGED graph /\ graph.source # "vector_source" /\ graph \in Graphs
    BY DEF SourceWork, TypeInv
<1>3. queue \in Seq(Signs) /\ Len(queue) \in Nat /\ \A i \in 1..Len(queue) : queue[i] \in Signs
    <2>1. queue \in Seq(Signs)
        BY DEF SignInv
    <2> QED BY <2>1, LenProperties, ElementOfSeq
<1>4. SubSeq(queue, 1, p) \in Seq(Signs)
    <2>1. \A i \in 1..p : queue[i] \in Signs
        BY <1>1, <1>3
    <2> QED BY <1>1, <2>1, SubSeqProperties
<1>5. Silence(n - p) \in Seq(Signs)
    <2>1. n - p \in Nat /\ 0 \in Signs
        BY <1>1 DEF Signs
    <2> QED BY <2>1 DEF Silence
<1>6. s \in Seq(Signs)
    BY <1>1, <1>4, <1>5, ConcatProperties
<1>7. queue' \in Seq(Signs)
    <2>1. CASE p = Len(queue)
        <3>1. queue' = << >>
            BY <1>1, <2>1 DEF Left
        <3> QED BY <3>1, EmptySeq
    <2>2. CASE p # Len(queue)
        <3>1. queue' = SubSeq(queue, Len(queue) - p + 1, Len(queue))
            BY <1>1, <2>2 DEF Left
        <3>2. Len(queue) - p + 1 \in Int /\ Len(queue) - p + 1 >= 1 /\ Len(queue) \in Int
            BY <1>1, <1>3
        <3>3. \A i \in (Len(queue) - p + 1)..Len(queue) : queue[i] \in Signs
            BY <1>3, <3>2
        <3> QED BY <3>1, <3>2, <3>3, SubSeqProperties
    <2> QED BY <2>1, <2>2
<1>8. graph.sink # "ook_decode_b"
    BY <1>2, SignalIs DEF IsSignal
<1>9. ASSUME graph.sink \in {"pn_decode_f", "pn_decode_identity_b"}
      PROVE  stream' \in Seq(Signs)
    <2>1. stream \in Seq(Signs)
        BY <1>9 DEF SignInv
    <2> QED BY <1>1, <1>6, <2>1, ConcatProperties
<1> QED BY <1>2, <1>7, <1>8, <1>9 DEF SignInv

LEMMA SignNext ==
    ASSUME TypeInv, SignInv, [Next]_vars
    PROVE  SignInv'
<1>1. CASE UNCHANGED <<graph, queue, stream>>
    BY <1>1 DEF SignInv
<1>2. CASE UNCHANGED vars
    BY <1>1, <1>2 DEF vars
<1>3. CASE Handle
    BY <1>3, SignHandle
<1>4. ASSUME NEW i \in DOMAIN Chain, Relay(i) PROVE SignInv'
    BY <1>1, <1>4 DEF Relay
<1>5. ASSUME NEW n \in graph.windows, SourceWork(n) PROVE SignInv'
    BY <1>5, SignSource
<1>6. ASSUME NEW n \in graph.windows, Calls(n) PROVE SignInv'
    <2>1. CASE PnDecodeWork(n)
        BY <1>1, <2>1 DEF PnDecodeWork, SinkWork
    <2>2. CASE OokDecodeWork(n)
        BY <1>1, <2>2 DEF OokDecodeWork, SinkWork
    <2>3. CASE IdentityWork(n)
        BY <1>1, <2>3 DEF IdentityWork, SinkWork
    <2>4. CASE PacketizeBurstWork(n)
        BY <1>1, <2>4 DEF PacketizeBurstWork, SinkWork
    <2>5. CASE LargePduWork(n)
        BY <1>1, <2>5 DEF LargePduWork, SinkWork
    <2>6. CASE ToVectorWork(n)
        BY <1>1, <2>6 DEF ToVectorWork, SinkWork
    <2> QED BY <1>6, <2>1, <2>2, <2>3, <2>4, <2>5, <2>6 DEF Calls
<1> QED BY <1>2, <1>3, <1>4, <1>5, <1>6 DEF Next, Calls

(* A call of a decoder adds its window to what was consumed.               *)
LEMMA ConsumedGrows ==
    ASSUME TypeInv, NEW n \in Nat, read + n <= Len(stream),
           UNCHANGED stream, read' = read + n
    PROVE  Consumed' = Consumed \o Offered(n)
<1>1. read \in Nat /\ 0 \in 0..read /\ n \in 0..n
    BY DEF TypeInv
<1>2. /\ SubSeq(stream, 0 + 1, read) \o SubSeq(Offered(n), 1, n) = SubSeq(stream, 0 + 1, read + n)
      /\ SubSeq(Offered(n), 1, n) = Offered(n)
    BY <1>1, JoinsWindow
<1>3. 0 + 1 = 1
    OBVIOUS
<1>4. Consumed = SubSeq(stream, 0 + 1, read)
    BY <1>3 DEF Consumed
<1>5. Consumed' = SubSeq(stream, 0 + 1, read + n)
    BY <1>3 DEF Consumed
<1> HIDE DEF Consumed
<1> QED BY <1>2, <1>4, <1>5

LEMMA ConsumedStays ==
    ASSUME TypeInv, UNCHANGED read, Longer
    PROVE  Consumed' = Consumed
<1>1. read \in 0..Len(stream) /\ Len(stream) \in Nat
    BY LenProperties DEF TypeInv
<1>2. \A i \in 1..read : stream[i] = stream'[i]
    BY <1>1 DEF Longer
<1>3. SubSeq(stream, 1, read) = SubSeq(stream', 1, read)
    <2>1. 1 \in Int /\ read \in Int
        BY <1>1
    <2> QED BY <1>2, <2>1, SubSeqSame
<1> QED BY <1>3 DEF Consumed

(* Samples of the stream are samples consumed, and offered.                *)
LEMMA SamplesIn ==
    ASSUME TypeInv, NEW V, stream \in Seq(V)
    PROVE  /\ Consumed \in Seq(V)
           /\ \A n \in Nat : read + n <= Len(stream) => Offered(n) \in Seq(V)
<1>1. read \in 0..Len(stream) /\ Len(stream) \in Nat /\ \A i \in 1..Len(stream) : stream[i] \in V
    BY LenProperties, ElementOfSeq DEF TypeInv
<1>2. Consumed \in Seq(V)
    <2>1. \A i \in 1..read : stream[i] \in V
        BY <1>1
    <2>2. 1 \in Int /\ read \in Int
        BY <1>1
    <2> QED BY <2>1, <2>2, SubSeqProperties DEF Consumed
<1>3. ASSUME NEW n \in Nat, read + n <= Len(stream) PROVE Offered(n) \in Seq(V)
    <2>1. \A i \in (read + 1)..(read + n) : stream[i] \in V
        BY <1>1, <1>3
    <2>2. read + 1 \in Int /\ read + n \in Int
        BY <1>1
    <2> QED BY <2>1, <2>2, SubSeqProperties DEF Offered
<1> QED BY <1>2, <1>3

-----------------------------------------------------------------------------
(* A signal and one more sample.                                           *)

Adds(s, x, t) ==
    /\ Len(s) \in Nat /\ Len(t) = Len(s) + 1
    /\ DOMAIN s = 1..Len(s) /\ DOMAIN t = 1..(Len(s) + 1)
    /\ t[Len(s) + 1] = x
    /\ \A i \in 1..Len(s) : t[i] = s[i]

LEMMA AppendAdds ==
    ASSUME NEW V, NEW s \in Seq(V), NEW x \in V
    PROVE  Adds(s, x, Append(s, x)) /\ Append(s, x) \in Seq(V)
<1>1. /\ Append(s, x) \in Seq(V) /\ Len(Append(s, x)) = Len(s) + 1
      /\ \A i \in 1..Len(s) : Append(s, x)[i] = s[i]
      /\ Append(s, x)[Len(s) + 1] = x
    BY AppendProperties
<1>2. /\ Len(s) \in Nat /\ DOMAIN s = 1..Len(s)
      /\ DOMAIN Append(s, x) = 1..Len(Append(s, x))
    BY <1>1, LenProperties
<1> QED BY <1>1, <1>2 DEF Adds

(* The last of the positions in S before e, 0 if there is none.            *)
Since(S, e) == Max({0} \cup {p \in S : p < e})

LEMMA SinceIs ==
    ASSUME NEW S, \A p \in S : p \in Nat, NEW e \in Nat
    PROVE  /\ Since(S, e) \in Nat
           /\ Since(S, e) = 0 \/ (Since(S, e) \in S /\ Since(S, e) < e)
           /\ \A p \in S : p < e => p <= Since(S, e)
           /\ \A m \in S : (m < e /\ \A p \in S : p < e => p <= m) => Since(S, e) = m
           /\ (\A p \in S : p >= e) => Since(S, e) = 0
<1> DEFINE T == {0} \cup {p \in S : p < e}
<1>1. /\ \A y \in T : y \in Nat /\ y <= e
      /\ T # {}
    OBVIOUS
<1>2. Max(T) \in T /\ \A y \in T : y <= Max(T)
    BY <1>1, MaxIs
<1>3. Since(S, e) = Max(T)
    BY DEF Since
<1>4. Since(S, e) \in T /\ \A y \in T : y <= Since(S, e)
    BY <1>2, <1>3
<1> HIDE DEF Since
<1> QED BY <1>4

LEMMA SinceSame ==
    ASSUME NEW S, NEW T, NEW e, \A p : (p \in S /\ p < e) <=> (p \in T /\ p < e)
    PROVE  Since(S, e) = Since(T, e)
<1>1. {p \in S : p < e} = {p \in T : p < e}
    OBVIOUS
<1> QED BY <1>1 DEF Since

(* All that IsDecoder says is that e has the fields it has.                *)
IsDecoder(e) ==
    e = [bits |-> e.bits, silent |-> e.silent, next |-> e.next, last |-> e.last,
         buf |-> e.buf, len |-> e.len, out |-> e.out]

LEMMA FlooredBy8 ==
    ASSUME NEW a \in Nat
    PROVE  8 * (a \div 8) = a - (a % 8) /\ 8 * (a \div 8) \in 0..a
OBVIOUS

-----------------------------------------------------------------------------
(* pn_decode_identity_b                                                    *)

Zeros(s) == {p \in DOMAIN s : s[p] = 0}
Bit(v) == IF v > 0 THEN 1 ELSE 0
Starts(c, s, e) ==
    {p \in (Since(Zeros(s), e) + 1)..(e - 1) :
        /\ p + Len(c.prefix) <= e
        /\ \A k \in DOMAIN c.prefix : s[p + k - 1] = (IF c.prefix[k] = 1 THEN 1 ELSE -1)}
Prefixed(c, s) == {e \in Zeros(s) : Starts(c, s, e) # {}}
IdPacket(c, s, e) ==
    LET size == e - Min(Starts(c, s, e))
    IN  [i \in 1..(size - (size % 8)) |-> Bit(s[Min(Starts(c, s, e)) + i - 1])]
IdPacketsAt(c, s) == [e \in DOMAIN s |-> IdPacket(c, s, e)]

LEMMA IdentityPacketsAre ==
    ASSUME NEW c, NEW s, s \in Seq(Signs)
    PROVE  IdentityPackets(c, s) = Part(IdPacketsAt(c, s), Prefixed(c, s))
<1>1. \A e \in Zeros(s) : e \in Nat /\ e <= Len(s) /\ e \in DOMAIN s
    BY LenProperties DEF Zeros
<1>2. Len(s) \in Nat /\ \A e \in Prefixed(c, s) : e \in Nat /\ e <= Len(s) /\ e \in DOMAIN s
    BY <1>1, LenProperties DEF Prefixed
<1> DEFINE where == InOrder(Prefixed(c, s))
<1>3. \A i \in DOMAIN where : where[i] \in Prefixed(c, s)
    BY <1>2, InOrderIs
<1>4. IdentityPackets(c, s) = [i \in DOMAIN where |-> IdPacket(c, s, where[i])]
    BY DEF IdentityPackets, Prefixed, Zeros, Starts, IdPacket, Bit, Since
<1>5. \A i \in DOMAIN where : IdPacketsAt(c, s)[where[i]] = IdPacket(c, s, where[i])
    BY <1>2, <1>3 DEF IdPacketsAt
<1> QED BY <1>4, <1>5 DEF Part

(* What came before stays as it was.                                       *)
LEMMA StartsStay ==
    ASSUME NEW c, c.prefix \in Seq({0, 1}), NEW s, NEW x, NEW t, Adds(s, x, t),
           NEW e \in 1..Len(s)
    PROVE  /\ Since(Zeros(t), e) = Since(Zeros(s), e)
           /\ Starts(c, t, e) = Starts(c, s, e)
           /\ Starts(c, s, e) # {} => IdPacket(c, t, e) = IdPacket(c, s, e)
<1>0. Len(s) \in Nat /\ e \in Nat /\ \A p \in Zeros(s) : p \in Nat
    BY DEF Zeros, Adds
<1>1. Since(Zeros(t), e) = Since(Zeros(s), e)
    <2>1. \A p : (p \in Zeros(s) /\ p < e) <=> (p \in Zeros(t) /\ p < e)
        BY DEF Zeros, Adds
    <2> QED BY <2>1, SinceSame
<1>2. Since(Zeros(s), e) \in Nat
    BY <1>0, SinceIs
<1> DEFINE b == Since(Zeros(s), e) + 1
           l == Len(c.prefix)
<1>3. l \in Nat /\ DOMAIN c.prefix = 1..l /\ b \in Nat \ {0}
    BY <1>2, LenProperties
<1>4. ASSUME NEW p \in b..(e - 1), p + l <= e, NEW k \in DOMAIN c.prefix
      PROVE  t[p + k - 1] = s[p + k - 1]
    <2>1. p + k - 1 \in 1..Len(s)
        BY <1>0, <1>3, <1>4
    <2> QED BY <2>1 DEF Adds
<1>5. Starts(c, t, e) = Starts(c, s, e)
    BY <1>1, <1>4 DEF Starts
<1>6. ASSUME Starts(c, s, e) # {}
      PROVE  IdPacket(c, t, e) = IdPacket(c, s, e)
    <2> DEFINE m == Min(Starts(c, s, e))
               k == e - m
    <2>1. Starts(c, s, e) \subseteq b..(e - 1)
        BY DEF Starts
    <2>2. Starts(c, s, e) \subseteq Nat
        BY <1>0, <1>3, <2>1
    <2>3. m \in Starts(c, s, e)
        BY <1>6, <2>2, MinIs
    <2>4. m \in 1..(e - 1) /\ k \in Nat
        BY <1>0, <1>3, <2>1, <2>3
    <2>5. IdPacket(c, t, e) = [i \in 1..(k - (k % 8)) |-> Bit(t[m + i - 1])]
        BY <1>5 DEF IdPacket
    <2>6. IdPacket(c, s, e) = [i \in 1..(k - (k % 8)) |-> Bit(s[m + i - 1])]
        BY DEF IdPacket
    <2> HIDE DEF m
    <2>7. ASSUME NEW i \in 1..(k - (k % 8)) PROVE t[m + i - 1] = s[m + i - 1]
        <3>1. k % 8 \in Nat
            BY <2>4
        <3>2. m + i - 1 \in 1..Len(s)
            BY <1>0, <2>4, <3>1
        <3> QED BY <3>2 DEF Adds
    <2> HIDE DEF k
    <2> QED BY <2>5, <2>6, <2>7
<1> QED BY <1>1, <1>5, <1>6

LEMMA PacketsStay ==
    ASSUME NEW c, c.prefix \in Seq({0, 1}), NEW s, NEW x, NEW t, Adds(s, x, t)
    PROVE  /\ \A e \in 1..Len(s) : (e \in Zeros(s) <=> e \in Zeros(t))
                                   /\ (e \in Prefixed(c, s) <=> e \in Prefixed(c, t))
           /\ \A e \in Prefixed(c, s) : IdPacketsAt(c, t)[e] = IdPacketsAt(c, s)[e]
<1>1. ASSUME NEW e \in 1..Len(s)
      PROVE  (e \in Zeros(s) <=> e \in Zeros(t)) /\ (e \in Prefixed(c, s) <=> e \in Prefixed(c, t))
    <2>1. e \in Zeros(s) <=> e \in Zeros(t)
        BY DEF Zeros, Adds
    <2> QED BY <2>1, StartsStay DEF Prefixed
<1>2. ASSUME NEW e \in Prefixed(c, s) PROVE IdPacketsAt(c, t)[e] = IdPacketsAt(c, s)[e]
    <2>1. e \in 1..Len(s) /\ Starts(c, s, e) # {} /\ e \in DOMAIN t /\ e \in DOMAIN s
        BY DEF Prefixed, Zeros, Adds
    <2>2. IdPacket(c, t, e) = IdPacket(c, s, e)
        BY <2>1, StartsStay
    <2> QED BY <2>1, <2>2 DEF IdPacketsAt
<1> QED BY <1>1, <1>2

(* What an identity decoder holds and has published after the signal s.    *)
IdHolds(c, s, e) ==
    LET z == Since(Zeros(s), Len(s) + 1)
    IN  /\ IsDecoder(e)
        /\ e.bits = [i \in 1..(Len(s) - z) |-> Bit(s[z + i])]
        /\ e.out = IdentityPackets(c, s)

LEMMA LastBefore ==
    ASSUME NEW n \in Nat, NEW S, \A p \in S : p \in 1..n
    PROVE  /\ Since(S, n + 1) \in 0..n
           /\ \A p \in S : p <= Since(S, n + 1)
<1> DEFINE z == Since(S, n + 1)
<1>1. (\A p \in S : p \in Nat) /\ n + 1 \in Nat
    OBVIOUS
<1>2. /\ z \in Nat /\ (z = 0 \/ (z \in S /\ z < n + 1))
      /\ \A p \in S : p < n + 1 => p <= z
    BY <1>1, SinceIs
<1> HIDE DEF z
<1>3. \A p \in S : p < n + 1
    OBVIOUS
<1>4. z \in 0..n
    BY <1>2
<1>5. \A p \in S : p <= z
    BY <1>2, <1>3
<1> QED BY <1>4, <1>5 DEF z

LEMMA BitsSince ==
    ASSUME NEW s \in Seq(Signs), NEW z \in 0..Len(s),
           NEW b, b = [i \in 1..(Len(s) - z) |-> Bit(s[z + i])]
    PROVE  /\ b \in Seq({0, 1}) /\ Len(b) = Len(s) - z
           /\ DOMAIN b = 1..(Len(s) - z) /\ Len(s) - z \in Nat
           /\ \A i \in 1..(Len(s) - z) : b[i] = Bit(s[z + i])
<1>1. Len(s) - z \in Nat
    BY LenProperties
<1>2. \A i \in 1..(Len(s) - z) : Bit(s[z + i]) \in {0, 1}
    BY DEF Bit
<1> QED BY <1>1, <1>2

(* The prefixes the decoder finds are where packets start.                 *)
LEMMA FoundAre ==
    ASSUME NEW c, c.prefix \in Seq({0, 1}), NEW s \in Seq(Signs), NEW t, Adds(s, 0, t),
           NEW z, z = Since(Zeros(s), Len(s) + 1),
           NEW b, b = [i \in 1..(Len(s) - z) |-> Bit(s[z + i])]
    PROVE  \A i \in 1..Len(b) :
              IsPrefix(c.prefix, SubSeq(b, i, Len(b))) <=> z + i \in Starts(c, t, Len(s) + 1)
<1> DEFINE n == Len(s)
           l == Len(c.prefix)
<1>1. n \in Nat /\ n + 1 \in Nat /\ \A p \in Zeros(s) : p \in Nat /\ p < n + 1
    BY DEF Zeros, Adds
<1>2. z \in 0..n /\ \A p \in Zeros(s) : p <= z
    <2>1. \A p \in Zeros(s) : p \in 1..n
        BY DEF Zeros, Adds
    <2> QED BY <1>1, <2>1, LastBefore
<1>3. \A i \in 1..(n - z) : s[z + i] # 0 /\ s[z + i] \in {-1, 1} /\ z + i \in 1..n
    <2> TAKE i \in 1..(n - z)
    <2>1. z + i \in 1..n /\ z + i > z
        BY <1>1, <1>2
    <2>2. z + i \notin Zeros(s)
        BY <1>2, <2>1
    <2>3. s[z + i] \in Signs
        BY <2>1, ElementOfSeq
    <2>4. s[z + i] # 0
        BY <2>1, <2>2 DEF Zeros, Adds
    <2> QED BY <2>1, <2>3, <2>4 DEF Signs
<1>4. /\ b \in Seq({0, 1}) /\ Len(b) = n - z /\ n - z \in Nat
      /\ \A i \in 1..(n - z) : b[i] = Bit(s[z + i])
    BY <1>1, <1>2, BitsSince
<1>5. Since(Zeros(t), n + 1) = z
    <2>1. \A p : (p \in Zeros(s) /\ p < n + 1) <=> (p \in Zeros(t) /\ p < n + 1)
        BY <1>1 DEF Zeros, Adds
    <2> QED BY <2>1, SinceSame
<1>6. l \in Nat /\ DOMAIN c.prefix = 1..l /\ \A k \in 1..l : c.prefix[k] \in {0, 1}
    BY LenProperties, ElementOfSeq
<1> SUFFICES ASSUME NEW i \in 1..(n - z)
             PROVE  IsPrefix(c.prefix, SubSeq(b, i, n - z)) <=> z + i \in Starts(c, t, n + 1)
    BY <1>4
<1> DEFINE r == SubSeq(b, i, n - z)
<1>7. /\ r \in Seq({0, 1}) /\ Len(r) = (n - z) - i + 1
      /\ \A k \in 1..((n - z) - i + 1) : r[k] = b[i + k - 1]
    <2>1. \A k \in i..(n - z) : b[k] \in {0, 1}
        BY <1>4, ElementOfSeq
    <2> QED BY <1>4, <2>1, SubSeqProperties
<1> HIDE DEF r
<1>8. ASSUME l <= (n - z) - i + 1
      PROVE  SubSeq(c.prefix, 1, l) = SubSeq(r, 1, l) <=> \A k \in 1..l : c.prefix[k] = r[k]
    <2>1. 1 \in Int /\ l \in Int /\ SubSeq(c.prefix, 1, l) = c.prefix
        BY <1>6, SubSeqFull
    <2>2. ASSUME \A k \in 1..l : c.prefix[k] = r[k]
          PROVE  SubSeq(c.prefix, 1, l) = SubSeq(r, 1, l)
        BY <2>1, <2>2, SubSeqSame
    <2>3. \A k \in 1..l : SubSeq(r, 1, l)[k] = r[k]
        <3>1. \A k \in 1..l : r[k] \in {0, 1}
            BY <1>4, <1>6, <1>7, <1>8, ElementOfSeq
        <3>2. \A k \in 1..(l - 1 + 1) : SubSeq(r, 1, l)[k] = r[1 + k - 1]
            BY <2>1, <3>1, SubSeqProperties
        <3>3. \A k \in 1..l : k \in 1..(l - 1 + 1) /\ 1 + k - 1 = k
            BY <1>6
        <3> QED BY <3>2, <3>3
    <2> QED BY <2>1, <2>2, <2>3
<1>9. ASSUME l <= (n - z) - i + 1, NEW k \in 1..l
      PROVE  c.prefix[k] = r[k] <=> t[(z + i) + k - 1] = (IF c.prefix[k] = 1 THEN 1 ELSE -1)
    <2>1. k \in 1..((n - z) - i + 1) /\ i + k - 1 \in 1..(n - z) /\ z + (i + k - 1) = (z + i) + k - 1
        BY <1>1, <1>2, <1>4, <1>6, <1>9
    <2>2. r[k] = Bit(s[(z + i) + k - 1])
        BY <1>4, <1>7, <2>1
    <2>3. s[(z + i) + k - 1] \in {-1, 1} /\ (z + i) + k - 1 \in 1..n
        BY <1>3, <2>1
    <2>4. t[(z + i) + k - 1] = s[(z + i) + k - 1]
        BY <2>3 DEF Adds
    <2>5. c.prefix[k] \in {0, 1}
        BY <1>6
    <2> QED BY <2>2, <2>3, <2>4, <2>5 DEF Bit
<1>10. l <= (n - z) - i + 1 <=> (z + i) + l <= n + 1
    BY <1>1, <1>2, <1>6
<1>11. z + i \in (z + 1)..((n + 1) - 1)
    BY <1>1, <1>2
<1>12. IsPrefix(c.prefix, r) <=> /\ l <= (n - z) - i + 1
                                 /\ \A k \in 1..l : c.prefix[k] = r[k]
    BY <1>7, <1>8 DEF IsPrefix
<1>13. z + i \in Starts(c, t, n + 1) <=>
          /\ (z + i) + l <= n + 1
          /\ \A k \in 1..l : t[(z + i) + k - 1] = (IF c.prefix[k] = 1 THEN 1 ELSE -1)
    BY <1>5, <1>6, <1>11 DEF Starts
<1> QED BY <1>9, <1>10, <1>12, <1>13 DEF r

(* What goes out at a zero is the packet that the zero ends.               *)
LEMMA EmitIs ==
    ASSUME NEW c, c.prefix \in Seq({0, 1}), NEW s \in Seq(Signs), NEW t, Adds(s, 0, t),
           NEW e, IdHolds(c, s, e)
    PROVE  /\ IsDecoder(Emit(c, e)) /\ Emit(c, e).bits = << >>
           /\ Emit(c, e).out = IF Starts(c, t, Len(s) + 1) = {} THEN e.out
                               ELSE Append(e.out, IdPacket(c, t, Len(s) + 1))
<1> DEFINE n == Len(s)
           z == Since(Zeros(s), n + 1)
           b == e.bits
           found == {i \in DOMAIN b : IsPrefix(c.prefix, SubSeq(b, i, Len(b)))}
           S == Starts(c, t, n + 1)
           pdu == WholeBytes(SubSeq(b, Min(found), Len(b)))
<1>1. n \in Nat /\ n + 1 \in Nat /\ \A p \in Zeros(s) : p \in Nat /\ p < n + 1
    BY DEF Zeros, Adds
<1>2. z \in 0..n
    <2>1. \A p \in Zeros(s) : p \in 1..n
        BY DEF Zeros, Adds
    <2> QED BY <1>1, <2>1, LastBefore
<1>3. b = [i \in 1..(n - z) |-> Bit(s[z + i])]
    BY DEF IdHolds
<1>4. /\ b \in Seq({0, 1}) /\ Len(b) = n - z /\ DOMAIN b = 1..(n - z) /\ n - z \in Nat
      /\ \A i \in 1..(n - z) : b[i] = Bit(s[z + i])
    <2> HIDE DEF z, b
    <2> QED BY <1>1, <1>2, <1>3, BitsSince
<1>5. \A i \in 1..(n - z) : i \in found <=> z + i \in S
    <2>1. \A i \in 1..Len(b) : IsPrefix(c.prefix, SubSeq(b, i, Len(b))) <=> z + i \in S
        BY <1>3, FoundAre
    <2> HIDE DEF z, b, S
    <2> QED BY <1>4, <2>1
<1>6. \A p \in S : p \in (z + 1)..n
    <2>1. Since(Zeros(t), n + 1) = z
        <3>1. \A p : (p \in Zeros(s) /\ p < n + 1) <=> (p \in Zeros(t) /\ p < n + 1)
            BY <1>1 DEF Zeros, Adds
        <3> QED BY <3>1, SinceSame
    <2> HIDE DEF z
    <2> QED BY <1>1, <1>2, <2>1 DEF Starts
<1>7. found \subseteq 1..(n - z)
    BY <1>4
<1> HIDE DEF z, b, S, found
<1>8. found = {} <=> S = {}
    <2>1. ASSUME NEW p \in S PROVE found # {}
        <3>1. p - z \in 1..(n - z) /\ z + (p - z) = p
            BY <1>1, <1>2, <1>6
        <3> QED BY <1>5, <3>1
    <2> QED BY <1>5, <1>7, <2>1
<1>9. Emit(c, e) = [e EXCEPT !.bits = << >>,
                             !.out = IF found = {} THEN @ ELSE Append(@, pdu)]
    BY DEF Emit, found, b
<1>10. IsDecoder(e)
    BY DEF IdHolds
<1>11. /\ IsDecoder(Emit(c, e)) /\ Emit(c, e).bits = << >>
       /\ Emit(c, e).out = IF found = {} THEN e.out ELSE Append(e.out, pdu)
    <2> HIDE DEF pdu
    <2> QED BY <1>9, <1>10 DEF IsDecoder
<1>12. ASSUME S # {} PROVE pdu = IdPacket(c, t, n + 1)
    <2> DEFINE f == Min(found)
               m == Min(S)
    <2>1. found \subseteq Nat /\ found # {} /\ S \subseteq Nat
        BY <1>1, <1>2, <1>4, <1>6, <1>7, <1>8, <1>12
    <2>2. f \in found /\ (\A i \in found : f <= i) /\ m \in S /\ \A i \in S : m <= i
        BY <1>12, <2>1, MinIs
    <2> HIDE DEF f, m
    <2>3. f \in 1..(n - z) /\ m \in (z + 1)..n
        BY <1>6, <1>7, <2>2
    <2>4. m = z + f
        <3>1. z + f \in S
            BY <1>5, <2>2, <2>3
        <3>2. m - z \in 1..(n - z) /\ z + (m - z) = m
            BY <1>1, <1>2, <2>3
        <3>3. m - z \in found
            BY <1>5, <2>2, <3>2
        <3>4. m <= z + f /\ f <= m - z
            BY <2>2, <3>1, <3>3
        <3> QED BY <1>1, <1>2, <2>3, <3>4
    <2> DEFINE k == (n + 1) - m
               r == SubSeq(b, f, n - z)
               g == 8 * (k \div 8)
    <2>5. k \in Nat /\ k = (n - z) - f + 1
        BY <1>1, <1>2, <2>3, <2>4
    <2>6. g = k - (k % 8) /\ g \in 0..k
        BY <2>5, FlooredBy8
    <2>7. /\ r \in Seq({0, 1}) /\ Len(r) = k
          /\ \A i \in 1..k : r[i] = b[f + i - 1]
        <3>1. \A i \in f..(n - z) : b[i] \in {0, 1}
            BY <1>4, <2>3, ElementOfSeq
        <3>2. f \in Int /\ n - z \in Int /\ f <= n - z
            BY <1>4, <2>3
        <3>3. /\ r \in Seq({0, 1}) /\ Len(r) = (n - z) - f + 1
              /\ \A i \in 1..((n - z) - f + 1) : r[i] = b[f + i - 1]
            BY <3>1, <3>2, SubSeqProperties
        <3> QED BY <2>5, <3>3
    <2>8. pdu = SubSeq(r, 1, g)
        BY <1>4, <2>7 DEF WholeBytes, f
    <2> HIDE DEF r, k, g, pdu
    <2>9. /\ SubSeq(r, 1, g) \in Seq({0, 1}) /\ Len(SubSeq(r, 1, g)) = g
          /\ \A i \in 1..g : SubSeq(r, 1, g)[i] = r[i]
        <3>1. 1 \in Int /\ g \in Int /\ \A i \in 1..g : r[i] \in {0, 1}
            BY <2>5, <2>6, <2>7, ElementOfSeq
        <3>2. /\ SubSeq(r, 1, g) \in Seq({0, 1})
              /\ Len(SubSeq(r, 1, g)) = IF 1 <= g THEN g - 1 + 1 ELSE 0
              /\ \A i \in 1..(g - 1 + 1) : SubSeq(r, 1, g)[i] = r[1 + i - 1]
            BY <3>1, SubSeqProperties
        <3>3. \A i \in 1..g : i \in 1..(g - 1 + 1) /\ 1 + i - 1 = i
            BY <2>5, <2>6
        <3>4. (IF 1 <= g THEN g - 1 + 1 ELSE 0) = g
            BY <2>5, <2>6
        <3> QED BY <3>2, <3>3, <3>4
    <2>10. \A i \in 1..g : r[i] = Bit(t[m + i - 1])
        <3> TAKE i \in 1..g
        <3>1. i \in 1..k /\ f + i - 1 \in 1..(n - z) /\ z + (f + i - 1) = m + i - 1
              /\ m + i - 1 \in 1..n
            BY <1>1, <1>2, <2>3, <2>4, <2>5, <2>6
        <3>2. r[i] = Bit(s[m + i - 1])
            BY <1>4, <2>7, <3>1
        <3>3. t[m + i - 1] = s[m + i - 1]
            BY <3>1 DEF Adds
        <3> QED BY <3>2, <3>3
    <2>11. IdPacket(c, t, n + 1) = [i \in 1..g |-> Bit(t[m + i - 1])]
        BY <2>6 DEF IdPacket, k, m, S
    <2>12. SubSeq(r, 1, g) = [i \in 1..g |-> Bit(t[m + i - 1])]
        <3> DEFINE q == SubSeq(r, 1, g)
        <3>1. DOMAIN q = 1..g /\ q = [i \in DOMAIN q |-> q[i]]
            BY <2>9, LenProperties
        <3> HIDE DEF q
        <3>2. \A i \in 1..g : q[i] = Bit(t[m + i - 1])
            BY <2>9, <2>10 DEF q
        <3>3. q = [i \in 1..g |-> Bit(t[m + i - 1])]
            BY <3>1, <3>2
        <3> QED BY <3>3 DEF q
    <2> QED BY <2>8, <2>11, <2>12
<1> QED BY <1>8, <1>11, <1>12 DEF S

Idn == INSTANCE FoldFacts WITH Op <- IdentityStep
Pn  == INSTANCE FoldFacts WITH Op <- PnStep
Ook == INSTANCE FoldFacts WITH Op <- OokStep

LEMMA AppendedLast ==
    ASSUME NEW V, NEW s \in Seq(V), NEW u \in Seq(V), NEW x \in V
    PROVE  s \o Append(u, x) = Append(s \o u, x)
<1>1. <<x>> \in Seq(V) /\ s \o u \in Seq(V)
    BY ConcatProperties
<1>2. Append(s \o u, x) = (s \o u) \o <<x>> /\ Append(u, x) = u \o <<x>>
    BY <1>1, AppendIsConcat
<1>3. (s \o u) \o <<x>> = s \o (u \o <<x>>)
    BY <1>1, ConcatAssociative
<1> QED BY <1>2, <1>3

LEMMA OneMore ==
    ASSUME NEW n \in Nat, NEW S, NEW T, \A p \in S : p \in 1..n, \A p \in T : p \in 1..(n + 1),
           \A p \in 1..n : p \in S <=> p \in T
    PROVE  /\ n + 1 \notin T => T = S
           /\ n + 1 \in T => T = S \cup {n + 1}
<1>1. \A p \in T : p \in 1..n \/ p = n + 1
    OBVIOUS
<1>2. \A p \in S : p \in T
    OBVIOUS
<1>3. \A p \in T : p \in S \/ p = n + 1
    BY <1>1
<1> QED BY <1>2, <1>3

LEMMA IdStep ==
    ASSUME NEW c, c.prefix \in Seq({0, 1}), NEW s \in Seq(Signs), NEW x \in Signs,
           NEW e, IdHolds(c, s, e)
    PROVE  IdHolds(c, Append(s, x), IdentitySample(c, e, x))
<1> DEFINE t == Append(s, x)
           n == Len(s)
           z == Since(Zeros(s), n + 1)
           y == Since(Zeros(t), (n + 1) + 1)
           f == IdentitySample(c, e, x)
<1>1. Adds(s, x, t) /\ t \in Seq(Signs)
    BY AppendAdds
<1> HIDE DEF t
<1>2. n \in Nat /\ n + 1 \in Nat /\ (n + 1) + 1 \in Nat /\ Len(t) = n + 1
      /\ (\A p \in Zeros(s) : p \in 1..n) /\ (\A p \in Zeros(t) : p \in 1..(n + 1))
    BY <1>1 DEF Adds, Zeros
<1>3. z \in 0..n /\ y \in 0..(n + 1)
    BY <1>2, LastBefore
<1>4. \A p \in 1..n : p \in Zeros(s) <=> p \in Zeros(t)
    BY <1>1 DEF Adds, Zeros
<1>5. IsDecoder(e) /\ e.bits = [i \in 1..(n - z) |-> Bit(s[z + i])] /\ e.out = IdentityPackets(c, s)
    BY DEF IdHolds
<1>6. /\ IdentityPackets(c, s) = Part(IdPacketsAt(c, s), Prefixed(c, s))
      /\ IdentityPackets(c, t) = Part(IdPacketsAt(c, t), Prefixed(c, t))
    BY <1>1, IdentityPacketsAre
<1>7. \A p \in Prefixed(c, s) : p \in Nat /\ p \in 1..n /\ p <= n /\ p < n + 1
    BY <1>2 DEF Prefixed
<1>8. Part(IdPacketsAt(c, s), Prefixed(c, s)) = Part(IdPacketsAt(c, t), Prefixed(c, s))
    <2>1. \A p \in Prefixed(c, s) : IdPacketsAt(c, s)[p] = IdPacketsAt(c, t)[p]
        BY <1>1, PacketsStay
    <2> QED BY <1>2, <1>7, <2>1, PartSame
<1>9. \A p \in 1..n : p \in Prefixed(c, s) <=> p \in Prefixed(c, t)
    BY <1>1, PacketsStay
<1>0. ASSUME IsDecoder(f), f.bits = [i \in 1..((n + 1) - y) |-> Bit(t[y + i])],
             f.out = IdentityPackets(c, t)
      PROVE  IdHolds(c, t, f)
    <2> HIDE DEF f
    <2> QED BY <1>0, <1>2 DEF IdHolds
<1>10. CASE x = 0
    <2>1. n + 1 \in Zeros(t)
        BY <1>1, <1>10 DEF Adds, Zeros
    <2>2. y = n + 1
        <3>1. (\A p \in Zeros(t) : p \in Nat) /\ n + 1 < (n + 1) + 1
              /\ \A p \in Zeros(t) : p < (n + 1) + 1 => p <= n + 1
            BY <1>2
        <3> QED BY <1>2, <2>1, <3>1, SinceIs
    <2>3. f = Emit(c, e)
        BY <1>10 DEF IdentitySample
    <2>4. /\ IsDecoder(f) /\ f.bits = << >>
          /\ f.out = IF Starts(c, t, n + 1) = {} THEN e.out
                     ELSE Append(e.out, IdPacket(c, t, n + 1))
        BY <1>1, <1>10, <2>3, EmitIs
    <2>5. f.bits = [i \in 1..((n + 1) - y) |-> Bit(t[y + i])]
        BY <1>2, <2>2, <2>4
    <2>6. n + 1 \in Prefixed(c, t) <=> Starts(c, t, n + 1) # {}
        BY <2>1 DEF Prefixed
    <2>7. CASE Starts(c, t, n + 1) = {}
        <3>1. Prefixed(c, t) = Prefixed(c, s)
            <4>1. \A p \in Prefixed(c, t) : p \in 1..(n + 1)
                BY <1>2 DEF Prefixed
            <4> QED BY <1>2, <1>7, <1>9, <2>6, <2>7, <4>1, OneMore
        <3>2. f.out = IdentityPackets(c, t)
            BY <1>5, <1>6, <1>8, <2>4, <2>7, <3>1
        <3> QED BY <1>0, <2>4, <2>5, <3>2 DEF t
    <2>8. CASE Starts(c, t, n + 1) # {}
        <3>1. Prefixed(c, t) = Prefixed(c, s) \cup {n + 1}
            <4>1. \A p \in Prefixed(c, t) : p \in 1..(n + 1)
                BY <1>2 DEF Prefixed
            <4> QED BY <1>2, <1>7, <1>9, <2>6, <2>8, <4>1, OneMore
        <3>2. Part(IdPacketsAt(c, t), Prefixed(c, s) \cup {n + 1})
                 = Append(Part(IdPacketsAt(c, t), Prefixed(c, s)), IdPacketsAt(c, t)[n + 1])
            BY <1>2, <1>7, PartAdd
        <3>3. IdPacketsAt(c, t)[n + 1] = IdPacket(c, t, n + 1)
            BY <1>1, <1>2 DEF IdPacketsAt, Adds
        <3>4. f.out = IdentityPackets(c, t)
            BY <1>5, <1>6, <1>8, <2>4, <2>8, <3>1, <3>2, <3>3
        <3> QED BY <1>0, <2>4, <2>5, <3>4 DEF t
    <2> QED BY <2>7, <2>8
<1>11. CASE x # 0
    <2>1. n + 1 \notin Zeros(t)
        BY <1>1, <1>11 DEF Adds, Zeros
    <2>2. Zeros(t) = Zeros(s)
        BY <1>2, <1>4, <2>1, OneMore
    <2>3. y = z
        <3>1. \A p : (p \in Zeros(t) /\ p < (n + 1) + 1) <=> (p \in Zeros(s) /\ p < n + 1)
            BY <1>2, <2>2
        <3>2. {p \in Zeros(t) : p < (n + 1) + 1} = {p \in Zeros(s) : p < n + 1}
            BY <3>1
        <3> QED BY <3>2 DEF Since
    <2>4. Prefixed(c, t) = Prefixed(c, s)
        <3>1. \A p \in Prefixed(c, t) : p \in 1..n
            BY <1>2, <2>2 DEF Prefixed
        <3> QED BY <1>7, <1>9, <3>1
    <2>5. f = [e EXCEPT !.bits = Append(@, IF x < 0 THEN 0 ELSE 1)]
        BY <1>11 DEF IdentitySample
    <2>6. IsDecoder(f) /\ f.out = e.out /\ f.bits = Append(e.bits, IF x < 0 THEN 0 ELSE 1)
        <3> DEFINE v == Append(e.bits, IF x < 0 THEN 0 ELSE 1)
        <3>1. f = [e EXCEPT !.bits = v]
            BY <2>5
        <3> HIDE DEF f, v
        <3>2. IsDecoder(f) /\ f.out = e.out /\ f.bits = v
            BY <1>5, <3>1 DEF IsDecoder
        <3> QED BY <3>2 DEF v
    <2>7. (IF x < 0 THEN 0 ELSE 1) = Bit(x) /\ Bit(x) \in {0, 1}
        BY <1>11 DEF Bit, Signs
    <2>8. f.bits = [i \in 1..((n + 1) - y) |-> Bit(t[y + i])]
        <3> DEFINE b == e.bits
                   r == Append(b, Bit(x))
                   q == [i \in 1..((n + 1) - z) |-> Bit(t[z + i])]
        <3>1. /\ b \in Seq({0, 1}) /\ Len(b) = n - z /\ n - z \in Nat
              /\ \A i \in 1..(n - z) : b[i] = Bit(s[z + i])
            <4> HIDE DEF z, b
            <4>1. b = [i \in 1..(n - z) |-> Bit(s[z + i])]
                BY <1>5 DEF b, z
            <4> QED BY <1>2, <1>3, <4>1, BitsSince
        <3>2. /\ q \in Seq({0, 1}) /\ Len(q) = (n + 1) - z /\ (n + 1) - z \in Nat
              /\ \A i \in 1..((n + 1) - z) : q[i] = Bit(t[z + i])
            <4>0. z \in 0..Len(t)
                BY <1>2, <1>3
            <4>1. q = [i \in 1..(Len(t) - z) |-> Bit(t[z + i])]
                BY <1>2
            <4> HIDE DEF z, q, n
            <4> QED BY <1>1, <1>2, <4>0, <4>1, BitsSince
        <3> HIDE DEF b, q, z
        <3>3. /\ r \in Seq({0, 1}) /\ Len(r) = Len(b) + 1 /\ r[Len(b) + 1] = Bit(x)
              /\ \A i \in 1..Len(b) : r[i] = b[i]
            BY <2>7, <3>1, AppendProperties
        <3> HIDE DEF r
        <3>4. \A i \in 1..Len(r) : r[i] = q[i]
            <4> TAKE i \in 1..Len(r)
            <4>1. CASE i \in 1..(n - z)
                <5>1. z + i \in 1..n /\ i \in 1..((n + 1) - z)
                    BY <1>2, <1>3, <4>1
                <5> QED BY <1>1, <3>1, <3>2, <3>3, <4>1, <5>1 DEF Adds
            <4>2. CASE i = (n - z) + 1
                <5>1. z + i = n + 1 /\ i \in 1..((n + 1) - z)
                    BY <1>2, <1>3, <4>2
                <5> QED BY <1>1, <3>1, <3>2, <3>3, <4>2, <5>1 DEF Adds
            <4>3. i \in 1..(n - z) \/ i = (n - z) + 1
                BY <3>1, <3>3
            <4> QED BY <4>1, <4>2, <4>3
        <3>5. Len(r) = Len(q)
            BY <1>2, <1>3, <3>1, <3>2, <3>3
        <3>6. r = q
            BY <3>2, <3>3, <3>4, <3>5, SeqEqual
        <3> QED BY <2>3, <2>6, <2>7, <3>6 DEF r, b, q
    <2>9. f.out = IdentityPackets(c, t)
        BY <1>5, <1>6, <1>8, <2>4, <2>6
    <2> QED BY <1>0, <2>6, <2>8, <2>9 DEF t
<1> QED BY <1>10, <1>11 DEF t

-----------------------------------------------------------------------------
(* A window of samples.                                                    *)

LEMMA IdWindow ==
    ASSUME graph \in Graphs, graph.conf.prefix \in Seq({0, 1}),
           NEW s \in Seq(Signs), NEW e, IdHolds(graph.conf, s, e), NEW w \in Seq(Signs)
    PROVE  IdHolds(graph.conf, s \o w, FoldLeft(IdentityStep, e, w))
<1> DEFINE H(u) == IdHolds(graph.conf, s \o u, Idn!Fold(e, u))
           P == {u \in Seq(Signs) : H(u)}
<1>1. << >> \in P
    <2>1. s \o << >> = s /\ << >> \in Seq(Signs)
        BY ConcatEmptySeq, EmptySeq
    <2>2. Idn!Fold(e, << >>) = e
        BY Idn!FoldEmpty
    <2> QED BY <2>1, <2>2
<1>2. ASSUME NEW u \in Seq(Signs), u \in P, NEW x \in Signs PROVE Append(u, x) \in P
    <2>1. Idn!Fold(e, Append(u, x)) = IdentityStep(Idn!Fold(e, u), x)
        BY Idn!FoldAppend
    <2>2. s \o Append(u, x) = Append(s \o u, x)
        BY AppendedLast
    <2>3. s \o u \in Seq(Signs) /\ Append(u, x) \in Seq(Signs)
        BY ConcatProperties, AppendProperties
    <2>4. IdHolds(graph.conf, s \o u, Idn!Fold(e, u))
        BY <1>2
    <2>5. IdHolds(graph.conf, Append(s \o u, x), IdentitySample(graph.conf, Idn!Fold(e, u), x))
        BY <2>3, <2>4, IdStep
    <2> QED BY <2>1, <2>2, <2>3, <2>5 DEF IdentityStep
<1> HIDE DEF P
<1>3. \A u \in Seq(Signs) : u \in P
    BY <1>1, <1>2, Idn!SeqInduction
<1>4. H(w)
    BY <1>3 DEF P
<1>5. FoldLeft(IdentityStep, e, w) = Idn!Fold(e, w)
    BY DEF Idn!Fold, FoldLeft, MapThenFoldSet, Idn!FoldLeft, Idn!MapThenFoldSet, Max, Idn!Max
<1> QED BY <1>4, <1>5

IdInv ==
    graph.sink = "pn_decode_identity_b" => IdHolds(graph.conf, Consumed, d)

LEMMA NoneConsumed ==
    ASSUME Init
    PROVE  /\ Consumed = << >> /\ IsDecoder(d)
           /\ d.bits = << >> /\ d.out = << >> /\ d.next = -1 /\ d.silent = 0 /\ d.last = 0
<1>1. read = 0 /\ d = [bits |-> << >>, silent |-> 0, next |-> -1, last |-> 0,
                       buf |-> << >>, len |-> 0, out |-> << >>]
    BY DEF Init
<1>2. Consumed = << >>
    BY <1>1, SubSeqEmpty DEF Consumed
<1> QED BY <1>1, <1>2 DEF IsDecoder

LEMMA NothingIs ==
    ASSUME NEW s, s = << >>
    PROVE  /\ Len(s) = 0 /\ DOMAIN s = {} /\ s \in Seq(Signs) /\ s \in Seq({0, 1})
           /\ \A e \in Nat : Since({}, e) = 0
<1>1. \A e \in Nat : Since({}, e) = 0
    BY SinceIs
<1> QED BY <1>1, EmptySeq

LEMMA IdInit == Init => IdInv
<1> SUFFICES ASSUME Init PROVE IdHolds(graph.conf, Consumed, d)
    BY DEF IdInv
<1> DEFINE s == Consumed
           z == Since(Zeros(s), Len(s) + 1)
<1>1. s = << >> /\ IsDecoder(d) /\ d.bits = << >> /\ d.out = << >>
    BY NoneConsumed
<1> HIDE DEF s
<1>2. Len(s) = 0 /\ DOMAIN s = {} /\ s \in Seq(Signs)
    BY <1>1, NothingIs
<1>3. Zeros(s) = {} /\ Prefixed(graph.conf, s) = {}
    BY <1>2 DEF Zeros, Prefixed
<1>4. z = 0
    <2>1. Zeros(s) = {} /\ Len(s) + 1 \in Nat
        BY <1>2, <1>3
    <2> QED BY <1>1, <2>1, NothingIs
<1>5. IdentityPackets(graph.conf, s) = << >>
    BY <1>2, <1>3, IdentityPacketsAre, PartEmpty
<1>6. d.bits = [i \in 1..(Len(s) - z) |-> Bit(s[z + i])]
    BY <1>1, <1>2, <1>4
<1>7. IdHolds(graph.conf, s, d)
    BY <1>1, <1>5, <1>6 DEF IdHolds
<1> QED BY <1>7 DEF s

(* What a call of a symbol decoder is handed.                              *)
LEMMA HandedSigns ==
    ASSUME TypeInv, SignInv, NEW n \in graph.windows, read + n <= Len(stream)
    PROVE  /\ graph.sink \in {"pn_decode_f", "pn_decode_identity_b"} =>
                 Consumed \in Seq(Signs) /\ Offered(n) \in Seq(Signs)
           /\ graph.sink = "ook_decode_b" =>
                 Consumed \in Seq({0, 1}) /\ Offered(n) \in Seq({0, 1})
<1>1. n \in Nat
    BY HandedIs
<1>2. stream \in Seq(Signs) => Consumed \in Seq(Signs) /\ Offered(n) \in Seq(Signs)
    BY <1>1, SamplesIn
<1>3. stream \in Seq({0, 1}) => Consumed \in Seq({0, 1}) /\ Offered(n) \in Seq({0, 1})
    BY <1>1, SamplesIn
<1> QED BY <1>2, <1>3 DEF SignInv

LEMMA IdCall ==
    ASSUME TypeInv, SignInv, IdInv, NEW n \in graph.windows, IdentityWork(n)
    PROVE  IdInv'
<1>1. SinkCall(n) /\ read' = read + n
    BY FoldWorkIs
<1>2. n \in Nat /\ read + n <= Len(stream) /\ UNCHANGED <<graph, stream>>
    BY <1>1 DEF SinkCall
<1>3. /\ graph.sink = "pn_decode_identity_b"
      /\ d' = FoldLeft(IdentityStep, d, Offered(n))
    BY DEF IdentityWork, SinkWork
<1>4. Consumed' = Consumed \o Offered(n)
    BY <1>1, <1>2, ConsumedGrows
<1>5. Consumed \in Seq(Signs) /\ Offered(n) \in Seq(Signs)
    BY <1>2, <1>3, HandedSigns
<1>6. IdHolds(graph.conf, Consumed, d)
    BY <1>3 DEF IdInv
<1>7. graph \in Graphs /\ graph.conf.prefix \in Seq({0, 1})
    BY <1>3, SignalIs DEF TypeInv, IsSignal
<1>8. IdHolds(graph.conf, Consumed \o Offered(n), FoldLeft(IdentityStep, d, Offered(n)))
    BY <1>5, <1>6, <1>7, IdWindow
<1>9. graph'.conf = graph.conf
    BY <1>2
<1> QED BY <1>3, <1>4, <1>8, <1>9 DEF IdInv

LEMMA IdNext ==
    ASSUME TypeInv, SignInv, IdInv, [Next]_vars
    PROVE  IdInv'
<1>1. TypeInv' /\ UNCHANGED graph
    BY StepIs
<1>2. CASE UNCHANGED <<read, d, alone>> /\ Longer
    <2>1. Consumed' = Consumed
        BY <1>2, ConsumedStays
    <2> QED BY <1>1, <1>2, <2>1 DEF IdInv
<1>3. ASSUME NEW n \in graph.windows, Calls(n) PROVE IdInv'
    <2>1. CASE graph.sink = "pn_decode_identity_b"
        BY <1>3, <2>1, OwnCall, IdCall
    <2>2. CASE graph.sink # "pn_decode_identity_b"
        BY <1>1, <2>2 DEF IdInv
    <2> QED BY <2>1, <2>2
<1> QED BY <1>2, <1>3, StepIs

-----------------------------------------------------------------------------
(* Sound, silence and the ends of packets.                                 *)

Sounds(s) == {p \in DOMAIN s : s[p] # 0}

(* The last sound so far, and where the packet that goes on began.         *)
Sound(s) == Since(Sounds(s), Len(s) + 1)
Began(c, s) == Since(Ends(c, s), Len(s) + 1) + 1

LEMMA SinceMore ==
    ASSUME NEW n \in Nat, NEW S, NEW T, \A p \in S : p \in 1..n, \A p \in T : p \in 1..(n + 1),
           \A p \in 1..n : p \in S <=> p \in T
    PROVE  /\ Since(T, n + 1) = Since(S, n + 1)
           /\ Since(T, (n + 1) + 1) = IF n + 1 \in T THEN n + 1 ELSE Since(S, n + 1)
           /\ Since(S, n + 1) \in 0..n
           /\ Since(S, n + 1) = 0 \/ Since(S, n + 1) \in S
           /\ \A p \in S : p <= Since(S, n + 1)
<1>1. \A p : (p \in T /\ p < n + 1) <=> (p \in S /\ p < n + 1)
    <2> TAKE p
    <2>1. p \in S => p \in 1..n /\ p < n + 1
        OBVIOUS
    <2>2. p \in T /\ p < n + 1 => p \in 1..n
        OBVIOUS
    <2> QED BY <2>1, <2>2
<1>2. Since(T, n + 1) = Since(S, n + 1)
    BY <1>1, SinceSame
<1>3. ASSUME n + 1 \in T PROVE Since(T, (n + 1) + 1) = n + 1
    <2>1. /\ (\A p \in T : p \in Nat) /\ n + 1 \in T /\ n + 1 < (n + 1) + 1 /\ (n + 1) + 1 \in Nat
          /\ \A p \in T : p < (n + 1) + 1 => p <= n + 1
        BY <1>3
    <2>2. Since(T, (n + 1) + 1) = n + 1
        BY <2>1, SinceIs
    <2> QED BY <1>3, <2>2
<1>4. ASSUME n + 1 \notin T PROVE Since(T, (n + 1) + 1) = Since(S, n + 1)
    <2>1. T = S
        BY <1>4, OneMore
    <2>2. {p \in T : p < (n + 1) + 1} = {p \in S : p < n + 1}
        BY <2>1
    <2>3. Since(T, (n + 1) + 1) = Since(S, n + 1)
        BY <2>2 DEF Since
    <2> QED BY <1>4, <2>3
<1>5. Since(S, n + 1) \in 0..n /\ \A p \in S : p <= Since(S, n + 1)
    BY LastBefore
<1>6. Since(S, n + 1) = 0 \/ Since(S, n + 1) \in S
    <2>1. (\A p \in S : p \in Nat) /\ n + 1 \in Nat
        OBVIOUS
    <2> QED BY <2>1, SinceIs
<1> QED BY <1>2, <1>3, <1>4, <1>5, <1>6

LEMMA SoundIs ==
    ASSUME NEW s, Len(s) \in Nat, DOMAIN s = 1..Len(s)
    PROVE  /\ Sound(s) \in 0..Len(s)
           /\ Sound(s) > 0 => s[Sound(s)] # 0
           /\ \A p \in (Sound(s) + 1)..Len(s) : s[p] = 0
<1> DEFINE n == Len(s)
           l == Sound(s)
<1>1. \A p \in Sounds(s) : p \in 1..n
    BY DEF Sounds
<1>2. l \in 0..n /\ (l = 0 \/ l \in Sounds(s)) /\ \A p \in Sounds(s) : p <= l
    BY <1>1, SinceMore, \A p \in Sounds(s) : p \in 1..(n + 1) DEF Sound
<1> HIDE DEF l
<1>3. l > 0 => s[l] # 0
    BY <1>2 DEF Sounds
<1>4. \A p \in (l + 1)..n : s[p] = 0
    <2> TAKE p \in (l + 1)..n
    <2>1. p \in 1..n /\ ~(p <= l)
        BY <1>2
    <2>2. p \notin Sounds(s)
        BY <1>2, <2>1
    <2> QED BY <2>1, <2>2 DEF Sounds
<1> QED BY <1>2, <1>3, <1>4 DEF l

LEMMA EndsAre ==
    ASSUME NEW c, c.nulls \in Nat \ {0}, NEW s, Len(s) \in Nat, DOMAIN s = 1..Len(s)
    PROVE  /\ \A p \in Ends(c, s) : p \in 1..Len(s) /\ s[p] = 0
           /\ Began(c, s) \in 1..(Len(s) + 1)
           /\ Began(c, s) > 1 => s[Began(c, s) - 1] = 0 /\ Began(c, s) - 1 \in Ends(c, s)
           /\ \A p \in Ends(c, s) : p < Began(c, s)
<1> DEFINE n == Len(s)
           y == Since(Ends(c, s), n + 1)
<1>1. ASSUME NEW p \in Ends(c, s) PROVE p \in 1..n /\ s[p] = 0
    <2>1. p \in 1..n /\ \A q \in (p - c.nulls + 1)..p : s[q] = 0
        BY DEF Ends
    <2>2. p \in (p - c.nulls + 1)..p
        BY <2>1
    <2> QED BY <2>1, <2>2
<1>2. \A p \in Ends(c, s) : p \in 1..n /\ p \in 1..(n + 1)
    BY <1>1
<1>3. y \in 0..n /\ (y = 0 \/ y \in Ends(c, s)) /\ \A p \in Ends(c, s) : p <= y
    BY <1>2, SinceMore
<1>4. Began(c, s) = y + 1
    BY DEF Began
<1> HIDE DEF y
<1>5. Began(c, s) - 1 = y
    BY <1>3, <1>4
<1>6. Began(c, s) \in 1..(n + 1) /\ \A p \in Ends(c, s) : p < Began(c, s)
    BY <1>2, <1>3, <1>4
<1>7. Began(c, s) > 1 => s[y] = 0 /\ y \in Ends(c, s)
    BY <1>1, <1>3, <1>4
<1> QED BY <1>1, <1>5, <1>6, <1>7

(* One more sample: the last sound, the ends and the beginning.            *)
LEMMA Passes ==
    ASSUME NEW c, c.nulls \in Nat \ {0}, NEW s, NEW x, NEW t, Adds(s, x, t)
    PROVE  LET n == Len(s)
           IN  /\ \A p \in 1..n : p \in Ends(c, s) <=> p \in Ends(c, t)
               /\ Sound(t) = IF x # 0 THEN n + 1 ELSE Sound(s)
               /\ Began(c, t) = IF n + 1 \in Ends(c, t) THEN n + 2 ELSE Began(c, s)
               /\ n + 1 \in Ends(c, t) <=>
                     x = 0 /\ Sound(s) >= Began(c, s) /\ (n + 1) - Sound(s) = c.nulls
               /\ \A e \in 1..(n + 1) : Beginning(c, t, e) = Beginning(c, s, e)
               /\ Beginning(c, s, n + 1) = Began(c, s)
               /\ n > 0 /\ s[n] # 0 => Sound(s) = n /\ Began(c, s) <= n
<1> DEFINE n == Len(s)
           k == c.nulls
           l == Sound(s)
           b == Began(c, s)
<1>1. /\ n \in Nat /\ Len(t) = n + 1 /\ DOMAIN s = 1..n /\ DOMAIN t = 1..(n + 1)
      /\ t[n + 1] = x /\ \A i \in 1..n : t[i] = s[i]
    BY DEF Adds
<1>2. k \in Nat \ {0}
    OBVIOUS
<1>3. l \in 0..n /\ (l > 0 => s[l] # 0) /\ \A p \in (l + 1)..n : s[p] = 0
    BY <1>1, SoundIs
<1>4. /\ (\A p \in Ends(c, s) : p \in 1..n /\ s[p] = 0)
      /\ b \in 1..(n + 1) /\ (b > 1 => s[b - 1] = 0 /\ b - 1 \in Ends(c, s))
      /\ \A p \in Ends(c, s) : p < b
    BY <1>1, <1>2, EndsAre
<1>5. \A p \in Ends(c, t) : p \in 1..(n + 1)
    BY <1>1 DEF Ends
<1>6. \A p \in 1..n : p \in Ends(c, s) <=> p \in Ends(c, t)
    <2> TAKE p \in 1..n
    <2>1. p > k => p - k \in 1..n
        BY <1>1, <1>2
    <2>2. \A q \in (p - k + 1)..p : p > k => q \in 1..n
        BY <1>1, <1>2
    <2>3. p > k => t[p - k] = s[p - k]
        BY <1>1, <2>1
    <2>4. \A q \in (p - k + 1)..p : p > k => t[q] = s[q]
        BY <1>1, <2>2
    <2>5. p \in DOMAIN s /\ p \in DOMAIN t
        BY <1>1
    <2> QED BY <2>3, <2>4, <2>5 DEF Ends
<1>7. (\A p \in Sounds(s) : p \in 1..n) /\ (\A p \in Sounds(t) : p \in 1..(n + 1))
      /\ \A p \in 1..n : p \in Sounds(s) <=> p \in Sounds(t)
    BY <1>1 DEF Sounds
<1>8. Sound(t) = IF x # 0 THEN n + 1 ELSE l
    <2>1. n + 1 \in Sounds(t) <=> x # 0
        BY <1>1 DEF Sounds
    <2>2. Since(Sounds(t), (n + 1) + 1) = IF n + 1 \in Sounds(t) THEN n + 1 ELSE Since(Sounds(s), n + 1)
        BY <1>1, <1>7, SinceMore
    <2> QED BY <1>1, <2>1, <2>2 DEF Sound
<1>9. /\ Since(Ends(c, t), n + 1) = Since(Ends(c, s), n + 1)
      /\ Since(Ends(c, t), (n + 1) + 1) =
            IF n + 1 \in Ends(c, t) THEN n + 1 ELSE Since(Ends(c, s), n + 1)
    BY <1>1, <1>4, <1>5, <1>6, SinceMore
<1>10. Began(c, t) = IF n + 1 \in Ends(c, t) THEN n + 2 ELSE b
    BY <1>1, <1>9 DEF Began
<1>11. ASSUME n + 1 \in Ends(c, t)
       PROVE  x = 0 /\ l >= b /\ (n + 1) - l = k
    <2>1. /\ n + 1 > k /\ t[(n + 1) - k] # 0
          /\ \A q \in ((n + 1) - k + 1)..(n + 1) : t[q] = 0
        BY <1>11 DEF Ends
    <2>2. x = 0
        BY <1>1, <1>2, <2>1
    <2>3. (n + 1) - k \in 1..n
        BY <1>1, <1>2, <2>1
    <2>4. (n + 1) - k <= l
        BY <1>1, <1>3, <2>1, <2>3
    <2>5. ~(l > (n + 1) - k)
        <3> SUFFICES ASSUME l > (n + 1) - k PROVE FALSE
            OBVIOUS
        <3>1. l \in ((n + 1) - k + 1)..(n + 1) /\ l \in 1..n
            BY <1>1, <1>2, <1>3, <2>3
        <3>2. s[l] = 0
            BY <1>1, <2>1, <3>1
        <3> QED BY <1>3, <3>1, <3>2
    <2>6. (n + 1) - l = k
        BY <1>1, <1>2, <1>3, <2>4, <2>5
    <2>7. l >= b
        <3> SUFFICES ASSUME l < b PROVE FALSE
            BY <1>1, <1>3, <1>4
        <3>1. l > 0 /\ b > 1
            BY <1>1, <1>3, <1>4, <2>3, <2>6
        <3>2. b - 1 \in Ends(c, s) /\ b - 1 \in 1..n
            BY <1>4, <3>1
        <3>3. b - 1 > k /\ \A q \in ((b - 1) - k + 1)..(b - 1) : s[q] = 0
            BY <3>2 DEF Ends
        <3>4. l \in ((b - 1) - k + 1)..(b - 1)
            BY <1>1, <1>2, <1>3, <1>4, <2>6, <3>2
        <3> QED BY <1>3, <3>1, <3>3, <3>4
    <2> QED BY <2>2, <2>6, <2>7
<1>12. ASSUME x = 0, l >= b, (n + 1) - l = k
       PROVE  n + 1 \in Ends(c, t)
    <2>1. l \in 1..n /\ (n + 1) - k = l /\ n + 1 > k
        BY <1>1, <1>2, <1>3, <1>4, <1>12
    <2>2. t[(n + 1) - k] # 0
        BY <1>1, <1>3, <2>1
    <2>3. ASSUME NEW q \in ((n + 1) - k + 1)..(n + 1) PROVE t[q] = 0
        <3>1. q \in (l + 1)..n \/ q = n + 1
            BY <1>1, <2>1
        <3>2. q \in (l + 1)..n => q \in 1..n
            BY <1>1, <2>1
        <3> QED BY <1>1, <1>3, <1>12, <3>1, <3>2
    <2>4. n + 1 \in DOMAIN t
        BY <1>1
    <2> QED BY <2>1, <2>2, <2>3, <2>4 DEF Ends
<1>13. ASSUME NEW e \in 1..(n + 1) PROVE Beginning(c, t, e) = Beginning(c, s, e)
    <2>1. \A p : (p \in Ends(c, t) /\ p < e) <=> (p \in Ends(c, s) /\ p < e)
        <3> TAKE p
        <3>1. p \in Ends(c, t) /\ p < e => p \in 1..n
            BY <1>1, <1>5
        <3> QED BY <1>4, <1>6, <3>1
    <2>2. {p \in Ends(c, t) : p < e} = {p \in Ends(c, s) : p < e}
        BY <2>1
    <2> QED BY <2>2 DEF Beginning
<1>14. Beginning(c, s, n + 1) = b
    BY DEF Beginning, Began, Since
<1>15. ASSUME n > 0, s[n] # 0 PROVE l = n /\ b <= n
    <2>1. l = n
        <3>1. n \notin (l + 1)..n
            BY <1>3, <1>15
        <3> QED BY <1>1, <1>3, <1>15, <3>1
    <2>2. b # n + 1
        BY <1>1, <1>4, <1>15
    <2> QED BY <1>1, <1>4, <2>1, <2>2
<1> QED BY <1>6, <1>8, <1>10, <1>11, <1>12, <1>13, <1>14, <1>15

-----------------------------------------------------------------------------
(* The clock that an edge starts.                                          *)

LEMMA Divided ==
    ASSUME NEW a \in Nat, NEW m \in Nat \ {0}
    PROVE  /\ a % m \in 0..(m - 1) /\ a \div m \in Nat
           /\ a = m * (a \div m) + (a % m)
OBVIOUS

LEMMA ModUni ==
    ASSUME NEW a \in Nat, NEW m \in Nat \ {0}, NEW q \in Nat, NEW r \in 0..(m-1), a = m * q + r
    PROVE  a % m = r
OBVIOUS

LEMMA ModNext ==
    ASSUME NEW a \in Nat, NEW m \in Nat \ {0}
    PROVE  /\ a % m \in 0..(m - 1)
           /\ (a + 1) % m = IF a % m = m - 1 THEN 0 ELSE (a % m) + 1
<1>1. PICK q \in Nat, r \in 0..(m - 1) : a = m * q + r /\ r = a % m
    BY Divided
<1>2. CASE r = m - 1
    <2>0. m * (q + 1) = m * q + m
        OBVIOUS
    <2>1. PICK p \in Nat : p = m * q
        OBVIOUS
    <2>2. a + 1 = p + m
        BY <1>1, <1>2, <2>1
    <2>3. a + 1 = m * (q + 1) + 0 /\ a + 1 \in Nat /\ 0 \in 0..(m - 1) /\ q + 1 \in Nat
        BY <2>0, <2>1, <2>2
    <2>4. (a + 1) % m = 0
        BY <2>3, ModUni
    <2> QED BY <1>1, <1>2, <2>4
<1>3. CASE r # m - 1
    <2>1. PICK p \in Nat : p = m * q
        OBVIOUS
    <2>2. a + 1 = p + (r + 1) /\ r + 1 \in 0..(m - 1) /\ a + 1 \in Nat
        BY <1>1, <1>3, <2>1
    <2>3. (a + 1) % m = r + 1
        BY <2>1, <2>2, ModUni
    <2> QED BY <1>1, <1>3, <2>3
<1> QED BY <1>2, <1>3

(* Sample p is the offset and some whole symbols behind the last edge of E *)
(* since b.                                                                *)
OnBeat(c, E, b, p) ==
    LET k == p - Since(E, p + 1)
    IN  Since(E, p + 1) >= b /\ k >= c.offset /\ (k - c.offset) % c.sps = 0
Beats(c, E, b, m) == {p \in b..m : OnBeat(c, E, b, p)}

(* How many samples to wait, k samples behind the edge.                    *)
Wait(c, k) == IF k < c.offset THEN c.offset - k ELSE c.sps - ((k - c.offset) % c.sps)
Waits(c, E, b, n) ==
    LET q == Since(E, n + 1) IN IF q >= b THEN Wait(c, n - q) ELSE -1

LEMMA WaitIs ==
    ASSUME NEW c, c.sps \in Nat \ {0}, c.offset \in Nat, NEW k \in Nat
    PROVE  /\ Wait(c, k) \in Nat \ {0}
           /\ (k + 1 >= c.offset /\ ((k + 1) - c.offset) % c.sps = 0) <=> Wait(c, k) = 1
           /\ Wait(c, k + 1) = IF Wait(c, k) = 1 THEN c.sps ELSE Wait(c, k) - 1
           /\ Wait(c, 0) = IF c.offset = 0 THEN c.sps ELSE c.offset
           /\ (0 >= c.offset /\ (0 - c.offset) % c.sps = 0) <=> c.offset = 0
<1> DEFINE m == c.sps
           o == c.offset
<1>1. m \in Nat \ {0} /\ o \in Nat
    OBVIOUS
<1>2. 0 % m = 0 /\ 0 - 0 = 0
    BY <1>1
<1>3. CASE k >= o
    <2> DEFINE a == k - o
    <2>1. a \in Nat /\ (k + 1) - o = a + 1 /\ ~(k < o) /\ ~(k + 1 < o)
        BY <1>1, <1>3
    <2>2. a % m \in 0..(m - 1) /\ (a + 1) % m = IF a % m = m - 1 THEN 0 ELSE (a % m) + 1
        BY <1>1, <2>1, ModNext
    <2>3. Wait(c, k) = m - (a % m) /\ Wait(c, k + 1) = m - ((a + 1) % m)
        BY <2>1 DEF Wait
    <2>4. PICK r \in 0..(m - 1), v \in 0..(m - 1) : r = a % m /\ v = (a + 1) % m
        BY <2>2
    <2>5. v = IF r = m - 1 THEN 0 ELSE r + 1
        BY <2>2, <2>4
    <2>6. Wait(c, k) = m - r /\ Wait(c, k + 1) = m - v /\ ((k + 1) - o) % m = v
        BY <2>1, <2>3, <2>4
    <2> HIDE DEF a, m, o
    <2>7. /\ m - r \in Nat \ {0} /\ (v = 0 <=> m - r = 1) /\ k + 1 >= o
          /\ m - v = IF m - r = 1 THEN m ELSE (m - r) - 1
        BY <1>1, <1>3, <2>4, <2>5
    <2>8. /\ Wait(c, k) \in Nat \ {0}
          /\ (k + 1 >= o /\ ((k + 1) - o) % m = 0) <=> Wait(c, k) = 1
          /\ Wait(c, k + 1) = IF Wait(c, k) = 1 THEN m ELSE Wait(c, k) - 1
        BY <2>6, <2>7
    <2>9. /\ Wait(c, 0) = IF o = 0 THEN m ELSE o
          /\ (0 >= o /\ (0 - o) % m = 0) <=> o = 0
        <3>1. CASE o = 0
            BY <1>1, <1>2, <3>1 DEF Wait, m, o
        <3>2. CASE o # 0
            BY <1>1, <3>2 DEF Wait, m, o
        <3> QED BY <3>1, <3>2
    <2> QED BY <2>8, <2>9 DEF m, o
<1>4. CASE k < o
    <2>1. Wait(c, k) = o - k /\ o - k \in Nat \ {0} /\ o # 0
        BY <1>1, <1>4 DEF Wait
    <2>2. CASE k + 1 = o
        <3>1. Wait(c, k) = 1 /\ (k + 1) - o = 0 /\ ~(k + 1 < o) /\ k + 1 >= o
            BY <1>1, <2>1, <2>2
        <3>2. Wait(c, k + 1) = m - (((k + 1) - o) % m)
            BY <3>1 DEF Wait
        <3>3. Wait(c, k + 1) = m /\ ((k + 1) - o) % m = 0
            BY <1>1, <1>2, <3>1, <3>2
        <3>4. Wait(c, 0) = o /\ ~(0 >= o)
            BY <1>1, <2>1 DEF Wait
        <3> QED BY <2>1, <3>1, <3>3, <3>4
    <2>3. CASE k + 1 # o
        <3>1. k + 1 < o /\ o - k # 1 /\ o - (k + 1) = (o - k) - 1 /\ ~(k + 1 >= o)
            BY <1>1, <1>4, <2>3
        <3>2. Wait(c, k + 1) = o - (k + 1)
            BY <3>1 DEF Wait
        <3>3. Wait(c, 0) = o /\ ~(0 >= o)
            BY <1>1, <2>1 DEF Wait
        <3> QED BY <2>1, <3>1, <3>2, <3>3
    <2> QED BY <2>2, <2>3
<1> QED BY <1>1, <1>3, <1>4

(* What the decoders do with next_expected_ is to keep that clock.         *)
Ticks(c, E, F, b, n) ==
    CountDown(IF n + 1 \in F THEN c.offset + 1 ELSE Waits(c, E, b, n))
Rewound(c, count) == IF count = 0 THEN c.sps ELSE count

LEMMA ClockKept ==
    ASSUME NEW c, c.sps \in Nat \ {0}, c.offset \in Nat,
           NEW n \in Nat, NEW E, NEW F, \A p \in E : p \in 1..n, \A p \in F : p \in 1..(n + 1),
           \A p \in 1..n : p \in E <=> p \in F,
           NEW b \in 1..(n + 1), NEW count,
           count = CountDown(IF n + 1 \in F THEN c.offset + 1 ELSE Waits(c, E, b, n))
    PROVE  /\ count = 0 <=> OnBeat(c, F, b, n + 1)
           /\ Rewound(c, count) = Waits(c, F, b, n + 1)
<1> DEFINE q == Since(E, n + 1)
           r == Since(F, (n + 1) + 1)
<1>1. q \in 0..n /\ r = IF n + 1 \in F THEN n + 1 ELSE q
    BY SinceMore
<1>2. OnBeat(c, F, b, n + 1) <=>
        r >= b /\ (n + 1) - r >= c.offset /\ (((n + 1) - r) - c.offset) % c.sps = 0
    BY DEF OnBeat
<1>3. Waits(c, F, b, n + 1) = IF r >= b THEN Wait(c, (n + 1) - r) ELSE -1
    BY DEF Waits
<1>4. Waits(c, E, b, n) = IF q >= b THEN Wait(c, n - q) ELSE -1
    BY DEF Waits
<1> HIDE DEF q, r
<1>5. CASE n + 1 \in F
    <2>1. r = n + 1 /\ r >= b /\ (n + 1) - r = 0
        BY <1>1, <1>5
    <2>2. count = c.offset
        <3>1. count = CountDown(c.offset + 1)
            BY <1>5
        <3> QED BY <3>1 DEF CountDown
    <2>3. /\ Wait(c, 0) = IF c.offset = 0 THEN c.sps ELSE c.offset
          /\ (0 >= c.offset /\ (0 - c.offset) % c.sps = 0) <=> c.offset = 0
        BY WaitIs, 0 \in Nat
    <2>4. OnBeat(c, F, b, n + 1) <=> c.offset = 0
        BY <1>2, <2>1, <2>3
    <2>5. Waits(c, F, b, n + 1) = Wait(c, 0)
        BY <1>3, <2>1
    <2>6. /\ count = 0 <=> OnBeat(c, F, b, n + 1)
          /\ Rewound(c, count) = Waits(c, F, b, n + 1)
        BY <2>2, <2>3, <2>4, <2>5 DEF Rewound
    <2> QED BY <2>6
<1>6. CASE n + 1 \notin F /\ q >= b
    <2> DEFINE k == n - q
    <2>1. r = q /\ r >= b /\ (n + 1) - r = k + 1 /\ k \in Nat
        BY <1>1, <1>6
    <2>2. count = CountDown(Wait(c, k))
        BY <1>4, <1>6
    <2> HIDE DEF k
    <2>3. /\ Wait(c, k) \in Nat \ {0}
          /\ (k + 1 >= c.offset /\ ((k + 1) - c.offset) % c.sps = 0) <=> Wait(c, k) = 1
          /\ Wait(c, k + 1) = IF Wait(c, k) = 1 THEN c.sps ELSE Wait(c, k) - 1
        BY <2>1, WaitIs
    <2>4. count = Wait(c, k) - 1
        BY <2>2, <2>3 DEF CountDown
    <2>5. OnBeat(c, F, b, n + 1) <=> Wait(c, k) = 1
        BY <1>2, <2>1, <2>3
    <2>6. Waits(c, F, b, n + 1) = Wait(c, k + 1)
        BY <1>3, <2>1
    <2>7. count = 0 <=> Wait(c, k) = 1
        BY <2>3, <2>4
    <2>8. /\ count = 0 <=> OnBeat(c, F, b, n + 1)
          /\ Rewound(c, count) = Waits(c, F, b, n + 1)
        BY <2>3, <2>4, <2>5, <2>6, <2>7 DEF Rewound
    <2> QED BY <2>8
<1>7. CASE n + 1 \notin F /\ ~(q >= b)
    <2>1. count = CountDown(-1)
        BY <1>4, <1>7
    <2>2. count = -1
        BY <2>1 DEF CountDown
    <2>3. ~OnBeat(c, F, b, n + 1) /\ Waits(c, F, b, n + 1) = -1
        BY <1>1, <1>2, <1>3, <1>7
    <2>4. /\ count = 0 <=> OnBeat(c, F, b, n + 1)
          /\ Rewound(c, count) = Waits(c, F, b, n + 1)
        BY <2>2, <2>3 DEF Rewound
    <2> QED BY <2>4
<1> QED BY <1>5, <1>6, <1>7

LEMMA Metronome ==
    ASSUME NEW c, c.sps \in Nat \ {0}, c.offset \in Nat,
           NEW n \in Nat, NEW E, NEW F, \A p \in E : p \in 1..n, \A p \in F : p \in 1..(n + 1),
           \A p \in 1..n : p \in E <=> p \in F,
           NEW b \in 1..(n + 1)
    PROVE  /\ Ticks(c, E, F, b, n) = 0 <=> OnBeat(c, F, b, n + 1)
           /\ Rewound(c, Ticks(c, E, F, b, n)) = Waits(c, F, b, n + 1)
<1> DEFINE count == Ticks(c, E, F, b, n)
<1>1. count = CountDown(IF n + 1 \in F THEN c.offset + 1 ELSE Waits(c, E, b, n))
    BY DEF Ticks
<1> HIDE DEF count
<1>2. count = 0 <=> OnBeat(c, F, b, n + 1)
    BY <1>1, ClockKept
<1>3. Rewound(c, count) = Waits(c, F, b, n + 1)
    BY <1>1, ClockKept
<1> QED BY <1>2, <1>3 DEF count

LEMMA BeatsStay ==
    ASSUME NEW c, NEW n \in Nat, NEW E, NEW F, \A p \in E : p \in 1..n, \A p \in F : p \in 1..(n + 1),
           \A p \in 1..n : p \in E <=> p \in F,
           NEW b \in Nat
    PROVE  \A m \in 0..n : Beats(c, F, b, m) = Beats(c, E, b, m)
<1>1. ASSUME NEW p \in 0..n PROVE OnBeat(c, F, b, p) <=> OnBeat(c, E, b, p)
    <2>1. \A u : (u \in E /\ u < p + 1) <=> (u \in F /\ u < p + 1)
        <3> TAKE u
        <3>1. u \in F /\ u < p + 1 => u \in 1..n
            BY <1>1
        <3> QED BY <3>1
    <2>2. Since(E, p + 1) = Since(F, p + 1)
        BY <2>1, SinceSame
    <2> QED BY <2>2 DEF OnBeat
<1> TAKE m \in 0..n
<1>2. \A p \in b..m : p \in 0..n
    OBVIOUS
<1> QED BY <1>1, <1>2 DEF Beats

LEMMA BeatsMore ==
    ASSUME NEW c, NEW n \in Nat, NEW E, NEW F, \A p \in E : p \in 1..n, \A p \in F : p \in 1..(n + 1),
           \A p \in 1..n : p \in E <=> p \in F,
           NEW b \in 1..(n + 1)
    PROVE  Beats(c, F, b, n + 1) = IF OnBeat(c, F, b, n + 1) THEN Beats(c, E, b, n) \cup {n + 1}
                                   ELSE Beats(c, E, b, n)
<1>1. Beats(c, F, b, n) = Beats(c, E, b, n)
    <2>1. n \in 0..n /\ b \in Nat
        OBVIOUS
    <2>2. \A m \in 0..n : Beats(c, F, b, m) = Beats(c, E, b, m)
        BY <2>1, BeatsStay
    <2> QED BY <2>1, <2>2
<1>2. \A p \in b..(n + 1) : p \in b..n \/ p = n + 1
    OBVIOUS
<1>3. (\A p \in b..n : p \in b..(n + 1)) /\ n + 1 \in b..(n + 1)
    OBVIOUS
<1>4. \A p \in Beats(c, F, b, n + 1) : p \in Beats(c, F, b, n) \/ (p = n + 1 /\ OnBeat(c, F, b, n + 1))
    BY <1>2 DEF Beats
<1>5. \A p \in Beats(c, F, b, n) : p \in Beats(c, F, b, n + 1)
    BY <1>3 DEF Beats
<1>6. OnBeat(c, F, b, n + 1) => n + 1 \in Beats(c, F, b, n + 1)
    BY <1>3 DEF Beats
<1>7. ~OnBeat(c, F, b, n + 1) => Beats(c, F, b, n + 1) = Beats(c, F, b, n)
    BY <1>4, <1>5
<1>8. OnBeat(c, F, b, n + 1) => Beats(c, F, b, n + 1) = Beats(c, F, b, n) \cup {n + 1}
    BY <1>4, <1>5, <1>6
<1> QED BY <1>1, <1>7, <1>8

LEMMA BeatsIn ==
    ASSUME NEW c, NEW E, NEW b \in Nat, NEW m \in Nat
    PROVE  \A p \in Beats(c, E, b, m) : p \in Nat /\ p \in b..m /\ p <= m
BY DEF Beats

-----------------------------------------------------------------------------
(* ook_decode_b                                                            *)

LEMMA EdgesBeat ==
    ASSUME NEW n \in Nat, NEW b \in Nat \ {0}, NEW p \in b..n, NEW E, \A q \in E : q \in 1..n,
           NEW D, \A q : q \in D <=> q \in b..p /\ q \in E
    PROVE  /\ D # {} <=> Since(E, p + 1) >= b
           /\ D # {} => Max(D) = Since(E, p + 1)
<1> DEFINE m == Since(E, p + 1)
<1>1. (\A q \in E : q \in Nat) /\ p + 1 \in Nat /\ p \in Nat
    OBVIOUS
<1>2. /\ m \in Nat /\ (m = 0 \/ (m \in E /\ m < p + 1))
      /\ \A q \in E : q < p + 1 => q <= m
    BY <1>1, SinceIs
<1> HIDE DEF m
<1>3. ASSUME m >= b PROVE m \in D
    <2>1. m \in E /\ m \in b..p
        BY <1>1, <1>2, <1>3
    <2> QED BY <2>1
<1>4. \A q \in D : q \in Nat /\ q <= p /\ q >= b /\ q <= m
    BY <1>1, <1>2
<1>5. ASSUME D # {} PROVE Max(D) = m /\ m >= b
    <2>1. Max(D) \in D /\ \A q \in D : q <= Max(D)
        BY <1>1, <1>4, <1>5, MaxIs
    <2>2. m >= b
        BY <1>2, <1>4, <2>1
    <2>3. m <= Max(D) /\ Max(D) <= m /\ Max(D) \in Nat
        BY <1>3, <1>4, <2>1, <2>2
    <2> QED BY <1>2, <2>2, <2>3
<1> QED BY <1>3, <1>5 DEF m

LEMMA SampledAre ==
    ASSUME NEW c, NEW n \in Nat, NEW b \in Nat \ {0}, NEW e \in 1..n,
           NEW E, \A q \in E : q \in 1..n
    PROVE  {p \in b..e :
                LET D == {q \in b..p : q \in E}
                IN  D # {} /\ p - Max(D) >= c.offset /\ (p - Max(D) - c.offset) % c.sps = 0}
           = Beats(c, E, b, e)
<1> DEFINE On(p) == LET D == {q \in b..p : q \in E}
                    IN  D # {} /\ p - Max(D) >= c.offset /\ (p - Max(D) - c.offset) % c.sps = 0
<1>1. ASSUME NEW p \in b..e PROVE On(p) <=> OnBeat(c, E, b, p)
    <2> DEFINE D == {q \in b..p : q \in E}
               m == Since(E, p + 1)
    <2>1. p \in b..n
        BY <1>1
    <2>2. (D # {} <=> m >= b) /\ (D # {} => Max(D) = m)
        <3>1. \A q : q \in D <=> q \in b..p /\ q \in E
            OBVIOUS
        <3> HIDE DEF D, On
        <3>2. D # {} <=> Since(E, p + 1) >= b
            BY <2>1, <3>1, EdgesBeat
        <3>3. D # {} => Max(D) = Since(E, p + 1)
            BY <2>1, <3>1, EdgesBeat
        <3> QED BY <3>2, <3>3
    <2>3. On(p) <=> D # {} /\ p - Max(D) >= c.offset /\ (p - Max(D) - c.offset) % c.sps = 0
        OBVIOUS
    <2>4. OnBeat(c, E, b, p) <=> m >= b /\ p - m >= c.offset /\ (p - m - c.offset) % c.sps = 0
        BY DEF OnBeat
    <2> HIDE DEF D, m, On
    <2> QED BY <2>2, <2>3, <2>4
<1>2. {p \in b..e : On(p)} = Beats(c, E, b, e)
    <2> HIDE DEF On
    <2> QED BY <1>1 DEF Beats
<1> QED BY <1>2

Ups(s) == {q \in DOMAIN s : s[q] = 1 /\ (q = 1 \/ s[q - 1] = 0)}
OokBeats(c, s, e) == Beats(c, Ups(s), Beginning(c, s, e), e)

LEMMA BeginningIs ==
    ASSUME NEW c, NEW s, DOMAIN s = 1..Len(s), Len(s) \in Nat, NEW e \in Nat \ {0}
    PROVE  Beginning(c, s, e) \in Nat \ {0} /\ Beginning(c, s, e) <= e
<1>1. \A p \in Ends(c, s) : p \in Nat
    BY DEF Ends
<1>2. Since(Ends(c, s), e) \in Nat /\ (Since(Ends(c, s), e) = 0 \/ Since(Ends(c, s), e) < e)
    BY <1>1, SinceIs
<1>3. Beginning(c, s, e) = Since(Ends(c, s), e) + 1
    BY DEF Beginning, Since
<1> QED BY <1>2, <1>3

LEMMA OokBitsAre ==
    ASSUME NEW c, NEW s, DOMAIN s = 1..Len(s), Len(s) \in Nat, NEW e \in 1..Len(s)
    PROVE  OokBits(c, s, e) = Rtrim(Part(s, OokBeats(c, s, e)))
<1> DEFINE b == Beginning(c, s, e)
           S == {p \in b..e :
                    LET D == {q \in b..p : s[q] = 1 /\ (q = 1 \/ s[q - 1] = 0)}
                    IN  D # {} /\ p - Max(D) >= c.offset /\ (p - Max(D) - c.offset) % c.sps = 0}
           T == {p \in b..e :
                    LET D == {q \in b..p : q \in Ups(s)}
                    IN  D # {} /\ p - Max(D) >= c.offset /\ (p - Max(D) - c.offset) % c.sps = 0}
<1>1. OokBits(c, s, e) = Rtrim(Part(s, S))
    BY DEF OokBits, Sampled
<1>2. b \in Nat \ {0} /\ b <= e
    BY BeginningIs
<1> HIDE DEF b
<1>3. ASSUME NEW p \in b..e
      PROVE  {q \in b..p : s[q] = 1 /\ (q = 1 \/ s[q - 1] = 0)} = {q \in b..p : q \in Ups(s)}
    <2>1. \A q \in b..p : q \in DOMAIN s
        BY <1>2, <1>3
    <2> QED BY <2>1 DEF Ups
<1>4. S = T
    BY <1>3
<1>5. T = Beats(c, Ups(s), b, e)
    <2>1. \A q \in Ups(s) : q \in 1..Len(s)
        BY DEF Ups
    <2> QED BY <1>2, <2>1, SampledAre
<1> QED BY <1>1, <1>4, <1>5 DEF OokBeats, b

OokWhole(c, s) == {p \in Ends(c, s) : Rtrim(Part(s, OokBeats(c, s, p))) # << >>}
OokPacketsAt(c, s) == [p \in DOMAIN s |-> BitsToBytes(Rtrim(Part(s, OokBeats(c, s, p))))]

LEMMA OokPacketsAre ==
    ASSUME NEW c, c.nulls \in Nat \ {0}, NEW s, DOMAIN s = 1..Len(s), Len(s) \in Nat
    PROVE  OokPackets(c, s) = Part(OokPacketsAt(c, s), OokWhole(c, s))
<1>1. \A p \in Ends(c, s) : p \in 1..Len(s)
    BY EndsAre
<1>2. \A p \in Ends(c, s) : OokBits(c, s, p) = Rtrim(Part(s, OokBeats(c, s, p)))
    BY <1>1, OokBitsAre
<1>3. {p \in Ends(c, s) : OokBits(c, s, p) # << >>} = OokWhole(c, s)
    BY <1>2 DEF OokWhole
<1> DEFINE at == InOrder(OokWhole(c, s))
<1>4. \A p \in OokWhole(c, s) : p \in Nat /\ p <= Len(s) /\ p \in 1..Len(s) /\ p \in Ends(c, s)
    BY <1>1 DEF OokWhole
<1>5. \A i \in DOMAIN at : at[i] \in OokWhole(c, s)
    BY <1>4, InOrderIs
<1>6. OokPackets(c, s) = [i \in DOMAIN at |-> BitsToBytes(OokBits(c, s, at[i]))]
    BY <1>3 DEF OokPackets
<1>7. \A i \in DOMAIN at : BitsToBytes(OokBits(c, s, at[i])) = OokPacketsAt(c, s)[at[i]]
    BY <1>2, <1>4, <1>5 DEF OokPacketsAt
<1> QED BY <1>6, <1>7 DEF Part

LEMMA UpsMore ==
    ASSUME NEW s, NEW x, NEW t, Adds(s, x, t)
    PROVE  LET n == Len(s)
           IN  /\ (\A p \in Ups(s) : p \in 1..n) /\ (\A p \in Ups(t) : p \in 1..(n + 1))
               /\ \A p \in 1..n : p \in Ups(s) <=> p \in Ups(t)
               /\ n + 1 \in Ups(t) <=> x = 1 /\ (n = 0 \/ s[n] = 0)
<1> DEFINE n == Len(s)
<1>1. /\ n \in Nat /\ Len(t) = n + 1 /\ DOMAIN s = 1..n /\ DOMAIN t = 1..(n + 1)
      /\ t[n + 1] = x /\ \A i \in 1..n : t[i] = s[i]
    BY DEF Adds
<1>2. ASSUME NEW p \in 1..n PROVE p \in Ups(s) <=> p \in Ups(t)
    <2>1. p # 1 => p - 1 \in 1..n
        BY <1>1
    <2> QED BY <1>1, <2>1 DEF Ups
<1>3. n + 1 \in Ups(t) <=> x = 1 /\ (n = 0 \/ s[n] = 0)
    <2>1. n # 0 => n \in 1..n /\ (n + 1) - 1 = n /\ n + 1 # 1
        BY <1>1
    <2>2. n = 0 => n + 1 = 1
        OBVIOUS
    <2> QED BY <1>1, <2>1, <2>2 DEF Ups
<1>4. (\A p \in Ups(s) : p \in 1..n) /\ (\A p \in Ups(t) : p \in 1..(n + 1))
    BY <1>1 DEF Ups
<1> QED BY <1>2, <1>3, <1>4

(* Packets that are over stay as they are.                                 *)
LEMMA OokStay ==
    ASSUME NEW c, c.nulls \in Nat \ {0}, NEW s, NEW x, NEW t, Adds(s, x, t)
    PROVE  LET n == Len(s)
           IN  /\ \A e \in 1..n : Part(t, OokBeats(c, t, e)) = Part(s, OokBeats(c, s, e))
               /\ \A p \in 1..n : p \in OokWhole(c, s) <=> p \in OokWhole(c, t)
               /\ \A p \in 1..n : OokPacketsAt(c, t)[p] = OokPacketsAt(c, s)[p]
               /\ \A p \in OokWhole(c, s) : p \in 1..n
               /\ \A p \in OokWhole(c, t) : p \in 1..(n + 1)
<1> DEFINE n == Len(s)
<1>1. /\ n \in Nat /\ Len(t) = n + 1 /\ DOMAIN s = 1..n /\ DOMAIN t = 1..(n + 1)
      /\ t[n + 1] = x /\ \A i \in 1..n : t[i] = s[i]
    BY DEF Adds
<1>2. /\ \A p \in 1..n : p \in Ends(c, s) <=> p \in Ends(c, t)
      /\ \A e \in 1..(n + 1) : Beginning(c, t, e) = Beginning(c, s, e)
    BY Passes
<1>3. ASSUME NEW e \in 1..n PROVE Part(t, OokBeats(c, t, e)) = Part(s, OokBeats(c, s, e))
    <2> DEFINE b == Beginning(c, s, e)
               S == Beats(c, Ups(s), b, e)
    <2>1. Beginning(c, t, e) = b
        BY <1>1, <1>2
    <2>2. b \in Nat \ {0} /\ b <= e
        BY <1>1, BeginningIs
    <2>3. Beats(c, Ups(t), b, e) = S /\ \A p \in S : p \in Nat /\ p \in b..e
        <3> HIDE DEF b
        <3>1. e \in 0..n /\ b \in Nat
            BY <1>1, <2>2
        <3>2. /\ (\A p \in Ups(s) : p \in 1..n) /\ (\A p \in Ups(t) : p \in 1..(n + 1))
              /\ \A p \in 1..n : p \in Ups(s) <=> p \in Ups(t)
            BY UpsMore
        <3>3. Beats(c, Ups(t), b, e) = Beats(c, Ups(s), b, e)
            <4>1. n \in Nat
                BY <1>1
            <4> HIDE DEF n
            <4>2. \A m \in 0..n : Beats(c, Ups(t), b, m) = Beats(c, Ups(s), b, m)
                BY <3>1, <3>2, <4>1, BeatsStay
            <4> QED BY <3>1, <4>2
        <3>4. \A p \in Beats(c, Ups(s), b, e) : p \in Nat /\ p \in b..e
            BY <3>1 DEF Beats
        <3> QED BY <3>3, <3>4
    <2> HIDE DEF b
    <2>4. OokBeats(c, t, e) = S /\ OokBeats(c, s, e) = S
        BY <2>1, <2>3 DEF OokBeats, b
    <2> HIDE DEF S
    <2>5. \A p \in S : p \in Nat /\ p <= n /\ t[p] = s[p]
        BY <1>1, <2>2, <2>3
    <2>6. Part(t, S) = Part(s, S)
        BY <1>1, <2>5, PartSame
    <2> QED BY <2>4, <2>6
<1>4. ASSUME NEW p \in 1..n
      PROVE  (p \in OokWhole(c, s) <=> p \in OokWhole(c, t))
             /\ OokPacketsAt(c, t)[p] = OokPacketsAt(c, s)[p]
    <2>1. p \in DOMAIN s /\ p \in DOMAIN t
        BY <1>1
    <2> QED BY <1>2, <1>3, <2>1 DEF OokWhole, OokPacketsAt
<1>5. (\A p \in OokWhole(c, s) : p \in 1..n) /\ (\A p \in OokWhole(c, t) : p \in 1..(n + 1))
    BY <1>1 DEF OokWhole, Ends
<1> QED BY <1>3, <1>4, <1>5

LEMMA PartNotEmpty ==
    ASSUME NEW b \in Nat, NEW S, \A x \in S : x \in Nat /\ x <= b, S # {}, NEW s
    PROVE  Part(s, S) # << >>
<1> DEFINE q == InOrder(S)
<1>1. Enumerates(q, S) /\ DOMAIN q = 1..Len(q)
    BY InOrderIs
<1>2. PICK x \in S : TRUE
    OBVIOUS
<1>3. PICK i \in DOMAIN q : q[i] = x
    BY <1>1, <1>2 DEF Enumerates
<1> HIDE DEF q
<1>4. DOMAIN Part(s, S) = DOMAIN q
    BY DEF Part, q
<1>5. DOMAIN << >> = {}
    OBVIOUS
<1> QED BY <1>3, <1>4, <1>5

(* Bits sampled so far and one more sample.                                *)
LEMMA PartStays ==
    ASSUME NEW s, NEW x, NEW t, Adds(s, x, t), NEW S, \A p \in S : p \in 1..Len(s)
    PROVE  Part(t, S) = Part(s, S)
<1>1. Len(s) \in Nat /\ \A i \in 1..Len(s) : t[i] = s[i]
    BY DEF Adds
<1>2. \A p \in S : p \in Nat /\ p <= Len(s) /\ t[p] = s[p]
    BY <1>1
<1> QED BY <1>1, <1>2, PartSame

LEMMA PartGrows ==
    ASSUME NEW s, NEW x, NEW t, Adds(s, x, t), NEW S, \A p \in S : p \in 1..Len(s)
    PROVE  Part(t, S \cup {Len(s) + 1}) = Append(Part(s, S), x)
<1> DEFINE n == Len(s)
<1>1. n \in Nat /\ t[n + 1] = x
    BY DEF Adds
<1>2. n + 1 \in Nat /\ \A p \in S : p \in Nat /\ p < n + 1
    BY <1>1
<1>3. Part(t, S) = Part(s, S)
    BY PartStays
<1>4. Part(t, S \cup {n + 1}) = Append(Part(t, S), t[n + 1])
    BY <1>2, PartAdd
<1> QED BY <1>1, <1>3, <1>4

LEMMA NoBeats ==
    ASSUME NEW c, NEW E, NEW b \in Nat \ {0}, NEW m \in Nat, \A u \in E : u \in Nat /\ u < b
    PROVE  Beats(c, E, b, m) = {}
<1> SUFFICES ASSUME NEW p \in b..m, OnBeat(c, E, b, p) PROVE FALSE
    BY DEF Beats
<1> DEFINE q == Since(E, p + 1)
<1>1. q >= b
    BY DEF OnBeat
<1>2. (\A u \in E : u \in Nat) /\ p + 1 \in Nat
    OBVIOUS
<1>3. q \in Nat /\ (q = 0 \/ q \in E)
    BY <1>2, SinceIs
<1> HIDE DEF q
<1> QED BY <1>1, <1>3

(* What an on/off decoder holds and has published after the signal s.      *)
OokHolds(c, s, e) ==
    LET n == Len(s)
        b == Began(c, s)
    IN  /\ IsDecoder(e)
        /\ e.last = IF n = 0 THEN 0 ELSE s[n]
        /\ e.next = Waits(c, Ups(s), b, n)
        /\ e.bits = Part(s, Beats(c, Ups(s), b, n))
        /\ e.silent = IF Sound(s) >= b THEN n - Sound(s) ELSE (n + 1) - b
        /\ Sound(s) >= b => n - Sound(s) < c.nulls /\ Since(Ups(s), n + 1) >= b
        /\ e.out = OokPackets(c, s)

Timed(c) ==
    /\ c.sps \in Nat \ {0} /\ c.offset \in Nat /\ c.nulls \in Nat \ {0}

(* The clock, the bits and the silence after one more sample.              *)
OokCount(c, e, x) == CountDown(IF x = 1 /\ e.last = 0 THEN c.offset + 1 ELSE e.next)
OokTaken(c, e, x) == IF OokCount(c, e, x) = 0 THEN Append(e.bits, x) ELSE e.bits
Hushed(e, x) == IF x = 0 THEN e.silent + 1 ELSE 0

LEMMA ResetIs ==
    ASSUME NEW g, IsDecoder(g)
    PROVE  Reset(g) = [bits |-> << >>, silent |-> 0, next |-> -1, last |-> 0,
                       buf |-> g.buf, len |-> g.len, out |-> g.out]
<1>1. PICK f : f = Reset(g)
    OBVIOUS
<1>2. PICK k, m, b : k = 0 /\ m = -1 /\ b = << >>
    OBVIOUS
<1>3. f = [g EXCEPT !.bits = b, !.silent = k, !.next = m, !.last = k]
    BY <1>1, <1>2 DEF Reset
<1>4. f = [bits |-> b, silent |-> k, next |-> m, last |-> k,
           buf |-> g.buf, len |-> g.len, out |-> g.out]
    BY <1>3 DEF IsDecoder
<1> QED BY <1>1, <1>2, <1>4

LEMMA OokSampleIs ==
    ASSUME NEW c, NEW e, IsDecoder(e), NEW x
    PROVE  LET f == OokSample(c, e, x)
               bits == OokTaken(c, e, x)
           IN  /\ IsDecoder(f) /\ f.last = x
               /\ Hushed(e, x) = c.nulls /\ bits # << >> =>
                    /\ f.bits = << >> /\ f.silent = 0 /\ f.next = -1
                    /\ f.out = IF Rtrim(bits) = << >> THEN e.out
                               ELSE Append(e.out, BitsToBytes(Rtrim(bits)))
               /\ ~(Hushed(e, x) = c.nulls /\ bits # << >>) =>
                    /\ f.bits = bits /\ f.silent = Hushed(e, x) /\ f.out = e.out
                    /\ f.next = Rewound(c, OokCount(c, e, x))
<1> DEFINE f == OokSample(c, e, x)
           count == OokCount(c, e, x)
           bits == OokTaken(c, e, x)
           hushed == Hushed(e, x)
           packet == Rtrim(bits)
           o == IF packet = << >> THEN e.out ELSE Append(e.out, BitsToBytes(packet))
<1>1. f = IF hushed = c.nulls /\ bits # << >>
          THEN [Reset([e EXCEPT !.out = o]) EXCEPT !.last = x]
          ELSE [e EXCEPT !.bits = bits, !.silent = hushed,
                         !.next = Rewound(c, count), !.last = x]
    BY DEF OokSample, OokCount, OokTaken, Hushed, Rewound
<1> HIDE DEF f, count, bits, hushed, o
<1>2. CASE hushed = c.nulls /\ bits # << >>
    <2>1. f = [Reset([e EXCEPT !.out = o]) EXCEPT !.last = x]
        BY <1>1, <1>2
    <2>2. Reset([e EXCEPT !.out = o]) =
             [bits |-> << >>, silent |-> 0, next |-> -1, last |-> 0,
              buf |-> e.buf, len |-> e.len, out |-> o]
        <3> DEFINE g == [e EXCEPT !.out = o]
        <3>1. IsDecoder(g) /\ g.buf = e.buf /\ g.len = e.len /\ g.out = o
            BY DEF IsDecoder
        <3> HIDE DEF g
        <3>2. Reset(g) = [bits |-> << >>, silent |-> 0, next |-> -1, last |-> 0,
                          buf |-> e.buf, len |-> e.len, out |-> o]
            BY <3>1, ResetIs
        <3> QED BY <3>2 DEF g
    <2>3. f = [bits |-> << >>, silent |-> 0, next |-> -1, last |-> x,
               buf |-> e.buf, len |-> e.len, out |-> o]
        BY <2>1, <2>2
    <2>4. /\ IsDecoder(f) /\ f.last = x /\ f.bits = << >> /\ f.silent = 0 /\ f.next = -1
          /\ f.out = o
        BY <2>3 DEF IsDecoder
    <2> QED BY <1>2, <2>4 DEF f, bits, hushed, o
<1>3. CASE ~(hushed = c.nulls /\ bits # << >>)
    <2> DEFINE v == Rewound(c, count)
    <2>1. f = [e EXCEPT !.bits = bits, !.silent = hushed, !.next = v, !.last = x]
        BY <1>1, <1>3
    <2> HIDE DEF v
    <2>2. f = [bits |-> bits, silent |-> hushed, next |-> v, last |-> x,
               buf |-> e.buf, len |-> e.len, out |-> e.out]
        BY <2>1 DEF IsDecoder
    <2>3. /\ IsDecoder(f) /\ f.last = x /\ f.bits = bits /\ f.silent = hushed /\ f.next = v
          /\ f.out = e.out
        BY <2>2 DEF IsDecoder
    <2> QED BY <1>3, <2>3 DEF f, bits, hushed, v, count
<1> QED BY <1>2, <1>3

LEMMA OokStays ==
    ASSUME NEW c, Timed(c), c.offset <= c.nulls, NEW V, \A v \in V : v = 0 \/ v = 1,
           NEW s \in Seq(V), NEW x \in V, NEW e, OokHolds(c, s, e)
    PROVE  OokHolds(c, Append(s, x), OokSample(c, e, x))
<1> DEFINE t == Append(s, x)
           n == Len(s)
           b == Began(c, s)
           l == Sound(s)
           q == Since(Ups(s), n + 1)
           S == Beats(c, Ups(s), b, n)
           T == Beats(c, Ups(t), b, n + 1)
           count == OokCount(c, e, x)
           bits == OokTaken(c, e, x)
           hushed == Hushed(e, x)
           over == n + 1 \in Ends(c, t)
           f == OokSample(c, e, x)
<1>1. Adds(s, x, t) /\ t \in Seq(V)
    BY AppendAdds
<1> HIDE DEF t
<1>2. /\ n \in Nat /\ Len(t) = n + 1 /\ DOMAIN s = 1..n /\ DOMAIN t = 1..(n + 1)
      /\ t[n + 1] = x /\ \A i \in 1..n : t[i] = s[i]
    BY <1>1 DEF Adds
<1>3. c.sps \in Nat \ {0} /\ c.offset \in Nat /\ c.nulls \in Nat \ {0}
    BY DEF Timed
<1>4. /\ IsDecoder(e) /\ e.last = (IF n = 0 THEN 0 ELSE s[n]) /\ e.next = Waits(c, Ups(s), b, n)
      /\ e.bits = Part(s, S) /\ e.silent = (IF l >= b THEN n - l ELSE (n + 1) - b)
      /\ (l >= b => n - l < c.nulls /\ q >= b) /\ e.out = OokPackets(c, s)
    BY DEF OokHolds
<1>5. /\ \A p \in 1..n : p \in Ends(c, s) <=> p \in Ends(c, t)
      /\ Sound(t) = (IF x # 0 THEN n + 1 ELSE l)
      /\ Began(c, t) = (IF over THEN n + 2 ELSE b)
      /\ over <=> x = 0 /\ l >= b /\ (n + 1) - l = c.nulls
      /\ Beginning(c, t, n + 1) = b
      /\ n > 0 /\ s[n] # 0 => l = n /\ b <= n
    <2>1. n + 1 \in 1..(n + 1)
        BY <1>2
    <2> QED BY <1>1, <1>3, <2>1, Passes
<1>6. l \in 0..n /\ b \in 1..(n + 1) /\ b \in Nat
    BY <1>2, <1>3, SoundIs, EndsAre
<1>7. /\ (\A p \in Ups(s) : p \in 1..n) /\ (\A p \in Ups(t) : p \in 1..(n + 1))
      /\ \A p \in 1..n : p \in Ups(s) <=> p \in Ups(t)
      /\ n + 1 \in Ups(t) <=> x = 1 /\ (n = 0 \/ s[n] = 0)
    BY <1>1, UpsMore
<1>8. \A p \in Ups(s) : p <= l
    <2>1. (\A p \in Sounds(s) : p \in 1..n) /\ \A p \in Ups(s) : p \in Sounds(s)
        BY <1>2 DEF Sounds, Ups
    <2>2. \A p \in Sounds(s) : p <= l
        BY <1>2, <2>1, LastBefore DEF Sound
    <2> QED BY <2>1, <2>2
<1>9. /\ q \in 0..n /\ (q = 0 \/ q \in Ups(s)) /\ (\A p \in Ups(s) : p <= q)
      /\ Since(Ups(t), (n + 1) + 1) = (IF n + 1 \in Ups(t) THEN n + 1 ELSE q)
    BY <1>2, <1>7, SinceMore
<1>10. /\ count = 0 <=> OnBeat(c, Ups(t), b, n + 1)
       /\ Rewound(c, count) = Waits(c, Ups(t), b, n + 1)
    <2>1. x = 1 /\ e.last = 0 <=> n + 1 \in Ups(t)
        BY <1>2, <1>4, <1>7
    <2>2. count = Ticks(c, Ups(s), Ups(t), b, n)
        BY <1>4, <2>1 DEF OokCount, Ticks
    <2> HIDE DEF count, n, b
    <2>3. /\ Ticks(c, Ups(s), Ups(t), b, n) = 0 <=> OnBeat(c, Ups(t), b, n + 1)
          /\ Rewound(c, Ticks(c, Ups(s), Ups(t), b, n)) = Waits(c, Ups(t), b, n + 1)
        BY <1>2, <1>3, <1>6, <1>7, Metronome
    <2> QED BY <2>2, <2>3
<1>11. bits = Part(t, T)
    <2>1. T = IF OnBeat(c, Ups(t), b, n + 1) THEN S \cup {n + 1} ELSE S
        <3> HIDE DEF n, b
        <3> QED BY <1>2, <1>6, <1>7, BeatsMore
    <2>2. \A p \in S : p \in 1..n
        <3>1. \A p \in S : p \in b..n
            BY DEF Beats
        <3> HIDE DEF S
        <3> QED BY <1>6, <3>1
    <2>3. Part(t, S) = Part(s, S) /\ Part(t, S \cup {n + 1}) = Append(Part(s, S), x)
        <3> HIDE DEF S
        <3>1. Part(t, S) = Part(s, S)
            BY <1>1, <2>2, PartStays
        <3>2. Part(t, S \cup {n + 1}) = Append(Part(s, S), x)
            BY <1>1, <2>2, PartGrows
        <3> QED BY <3>1, <3>2
    <2> HIDE DEF S, T
    <2> QED BY <1>4, <1>10, <2>1, <2>3 DEF OokTaken
<1>12. ASSUME x = 0, ~(l >= b) PROVE bits = << >>
    <2>1. \A u \in Ups(t) : u \in Ups(s)
        <3>1. \A u \in 1..(n + 1) : u \in 1..n \/ u = n + 1
            BY <1>2
        <3> QED BY <1>7, <1>12, <3>1
    <2>2. \A u \in Ups(t) : u \in Nat /\ u < b
        BY <1>2, <1>6, <1>7, <1>8, <1>12, <2>1
    <2>3. T = {}
        <3> HIDE DEF b
        <3>1. b \in Nat \ {0} /\ n + 1 \in Nat
            BY <1>2, <1>6
        <3> HIDE DEF n
        <3> QED BY <2>2, <3>1, NoBeats
    <2> QED BY <1>11, <2>3, PartEmpty
<1>13. ASSUME over PROVE bits # << >>
    <2> DEFINE p == q + c.offset
    <2>1. x = 0 /\ l >= b /\ (n + 1) - l = c.nulls /\ q >= b
        BY <1>4, <1>5, <1>13
    <2>2. q \in Ups(s) /\ q <= l /\ q \in 1..n /\ q \in Ups(t)
        BY <1>6, <1>7, <1>8, <1>9, <2>1
    <2>3. p \in b..(n + 1) /\ p \in Nat /\ p - q = c.offset /\ q < p + 1
        BY <1>2, <1>3, <1>6, <2>1, <2>2
    <2>4. Since(Ups(t), p + 1) = q
        <3>1. n + 1 \notin Ups(t)
            BY <1>7, <2>1
        <3>2. \A u \in Ups(t) : u \in Nat /\ u <= q
            <4>1. \A u \in 1..(n + 1) : u \in 1..n \/ u = n + 1
                BY <1>2
            <4> QED BY <1>7, <1>9, <3>1, <4>1
        <3>3. p + 1 \in Nat
            BY <2>3
        <3> HIDE DEF p, q
        <3> QED BY <2>2, <2>3, <3>2, <3>3, SinceIs
    <2>5. OnBeat(c, Ups(t), b, p)
        <3>1. c.offset - c.offset = 0 /\ 0 % c.sps = 0 /\ c.offset >= c.offset
            BY <1>3
        <3> HIDE DEF p, q, b
        <3> QED BY <2>1, <2>3, <2>4, <3>1 DEF OnBeat
    <2>6. p \in T
        BY <2>3, <2>5 DEF Beats
    <2>7. \A u \in T : u \in Nat /\ u <= n + 1
        <3>1. n + 1 \in Nat
            BY <1>2
        <3> HIDE DEF b, n
        <3> QED BY <1>6, <3>1, BeatsIn
    <2> HIDE DEF T, p
    <2>8. n + 1 \in Nat
        BY <1>2
    <2> QED BY <1>11, <2>6, <2>7, <2>8, PartNotEmpty
<1>14. over <=> hushed = c.nulls /\ bits # << >>
    <2>1. CASE x # 0
        BY <1>3, <1>5, <2>1 DEF Hushed
    <2>2. CASE x = 0 /\ l >= b
        <3>1. hushed = (n - l) + 1 /\ (n - l) + 1 = (n + 1) - l
            BY <1>2, <1>4, <1>6, <2>2 DEF Hushed
        <3> HIDE DEF hushed, bits, over
        <3> QED BY <1>5, <1>13, <2>2, <3>1
    <2>3. CASE x = 0 /\ ~(l >= b)
        BY <1>5, <1>12, <2>3
    <2> QED BY <2>1, <2>2, <2>3
<1>15. /\ IsDecoder(f) /\ f.last = x
       /\ over => /\ f.bits = << >> /\ f.silent = 0 /\ f.next = -1
                  /\ f.out = IF Rtrim(bits) = << >> THEN e.out
                             ELSE Append(e.out, BitsToBytes(Rtrim(bits)))
       /\ ~over => /\ f.bits = bits /\ f.silent = hushed /\ f.out = e.out
                   /\ f.next = Rewound(c, count)
    <2> HIDE DEF over
    <2> QED BY <1>4, <1>14, OokSampleIs
<1>16. /\ OokPackets(c, s) = Part(OokPacketsAt(c, s), OokWhole(c, s))
       /\ OokPackets(c, t) = Part(OokPacketsAt(c, t), OokWhole(c, t))
    <2>1. Len(t) \in Nat /\ DOMAIN t = 1..Len(t)
        BY <1>2
    <2> QED BY <1>2, <1>3, <2>1, OokPacketsAre
<1>17. /\ (\A p \in OokWhole(c, s) : p \in 1..n) /\ (\A p \in OokWhole(c, t) : p \in 1..(n + 1))
       /\ \A p \in 1..n : p \in OokWhole(c, s) <=> p \in OokWhole(c, t)
       /\ \A p \in 1..n : OokPacketsAt(c, t)[p] = OokPacketsAt(c, s)[p]
    <2>1. \A p \in 1..n : p \in OokWhole(c, s) <=> p \in OokWhole(c, t)
        BY <1>1, <1>3, OokStay
    <2>2. \A p \in 1..n : OokPacketsAt(c, t)[p] = OokPacketsAt(c, s)[p]
        BY <1>1, <1>3, OokStay
    <2>3. (\A p \in OokWhole(c, s) : p \in 1..n) /\ \A p \in OokWhole(c, t) : p \in 1..(n + 1)
        BY <1>1, <1>3, OokStay
    <2> QED BY <2>1, <2>2, <2>3
<1>18. /\ n + 1 \notin OokWhole(c, t) => OokWhole(c, t) = OokWhole(c, s)
       /\ n + 1 \in OokWhole(c, t) => OokWhole(c, t) = OokWhole(c, s) \cup {n + 1}
    BY <1>2, <1>17, OneMore
<1>19. /\ Part(OokPacketsAt(c, t), OokWhole(c, s)) = Part(OokPacketsAt(c, s), OokWhole(c, s))
       /\ Part(OokPacketsAt(c, t), OokWhole(c, s) \cup {n + 1}) =
             Append(Part(OokPacketsAt(c, s), OokWhole(c, s)), OokPacketsAt(c, t)[n + 1])
    <2>1. \A p \in OokWhole(c, s) : p \in Nat /\ p <= n /\ p < n + 1
                                    /\ OokPacketsAt(c, t)[p] = OokPacketsAt(c, s)[p]
        BY <1>2, <1>17
    <2>2. n + 1 \in Nat
        BY <1>2
    <2>3. Part(OokPacketsAt(c, t), OokWhole(c, s)) = Part(OokPacketsAt(c, s), OokWhole(c, s))
        BY <1>2, <2>1, PartSame
    <2>4. Part(OokPacketsAt(c, t), OokWhole(c, s) \cup {n + 1}) =
             Append(Part(OokPacketsAt(c, t), OokWhole(c, s)), OokPacketsAt(c, t)[n + 1])
        BY <2>1, <2>2, PartAdd
    <2> QED BY <2>3, <2>4
<1>20. CASE over
    <2>1. OokPacketsAt(c, t)[n + 1] = BitsToBytes(Rtrim(bits))
        <3>1. n + 1 \in DOMAIN t
            BY <1>2
        <3>2. OokPacketsAt(c, t)[n + 1] = BitsToBytes(Rtrim(Part(t, OokBeats(c, t, n + 1))))
            BY <3>1 DEF OokPacketsAt
        <3>3. OokBeats(c, t, n + 1) = T
            BY <1>5 DEF OokBeats
        <3> HIDE DEF T, bits
        <3> QED BY <1>11, <3>2, <3>3
    <2>2. n + 1 \in OokWhole(c, t) <=> Rtrim(bits) # << >>
        <3>1. OokBeats(c, t, n + 1) = T
            BY <1>5 DEF OokBeats
        <3> HIDE DEF T, bits
        <3>2. Rtrim(bits) = Rtrim(Part(t, OokBeats(c, t, n + 1)))
            BY <1>11, <3>1
        <3> QED BY <1>20, <3>2 DEF OokWhole
    <2>3. f.out = OokPackets(c, t)
        <3>1. f.out = IF Rtrim(bits) = << >> THEN e.out ELSE Append(e.out, BitsToBytes(Rtrim(bits)))
            BY <1>15, <1>20
        <3> HIDE DEF bits, f
        <3>2. CASE Rtrim(bits) = << >>
            BY <1>4, <1>16, <1>18, <1>19, <2>2, <3>1, <3>2
        <3>3. CASE Rtrim(bits) # << >>
            BY <1>4, <1>16, <1>18, <1>19, <2>1, <2>2, <3>1, <3>3
        <3> QED BY <3>2, <3>3
    <2>4. Began(c, t) = n + 2 /\ x = 0 /\ Sound(t) \in 0..n /\ ~(Sound(t) >= n + 2)
        BY <1>2, <1>5, <1>6, <1>20
    <2>5. Beats(c, Ups(t), n + 2, n + 1) = {}
        BY <1>2 DEF Beats
    <2>6. Waits(c, Ups(t), n + 2, n + 1) = -1
        <3>1. Since(Ups(t), (n + 1) + 1) \in 0..(n + 1)
            BY <1>2, <1>9
        <3>2. ~(Since(Ups(t), (n + 1) + 1) >= n + 2)
            BY <1>2, <3>1
        <3> QED BY <3>2 DEF Waits
    <2>7. /\ f.bits = << >> /\ f.silent = 0 /\ f.next = -1 /\ f.last = x /\ IsDecoder(f)
        BY <1>15, <1>20
    <2>8. Part(t, Beats(c, Ups(t), n + 2, n + 1)) = << >>
        BY <2>5, PartEmpty
    <2>9. n + 1 # 0 /\ ((n + 1) + 1) - (n + 2) = 0
        BY <1>2
    <2> HIDE DEF f, n
    <2> QED BY <1>2, <2>3, <2>4, <2>6, <2>7, <2>8, <2>9 DEF OokHolds, t, f
<1>21. CASE ~over
    <2>1. f.out = OokPackets(c, t)
        <3>1. n + 1 \notin OokWhole(c, t)
            BY <1>21 DEF OokWhole
        <3>2. f.out = e.out
            BY <1>15, <1>21
        <3> HIDE DEF f
        <3> QED BY <1>4, <1>16, <1>18, <1>19, <3>1, <3>2
    <2>2. /\ f.bits = bits /\ f.silent = hushed /\ f.last = x /\ IsDecoder(f)
          /\ f.next = Rewound(c, count)
        BY <1>15, <1>21
    <2>3. Began(c, t) = b /\ Sound(t) = IF x # 0 THEN n + 1 ELSE l
        BY <1>5, <1>21
    <2> DEFINE r == Since(Ups(t), (n + 1) + 1)
    <2>4. /\ hushed = IF Sound(t) >= b THEN (n + 1) - Sound(t) ELSE ((n + 1) + 1) - b
          /\ Sound(t) >= b => (n + 1) - Sound(t) < c.nulls /\ r >= b
        <3>1. CASE x = 0
            <4>1. hushed = e.silent + 1 /\ Sound(t) = l /\ n + 1 \notin Ups(t) /\ r = q
                BY <1>7, <1>9, <2>3, <3>1 DEF Hushed
            <4>2. ~(l >= b /\ (n + 1) - l = c.nulls)
                BY <1>5, <1>21, <3>1
            <4>3. /\ e.silent = (IF l >= b THEN n - l ELSE (n + 1) - b)
                  /\ (l >= b => n - l < c.nulls /\ q >= b)
                BY <1>4
            <4> HIDE DEF hushed, l, b, q, r, n
            <4>4. /\ l >= b => hushed = (n + 1) - l /\ (n + 1) - l < c.nulls
                  /\ ~(l >= b) => hushed = ((n + 1) + 1) - b
                BY <1>2, <1>3, <1>6, <4>1, <4>2, <4>3
            <4> QED BY <4>1, <4>3, <4>4
        <3>2. CASE x # 0
            <4>1. hushed = 0 /\ Sound(t) = n + 1 /\ Sound(t) >= b /\ (n + 1) - Sound(t) = 0 /\ x = 1
                BY <1>2, <1>6, <2>3, <3>2 DEF Hushed
            <4>2. r >= b
                <5>1. CASE n + 1 \in Ups(t)
                    <6>1. r = n + 1
                        BY <1>9, <5>1
                    <6> HIDE DEF r, b
                    <6> QED BY <1>6, <6>1
                <5>2. CASE n + 1 \notin Ups(t)
                    <6>1. n > 0 /\ s[n] # 0
                        BY <1>2, <1>7, <4>1, <5>2
                    <6>2. r = q /\ l >= b
                        BY <1>2, <1>5, <1>9, <5>2, <6>1
                    <6> QED BY <1>4, <6>2
                <5> QED BY <5>1, <5>2
            <4> HIDE DEF hushed, b, r
            <4> QED BY <1>3, <4>1, <4>2
        <3> QED BY <3>1, <3>2
    <2>5. f.next = Waits(c, Ups(t), b, n + 1) /\ f.bits = Part(t, T)
        BY <1>10, <1>11, <2>2
    <2>6. n + 1 # 0
        BY <1>2
    <2> HIDE DEF f, n, b, hushed, bits
    <2> QED BY <1>2, <2>1, <2>2, <2>3, <2>4, <2>5, <2>6 DEF OokHolds, t, f
<1> QED BY <1>20, <1>21

LEMMA OokWindow ==
    ASSUME Timed(graph.conf), graph.conf.offset <= graph.conf.nulls,
           NEW s \in Seq({0, 1}), NEW e, OokHolds(graph.conf, s, e), NEW w \in Seq({0, 1})
    PROVE  OokHolds(graph.conf, s \o w, FoldLeft(OokStep, e, w))
<1> DEFINE H(u) == OokHolds(graph.conf, s \o u, Ook!Fold(e, u))
           V == {0, 1}
           P == {u \in Seq(V) : H(u)}
<1>0. \A v \in V : v = 0 \/ v = 1
    OBVIOUS
<1> HIDE DEF V
<1>1. << >> \in P
    <2>1. s \o << >> = s /\ << >> \in Seq(V)
        BY ConcatEmptySeq, EmptySeq
    <2>2. Ook!Fold(e, << >>) = e
        BY Ook!FoldEmpty
    <2> QED BY <2>1, <2>2
<1>2. ASSUME NEW u \in Seq(V), u \in P, NEW x \in V PROVE Append(u, x) \in P
    <2>0. s \in Seq(V)
        BY DEF V
    <2>1. Ook!Fold(e, Append(u, x)) = OokStep(Ook!Fold(e, u), x)
        BY Ook!FoldAppend
    <2>2. s \o Append(u, x) = Append(s \o u, x)
        BY <2>0, AppendedLast
    <2>3. s \o u \in Seq(V) /\ Append(u, x) \in Seq(V)
        BY <2>0, ConcatProperties, AppendProperties
    <2>4. OokHolds(graph.conf, s \o u, Ook!Fold(e, u))
        BY <1>2
    <2>5. OokHolds(graph.conf, Append(s \o u, x), OokSample(graph.conf, Ook!Fold(e, u), x))
        BY <1>0, <2>3, <2>4, OokStays
    <2> QED BY <2>1, <2>2, <2>3, <2>5 DEF OokStep
<1> HIDE DEF P
<1>3. \A u \in Seq(V) : u \in P
    BY <1>1, <1>2, Ook!SeqInduction
<1>4. H(w)
    BY <1>3 DEF P, V
<1>5. FoldLeft(OokStep, e, w) = Ook!Fold(e, w)
    BY DEF Ook!Fold, FoldLeft, MapThenFoldSet, Ook!FoldLeft, Ook!MapThenFoldSet, Max, Ook!Max
<1> QED BY <1>4, <1>5

OokInv ==
    graph.sink = "ook_decode_b" /\ graph.conf.offset <= graph.conf.nulls =>
        OokHolds(graph.conf, Consumed, d)

LEMMA TimesAre ==
    ASSUME graph \in Graphs
    PROVE  Timed(graph.conf)
BY GraphIs DEF Timed

LEMMA OokInit == Init => OokInv
<1> SUFFICES ASSUME Init PROVE OokHolds(graph.conf, Consumed, d)
    BY DEF OokInv
<1> DEFINE s == Consumed
           c == graph.conf
<1>1. /\ s = << >> /\ IsDecoder(d) /\ d.bits = << >> /\ d.out = << >>
      /\ d.next = -1 /\ d.silent = 0 /\ d.last = 0
    BY NoneConsumed
<1>2. c.nulls \in Nat \ {0}
    BY TimesAre DEF Init, Timed
<1> HIDE DEF s, c
<1>3. Len(s) = 0 /\ DOMAIN s = {} /\ DOMAIN s = 1..Len(s) /\ Len(s) \in Nat
    BY <1>1, NothingIs
<1>4. Ends(c, s) = {} /\ Sounds(s) = {} /\ Ups(s) = {} /\ OokWhole(c, s) = {}
    BY <1>3 DEF Ends, Sounds, Ups, OokWhole
<1>5. Since({}, Len(s) + 1) = 0
    <2>1. Len(s) + 1 \in Nat
        BY <1>3
    <2> QED BY <1>1, <2>1, NothingIs
<1>6. Began(c, s) = 1 /\ Sound(s) = 0
    BY <1>4, <1>5 DEF Began, Sound
<1>7. Waits(c, Ups(s), 1, Len(s)) = -1
    BY <1>4, <1>5 DEF Waits
<1>8. Part(s, Beats(c, Ups(s), 1, Len(s))) = << >>
    <2>1. Beats(c, Ups(s), 1, Len(s)) = {}
        BY <1>3 DEF Beats
    <2> QED BY <2>1, PartEmpty
<1>9. OokPackets(c, s) = << >>
    BY <1>2, <1>3, <1>4, OokPacketsAre, PartEmpty
<1>10. ~(Sound(s) >= 1) /\ (Len(s) + 1) - 1 = 0
    BY <1>3, <1>6
<1>11. OokHolds(c, s, d)
    BY <1>1, <1>3, <1>6, <1>7, <1>8, <1>9, <1>10 DEF OokHolds
<1> QED BY <1>11 DEF s, c

LEMMA OokCall ==
    ASSUME TypeInv, SignInv, OokInv, NEW n \in graph.windows, OokDecodeWork(n)
    PROVE  OokInv'
<1>1. SinkCall(n) /\ read' = read + n
    BY FoldWorkIs
<1>2. n \in Nat /\ read + n <= Len(stream) /\ UNCHANGED <<graph, stream>>
    BY <1>1 DEF SinkCall
<1>3. /\ graph.sink = "ook_decode_b"
      /\ d' = FoldLeft(OokStep, d, Offered(n))
    BY DEF OokDecodeWork, SinkWork
<1>4. Consumed' = Consumed \o Offered(n)
    BY <1>1, <1>2, ConsumedGrows
<1>5. Consumed \in Seq({0, 1}) /\ Offered(n) \in Seq({0, 1})
    BY <1>2, <1>3, HandedSigns
<1>6. Timed(graph.conf)
    BY TimesAre DEF TypeInv
<1>7. ASSUME graph.conf.offset <= graph.conf.nulls
      PROVE  OokHolds(graph.conf, Consumed \o Offered(n), FoldLeft(OokStep, d, Offered(n)))
    <2>1. OokHolds(graph.conf, Consumed, d)
        BY <1>3, <1>7 DEF OokInv
    <2> QED BY <1>5, <1>6, <1>7, <2>1, OokWindow
<1>8. graph'.conf = graph.conf
    BY <1>2
<1> QED BY <1>3, <1>4, <1>7, <1>8 DEF OokInv

LEMMA OokNext ==
    ASSUME TypeInv, SignInv, OokInv, [Next]_vars
    PROVE  OokInv'
<1>1. TypeInv' /\ UNCHANGED graph
    BY StepIs
<1>2. CASE UNCHANGED <<read, d, alone>> /\ Longer
    <2>1. Consumed' = Consumed
        BY <1>2, ConsumedStays
    <2> QED BY <1>1, <1>2, <2>1 DEF OokInv
<1>3. ASSUME NEW n \in graph.windows, Calls(n) PROVE OokInv'
    <2>1. CASE graph.sink = "ook_decode_b"
        BY <1>3, <2>1, OwnCall, OokCall
    <2>2. CASE graph.sink # "ook_decode_b"
        BY <1>1, <2>2 DEF OokInv
    <2> QED BY <2>1, <2>2
<1> QED BY <1>2, <1>3, StepIs

-----------------------------------------------------------------------------
(* pn_decode_f                                                             *)

Changes(s) == {q \in DOMAIN s : s[q] # 0 /\ (q = 1 \/ s[q - 1] # s[q])}
Voiced(s, S) == {p \in S : s[p] # 0}
Levels(s) == [p \in DOMAIN s |-> Bit(s[p])]
PnBeats(c, s, e) == Voiced(s, Beats(c, Changes(s), Beginning(c, s, e), e))
PnPacketsAt(c, s) == [p \in DOMAIN s |-> Part(Levels(s), PnBeats(c, s, p))]

LEMMA BeginsAfterSilence ==
    ASSUME NEW c, c.nulls \in Nat \ {0}, NEW s, DOMAIN s = 1..Len(s), Len(s) \in Nat,
           NEW e \in Nat \ {0}
    PROVE  Beginning(c, s, e) = 1 \/ s[Beginning(c, s, e) - 1] = 0
<1> DEFINE y == Since(Ends(c, s), e)
<1>1. \A p \in Ends(c, s) : p \in Nat /\ s[p] = 0
    BY EndsAre
<1>2. y \in Nat /\ (y = 0 \/ y \in Ends(c, s))
    BY <1>1, SinceIs
<1>3. Beginning(c, s, e) = y + 1
    BY DEF Beginning, Since
<1> HIDE DEF y
<1>4. (y + 1) - 1 = y
    BY <1>2
<1> QED BY <1>1, <1>2, <1>3, <1>4

(* Sample p in time after the last of the edges D, and after that of E.    *)
Near(c, D, p) == D # {} /\ p - Max(D) >= c.offset /\ (p - Max(D) - c.offset) % c.sps = 0

LEMMA NearIs ==
    ASSUME NEW c, NEW n \in Nat, NEW b \in Nat \ {0}, NEW p \in b..n, NEW E, \A q \in E : q \in 1..n,
           NEW D, \A q : q \in D <=> q \in b..p /\ q \in E
    PROVE  Near(c, D, p) <=> OnBeat(c, E, b, p)
<1> DEFINE m == Since(E, p + 1)
<1>1. D # {} <=> m >= b
    BY EdgesBeat
<1>2. D # {} => Max(D) = m
    BY EdgesBeat
<1>3. OnBeat(c, E, b, p) <=> m >= b /\ p - m >= c.offset /\ (p - m - c.offset) % c.sps = 0
    BY DEF OnBeat
<1> HIDE DEF m
<1> QED BY <1>1, <1>2, <1>3 DEF Near

LEMMA PnBitsAre ==
    ASSUME NEW c, c.nulls \in Nat \ {0}, NEW s, DOMAIN s = 1..Len(s), Len(s) \in Nat,
           NEW e \in 1..Len(s)
    PROVE  PnBits(c, s, e) = Part(Levels(s), PnBeats(c, s, e))
<1> DEFINE b == Beginning(c, s, e)
           D(p) == {q \in b..p : s[q] # 0 /\ (q = b \/ s[q - 1] # s[q])}
           S == {p \in b..e : Near(c, D(p), p)}
           at == InOrder({p \in S : s[p] # 0})
<1>1. PnBits(c, s, e) = [i \in DOMAIN at |-> Bit(s[at[i]])]
    BY DEF PnBits, Sampled, Part, Bit, Near
<1>2. b \in Nat \ {0} /\ b <= e
    BY BeginningIs
<1>3. b = 1 \/ s[b - 1] = 0
    BY BeginsAfterSilence
<1> HIDE DEF b
<1>4. ASSUME NEW p \in b..e PROVE \A q : q \in D(p) <=> q \in b..p /\ q \in Changes(s)
    <2>1. \A q \in b..p : q \in DOMAIN s /\ (q = 1 => q = b)
        BY <1>2, <1>4
    <2>2. ASSUME NEW q \in b..p, s[q] # 0
          PROVE  (q = b \/ s[q - 1] # s[q]) <=> (q = 1 \/ s[q - 1] # s[q])
        BY <1>3, <2>1, <2>2
    <2> QED BY <2>1, <2>2 DEF Changes
<1>5. ASSUME NEW p \in b..e PROVE Near(c, D(p), p) <=> OnBeat(c, Changes(s), b, p)
    <2>1. \A q : q \in D(p) <=> q \in b..p /\ q \in Changes(s)
        BY <1>4
    <2>2. \A q \in Changes(s) : q \in 1..Len(s)
        BY DEF Changes
    <2>3. p \in b..Len(s)
        BY <1>2
    <2> HIDE DEF D
    <2> QED BY <1>2, <2>1, <2>2, <2>3, NearIs
<1>6. S = Beats(c, Changes(s), b, e)
    <2> HIDE DEF D
    <2> QED BY <1>5 DEF Beats
<1>7. {p \in S : s[p] # 0} = PnBeats(c, s, e)
    BY <1>6 DEF PnBeats, Voiced, b
<1>8. at = InOrder(PnBeats(c, s, e))
    BY <1>7
<1>9. \A p \in PnBeats(c, s, e) : p \in Nat /\ p <= Len(s) /\ p \in DOMAIN s
    BY <1>2 DEF PnBeats, Voiced, Beats, b
<1> HIDE DEF at, S
<1>10. \A i \in DOMAIN at : at[i] \in PnBeats(c, s, e)
    BY <1>8, <1>9, InOrderIs
<1>11. \A i \in DOMAIN at : Levels(s)[at[i]] = Bit(s[at[i]])
    BY <1>9, <1>10 DEF Levels
<1> QED BY <1>1, <1>8, <1>11 DEF Part

LEMMA PnPacketsAre ==
    ASSUME NEW c, c.nulls \in Nat \ {0}, NEW s, DOMAIN s = 1..Len(s), Len(s) \in Nat
    PROVE  PnPackets(c, s) = Part(PnPacketsAt(c, s), Ends(c, s))
<1> DEFINE at == InOrder(Ends(c, s))
<1>1. \A p \in Ends(c, s) : p \in 1..Len(s) /\ p \in Nat /\ p <= Len(s)
    BY EndsAre
<1>2. \A i \in DOMAIN at : at[i] \in Ends(c, s)
    BY <1>1, InOrderIs
<1>3. PnPackets(c, s) = [i \in DOMAIN at |-> PnBits(c, s, at[i])]
    BY DEF PnPackets
<1>4. \A i \in DOMAIN at : PnBits(c, s, at[i]) = PnPacketsAt(c, s)[at[i]]
    BY <1>1, <1>2, PnBitsAre DEF PnPacketsAt
<1> QED BY <1>3, <1>4 DEF Part

LEMMA ChangesMore ==
    ASSUME NEW s, NEW x, NEW t, Adds(s, x, t)
    PROVE  LET n == Len(s)
           IN  /\ (\A p \in Changes(s) : p \in 1..n) /\ (\A p \in Changes(t) : p \in 1..(n + 1))
               /\ \A p \in 1..n : p \in Changes(s) <=> p \in Changes(t)
               /\ n + 1 \in Changes(t) <=> x # 0 /\ (n = 0 \/ s[n] # x)
<1> DEFINE n == Len(s)
<1>1. /\ n \in Nat /\ Len(t) = n + 1 /\ DOMAIN s = 1..n /\ DOMAIN t = 1..(n + 1)
      /\ t[n + 1] = x /\ \A i \in 1..n : t[i] = s[i]
    BY DEF Adds
<1>2. ASSUME NEW p \in 1..n PROVE p \in Changes(s) <=> p \in Changes(t)
    <2>1. p # 1 => p - 1 \in 1..n
        BY <1>1
    <2> QED BY <1>1, <2>1 DEF Changes
<1>3. n + 1 \in Changes(t) <=> x # 0 /\ (n = 0 \/ s[n] # x)
    <2>1. n # 0 => n \in 1..n /\ (n + 1) - 1 = n /\ n + 1 # 1
        BY <1>1
    <2>2. n = 0 => n + 1 = 1
        OBVIOUS
    <2> QED BY <1>1, <2>1, <2>2 DEF Changes
<1>4. (\A p \in Changes(s) : p \in 1..n) /\ (\A p \in Changes(t) : p \in 1..(n + 1))
    BY <1>1 DEF Changes
<1> QED BY <1>2, <1>3, <1>4

(* The bits of samples that t and s have in common.                        *)
LEMMA LevelsStay ==
    ASSUME NEW s, NEW x, NEW t, Adds(s, x, t), NEW S, \A p \in S : p \in 1..Len(s)
    PROVE  Voiced(t, S) = Voiced(s, S) /\ Part(Levels(t), Voiced(t, S)) = Part(Levels(s), Voiced(s, S))
<1>1. /\ Len(s) \in Nat /\ \A i \in 1..Len(s) : t[i] = s[i] /\ i \in DOMAIN s /\ i \in DOMAIN t
    BY DEF Adds
<1>2. Voiced(t, S) = Voiced(s, S)
    BY <1>1 DEF Voiced
<1>3. \A p \in Voiced(s, S) : p \in Nat /\ p <= Len(s) /\ Levels(t)[p] = Levels(s)[p]
    BY <1>1 DEF Levels, Voiced
<1>4. Part(Levels(t), Voiced(s, S)) = Part(Levels(s), Voiced(s, S))
    BY <1>1, <1>3, PartSame
<1> QED BY <1>2, <1>4

LEMMA LevelsGrow ==
    ASSUME NEW s, NEW x, NEW t, Adds(s, x, t), NEW S, \A p \in S : p \in 1..Len(s)
    PROVE  Part(Levels(t), Voiced(t, S \cup {Len(s) + 1})) =
               IF x # 0 THEN Append(Part(Levels(s), Voiced(s, S)), Bit(x))
               ELSE Part(Levels(s), Voiced(s, S))
<1> DEFINE n == Len(s)
           R == Voiced(s, S)
<1>1. n \in Nat /\ t[n + 1] = x /\ n + 1 \in DOMAIN t
    BY DEF Adds
<1>2. Voiced(t, S) = R /\ Part(Levels(t), R) = Part(Levels(s), R)
    BY LevelsStay
<1>3. \A p \in R : p \in Nat /\ p < n + 1
    BY <1>1 DEF Voiced
<1>4. Levels(t)[n + 1] = Bit(x)
    BY <1>1 DEF Levels
<1>5. Voiced(t, S \cup {n + 1}) = IF x # 0 THEN R \cup {n + 1} ELSE R
    BY <1>1, <1>2 DEF Voiced
<1> HIDE DEF R
<1>6. Part(Levels(t), R \cup {n + 1}) = Append(Part(Levels(t), R), Levels(t)[n + 1])
    <2>1. n + 1 \in Nat
        BY <1>1
    <2> QED BY <1>3, <2>1, PartAdd
<1> QED BY <1>2, <1>4, <1>5, <1>6 DEF R

(* Packets that are over stay as they are.                                 *)
LEMMA PnStay ==
    ASSUME NEW c, c.nulls \in Nat \ {0}, NEW s, NEW x, NEW t, Adds(s, x, t), NEW e \in 1..Len(s)
    PROVE  Part(Levels(t), PnBeats(c, t, e)) = Part(Levels(s), PnBeats(c, s, e))
<1> DEFINE n == Len(s)
           b == Beginning(c, s, e)
           S == Beats(c, Changes(s), b, e)
<1>1. /\ n \in Nat /\ DOMAIN s = 1..n
    BY DEF Adds
<1>2. Beginning(c, t, e) = b
    <2>1. \A u \in 1..(n + 1) : Beginning(c, t, u) = Beginning(c, s, u)
        BY Passes
    <2> QED BY <1>1, <2>1
<1>3. b \in Nat \ {0} /\ b <= e
    BY <1>1, BeginningIs
<1> HIDE DEF b
<1>4. e \in 0..n /\ b \in Nat
    BY <1>1, <1>3
<1>5. /\ (\A p \in Changes(s) : p \in 1..n) /\ (\A p \in Changes(t) : p \in 1..(n + 1))
      /\ \A p \in 1..n : p \in Changes(s) <=> p \in Changes(t)
    BY ChangesMore
<1>6. Beats(c, Changes(t), b, e) = S
    <2> HIDE DEF n
    <2>1. \A m \in 0..n : Beats(c, Changes(t), b, m) = Beats(c, Changes(s), b, m)
        BY <1>1, <1>4, <1>5, BeatsStay
    <2> QED BY <1>4, <2>1
<1>7. \A p \in S : p \in 1..n
    BY <1>1, <1>3 DEF Beats
<1>8. PnBeats(c, t, e) = Voiced(t, S) /\ PnBeats(c, s, e) = Voiced(s, S)
    BY <1>2, <1>6 DEF PnBeats, b
<1> HIDE DEF S
<1>9. Part(Levels(t), Voiced(t, S)) = Part(Levels(s), Voiced(s, S))
    BY <1>7, LevelsStay
<1> QED BY <1>8, <1>9

(* A signal that is clean was clean all along.                             *)
LEMMA CleanBefore ==
    ASSUME NEW c, c.nulls \in Nat \ {0}, NEW s, NEW x, NEW t, Adds(s, x, t), PnClean(c, t)
    PROVE  PnClean(c, s)
<1> DEFINE n == Len(s)
<1>1. /\ n \in Nat /\ Len(t) = n + 1 /\ DOMAIN s = 1..n /\ DOMAIN t = 1..(n + 1)
      /\ \A i \in 1..n : t[i] = s[i]
    BY DEF Adds
<1>2. ASSUME NEW p \in DOMAIN s, NEW q \in DOMAIN s,
             p < q, s[p] # 0, s[q] # 0, \A r \in (p + 1)..(q - 1) : s[r] = 0
      PROVE  q = p + 1 \/ q - p > c.nulls
    <2>1. p \in DOMAIN t /\ q \in DOMAIN t /\ t[p] # 0 /\ t[q] # 0
        BY <1>1, <1>2
    <2>2. \A r \in (p + 1)..(q - 1) : r \in 1..n /\ t[r] = 0
        BY <1>1, <1>2
    <2> QED BY <1>2, <2>1, <2>2 DEF PnClean
<1>3. ASSUME NEW e \in Ends(c, s) PROVE PnBits(c, s, e) # << >>
    <2>1. e \in 1..n
        BY <1>1, EndsAre
    <2>2. e \in Ends(c, t) /\ e \in 1..(n + 1)
        <3>1. \A p \in 1..n : p \in Ends(c, s) <=> p \in Ends(c, t)
            BY Passes
        <3> QED BY <1>1, <2>1, <3>1, <1>3
    <2>3. PnBits(c, t, e) # << >>
        BY <2>2 DEF PnClean
    <2>4. PnBits(c, t, e) = Part(Levels(t), PnBeats(c, t, e))
        BY <1>1, <2>2, PnBitsAre
    <2>5. PnBits(c, s, e) = Part(Levels(s), PnBeats(c, s, e))
        BY <1>1, <2>1, PnBitsAre
    <2> QED BY <2>1, <2>3, <2>4, <2>5, PnStay
<1> QED BY <1>2, <1>3 DEF PnClean

(* The bits sampled from b to m; PnBits are those from beginning to end.   *)
PnSoFar(c, s, b, m) == Part(Levels(s), Voiced(s, Beats(c, Changes(s), b, m)))

(* What pn_decode_f holds and has published after the clean signal s.      *)
PnHolds(c, s, e) ==
    LET n == Len(s)
        b == Began(c, s)
        l == Sound(s)
        q == Since(Changes(s), n + 1)
    IN  /\ IsDecoder(e)
        /\ l < b => e.next = -1 /\ e.silent = (n + 1) - b
        /\ l >= b => e.silent = n - l /\ n - l < c.nulls /\ q >= b
        /\ l >= b /\ l = n => e.next = Waits(c, Changes(s), b, n) /\ e.last = s[n]
        /\ e.bits = PnSoFar(c, s, b, n)
        /\ e.out = PnPackets(c, s)

PnCount(c, e, x) == CountDown(IF PnEdge(e, x) THEN c.offset + 1 ELSE e.next)
PnTaken(c, e, x) ==
    IF PnCount(c, e, x) = 0 /\ x # 0 THEN Append(e.bits, Bit(x)) ELSE e.bits
PnRewound(c, e, x) ==
    IF PnCount(c, e, x) = 0 /\ x # 0 THEN c.sps ELSE PnCount(c, e, x)
PnLast(e, x) == IF x = 0 THEN e.last ELSE x

LEMMA PnSampleIs ==
    ASSUME NEW c, NEW e, IsDecoder(e), NEW x
    PROVE  LET f == PnSample(c, e, x)
               bits == PnTaken(c, e, x)
           IN  /\ IsDecoder(f)
               /\ Hushed(e, x) = c.nulls /\ bits # << >> =>
                    /\ f.bits = << >> /\ f.silent = 0 /\ f.next = -1
                    /\ f.out = Append(e.out, bits)
               /\ ~(Hushed(e, x) = c.nulls /\ bits # << >>) =>
                    /\ f.bits = bits /\ f.silent = Hushed(e, x) /\ f.out = e.out
                    /\ f.next = PnRewound(c, e, x) /\ f.last = PnLast(e, x)
<1> DEFINE f == PnSample(c, e, x)
           bits == PnTaken(c, e, x)
           hushed == Hushed(e, x)
           next == PnRewound(c, e, x)
           last == PnLast(e, x)
           o == Append(e.out, bits)
<1>1. f = IF hushed = c.nulls /\ bits # << >>
          THEN Reset([e EXCEPT !.out = o])
          ELSE [e EXCEPT !.bits = bits, !.silent = hushed, !.next = next, !.last = last]
    BY DEF PnSample, PnCount, PnTaken, PnRewound, PnLast, Hushed, Bit
<1> HIDE DEF f, bits, hushed, next, last, o
<1>2. CASE hushed = c.nulls /\ bits # << >>
    <2>1. f = Reset([e EXCEPT !.out = o])
        BY <1>1, <1>2
    <2> DEFINE g == [e EXCEPT !.out = o]
    <2>2. IsDecoder(g) /\ g.buf = e.buf /\ g.len = e.len /\ g.out = o
        BY DEF IsDecoder
    <2> HIDE DEF g
    <2>3. Reset(g) = [bits |-> << >>, silent |-> 0, next |-> -1, last |-> 0,
                      buf |-> e.buf, len |-> e.len, out |-> o]
        BY <2>2, ResetIs
    <2>4. f = [bits |-> << >>, silent |-> 0, next |-> -1, last |-> 0,
               buf |-> e.buf, len |-> e.len, out |-> o]
        BY <2>1, <2>3 DEF g
    <2>5. IsDecoder(f) /\ f.bits = << >> /\ f.silent = 0 /\ f.next = -1 /\ f.out = o
        BY <2>4 DEF IsDecoder
    <2> QED BY <1>2, <2>5 DEF f, bits, hushed, o
<1>3. CASE ~(hushed = c.nulls /\ bits # << >>)
    <2>1. f = [e EXCEPT !.bits = bits, !.silent = hushed, !.next = next, !.last = last]
        BY <1>1, <1>3
    <2>2. f = [bits |-> bits, silent |-> hushed, next |-> next, last |-> last,
               buf |-> e.buf, len |-> e.len, out |-> e.out]
        BY <2>1 DEF IsDecoder
    <2>3. /\ IsDecoder(f) /\ f.bits = bits /\ f.silent = hushed /\ f.next = next /\ f.last = last
          /\ f.out = e.out
        BY <2>2 DEF IsDecoder
    <2> QED BY <1>3, <2>3 DEF f, bits, hushed, next, last
<1> QED BY <1>2, <1>3

(* In a clean signal no sound follows a pause: the last one is the sample  *)
(* before, or the packet has not begun.                                    *)
LEMMA NoPause ==
    ASSUME NEW c, NEW s, NEW x, NEW t, Adds(s, x, t), PnClean(c, t), x # 0,
           c.nulls \in Nat \ {0}, Sound(s) >= 1, Len(s) - Sound(s) < c.nulls
    PROVE  Sound(s) = Len(s) /\ s[Len(s)] # 0 /\ Len(s) \in 1..Len(s)
<1> DEFINE n == Len(s)
           l == Sound(s)
<1>1. /\ n \in Nat /\ DOMAIN s = 1..n /\ DOMAIN t = 1..(n + 1)
      /\ t[n + 1] = x /\ \A i \in 1..n : t[i] = s[i]
    BY DEF Adds
<1>2. l \in 0..n /\ (l > 0 => s[l] # 0) /\ \A p \in (l + 1)..n : s[p] = 0
    BY <1>1, SoundIs
<1>3. l \in 1..n /\ s[l] # 0
    BY <1>1, <1>2
<1> HIDE DEF l
<1>4. \A r \in (l + 1)..((n + 1) - 1) : t[r] = 0
    <2>1. \A r \in (l + 1)..((n + 1) - 1) : r \in (l + 1)..n /\ r \in 1..n
        BY <1>1, <1>3
    <2> QED BY <1>1, <1>2, <2>1
<1>5. l \in DOMAIN t /\ n + 1 \in DOMAIN t /\ l < n + 1 /\ t[l] # 0 /\ t[n + 1] # 0
    BY <1>1, <1>3
<1>6. n + 1 = l + 1 \/ (n + 1) - l > c.nulls
    BY <1>4, <1>5 DEF PnClean
<1>7. ~((n + 1) - l > c.nulls)
    BY <1>1, <1>3 DEF l
<1>8. n = l
    <2>1. n + 1 = l + 1
        BY <1>6, <1>7
    <2>2. n \in Int /\ l \in Int
        BY <1>1, <1>3
    <2> HIDE DEF n
    <2> QED BY <2>1, <2>2
<1> QED BY <1>3, <1>8 DEF l

LEMMA PnSoFarMore ==
    ASSUME NEW c, NEW s, NEW x, NEW t, Adds(s, x, t), NEW b \in 1..(Len(s) + 1)
    PROVE  PnSoFar(c, t, b, Len(s) + 1) =
               IF x # 0 /\ OnBeat(c, Changes(t), b, Len(s) + 1)
               THEN Append(PnSoFar(c, s, b, Len(s)), Bit(x)) ELSE PnSoFar(c, s, b, Len(s))
<1> DEFINE n == Len(s)
           S == Beats(c, Changes(s), b, n)
           T == Beats(c, Changes(t), b, n + 1)
<1>1. n \in Nat
    BY DEF Adds
<1>2. /\ (\A p \in Changes(s) : p \in 1..n) /\ (\A p \in Changes(t) : p \in 1..(n + 1))
      /\ \A p \in 1..n : p \in Changes(s) <=> p \in Changes(t)
    BY ChangesMore
<1>3. T = IF OnBeat(c, Changes(t), b, n + 1) THEN S \cup {n + 1} ELSE S
    <2> HIDE DEF n
    <2>1. b \in 1..(n + 1)
        BY DEF n
    <2> QED BY <1>1, <1>2, <2>1, BeatsMore
<1>4. \A p \in S : p \in 1..n
    BY <1>1 DEF Beats
<1> HIDE DEF S, T
<1>5. Part(Levels(t), Voiced(t, S)) = Part(Levels(s), Voiced(s, S))
    BY <1>4, LevelsStay
<1>6. Part(Levels(t), Voiced(t, S \cup {n + 1})) =
          IF x # 0 THEN Append(Part(Levels(s), Voiced(s, S)), Bit(x))
          ELSE Part(Levels(s), Voiced(s, S))
    BY <1>4, LevelsGrow
<1>7. PnSoFar(c, t, b, n + 1) = Part(Levels(t), Voiced(t, T))
    BY DEF PnSoFar, T
<1>8. PnSoFar(c, s, b, n) = Part(Levels(s), Voiced(s, S))
    BY DEF PnSoFar, S
<1> QED BY <1>3, <1>5, <1>6, <1>7, <1>8

(* The clock while there is sound.                                         *)
LEMMA PnClock ==
    ASSUME NEW c, Timed(c), NEW V, \A v \in V : v = -1 \/ v = 0 \/ v = 1,
           NEW s \in Seq(V), NEW x \in V, x # 0, NEW t, Adds(s, x, t), PnClean(c, t),
           NEW e, PnHolds(c, s, e)
    PROVE  /\ PnCount(c, e, x) = 0 <=> OnBeat(c, Changes(t), Began(c, s), Len(s) + 1)
           /\ Rewound(c, PnCount(c, e, x)) = Waits(c, Changes(t), Began(c, s), Len(s) + 1)
           /\ Since(Changes(t), (Len(s) + 1) + 1) >= Began(c, s)
<1> DEFINE n == Len(s)
           b == Began(c, s)
           l == Sound(s)
           q == Since(Changes(s), n + 1)
           r == Since(Changes(t), (n + 1) + 1)
           count == PnCount(c, e, x)
<1>1. n \in Nat /\ DOMAIN s = 1..n /\ \A i \in 1..n : s[i] \in V
    BY LenProperties, ElementOfSeq
<1>2. c.sps \in Nat \ {0} /\ c.offset \in Nat /\ c.nulls \in Nat \ {0}
    BY DEF Timed
<1>3. /\ l < b => e.next = -1
      /\ l >= b => n - l < c.nulls /\ q >= b
      /\ l >= b /\ l = n => e.next = Waits(c, Changes(s), b, n) /\ e.last = s[n]
    BY DEF PnHolds
<1>4. l \in 0..n /\ b \in 1..(n + 1)
    BY <1>1, <1>2, SoundIs, EndsAre
<1>5. /\ (\A p \in Changes(s) : p \in 1..n) /\ (\A p \in Changes(t) : p \in 1..(n + 1))
      /\ \A p \in 1..n : p \in Changes(s) <=> p \in Changes(t)
      /\ n + 1 \in Changes(t) <=> x # 0 /\ (n = 0 \/ s[n] # x)
    BY ChangesMore
<1>6. /\ q \in 0..n
      /\ r = IF n + 1 \in Changes(t) THEN n + 1 ELSE q
    BY <1>1, <1>5, SinceMore
<1>7. count = Ticks(c, Changes(s), Changes(t), b, n) /\ r >= b
    <2>1. CASE l < b
        <3>1. n = 0 \/ s[n] = 0
            <4>1. n > 0 /\ s[n] # 0 => l = n /\ b <= n
                BY <1>2, Passes
            <4> HIDE DEF l, b, n
            <4> QED BY <1>1, <1>4, <2>1, <4>1
        <3>2. n + 1 \in Changes(t) /\ PnEdge(e, x)
            <4>1. e.next = -1
                BY <1>3, <2>1
            <4>2. -1 # 0 /\ -1 < 0
                OBVIOUS
            <4> QED BY <1>5, <3>1, <4>1, <4>2 DEF PnEdge
        <3>3. r >= b
            <4> HIDE DEF r, b, n
            <4> QED BY <1>1, <1>4, <1>6, <3>2
        <3> QED BY <3>2, <3>3 DEF PnCount, Ticks
    <2>2. CASE l >= b
        <3>1. l = n /\ s[n] # 0 /\ n \in 1..n
            <4>1. l >= 1 /\ n - l < c.nulls
                <5> HIDE DEF l, b, n
                <5> QED BY <1>1, <1>3, <1>4, <2>2
            <4> QED BY <1>2, <4>1, NoPause
        <3>2. e.next = Waits(c, Changes(s), b, n) /\ e.last = s[n] /\ q >= b
            BY <1>3, <2>2, <3>1
        <3>3. e.next = Wait(c, n - q) /\ n - q \in Nat
            <4>1. e.next = Wait(c, n - q)
                BY <3>2 DEF Waits
            <4> HIDE DEF q, n
            <4> QED BY <1>1, <1>6, <4>1
        <3>4. e.next \in Nat \ {0}
            <4> HIDE DEF q, n
            <4> QED BY <1>2, <3>3, WaitIs
        <3>5. s[n] \in V
            BY <1>1, <3>1
        <3>6. s[n] = -x <=> s[n] # x
            <4> HIDE DEF n
            <4> QED BY <3>1, <3>5
        <3>7. n + 1 \in Changes(t) <=> s[n] # x
            <4>1. n # 0
                BY <3>1
            <4> QED BY <1>5, <4>1
        <3>8. PnEdge(e, x) <=> n + 1 \in Changes(t)
            <4>1. e.next # 0 /\ ~(e.next < 0)
                BY <3>4
            <4> HIDE DEF n
            <4> QED BY <3>2, <3>6, <3>7, <4>1 DEF PnEdge
        <3>9. count = Ticks(c, Changes(s), Changes(t), b, n)
            BY <3>2, <3>8 DEF PnCount, Ticks
        <3>10. r >= b
            <4> HIDE DEF r, b, n, q
            <4> QED BY <1>1, <1>4, <1>6, <3>2
        <3> QED BY <3>9, <3>10
    <2>3. l < b \/ l >= b
        <3> HIDE DEF l, b, n
        <3> QED BY <1>1, <1>4
    <2> QED BY <2>1, <2>2, <2>3
<1>8. /\ Ticks(c, Changes(s), Changes(t), b, n) = 0 <=> OnBeat(c, Changes(t), b, n + 1)
      /\ Rewound(c, Ticks(c, Changes(s), Changes(t), b, n)) = Waits(c, Changes(t), b, n + 1)
    <2> HIDE DEF n, b
    <2> QED BY <1>1, <1>2, <1>4, <1>5, Metronome
<1> QED BY <1>7, <1>8

LEMMA PnStays ==
    ASSUME NEW c, Timed(c), NEW V, \A v \in V : v = -1 \/ v = 0 \/ v = 1,
           NEW s \in Seq(V), NEW x \in V, PnClean(c, Append(s, x)), NEW e, PnHolds(c, s, e)
    PROVE  PnHolds(c, Append(s, x), PnSample(c, e, x))
<1> DEFINE t == Append(s, x)
           n == Len(s)
           b == Began(c, s)
           l == Sound(s)
           q == Since(Changes(s), n + 1)
           r == Since(Changes(t), (n + 1) + 1)
           count == PnCount(c, e, x)
           bits == PnTaken(c, e, x)
           hushed == Hushed(e, x)
           over == n + 1 \in Ends(c, t)
           f == PnSample(c, e, x)
<1>1. Adds(s, x, t) /\ PnClean(c, t)
    BY AppendAdds
<1> HIDE DEF t
<1>2. /\ n \in Nat /\ Len(t) = n + 1 /\ DOMAIN s = 1..n /\ DOMAIN t = 1..(n + 1)
      /\ t[n + 1] = x /\ \A i \in 1..n : t[i] = s[i]
    BY <1>1 DEF Adds
<1>3. c.sps \in Nat \ {0} /\ c.offset \in Nat /\ c.nulls \in Nat \ {0}
    BY DEF Timed
<1>4. /\ IsDecoder(e)
      /\ l < b => e.next = -1 /\ e.silent = (n + 1) - b
      /\ l >= b => e.silent = n - l /\ n - l < c.nulls /\ q >= b
      /\ e.bits = PnSoFar(c, s, b, n) /\ e.out = PnPackets(c, s)
    BY DEF PnHolds
<1>5. /\ \A p \in 1..n : p \in Ends(c, s) <=> p \in Ends(c, t)
      /\ Sound(t) = (IF x # 0 THEN n + 1 ELSE l)
      /\ Began(c, t) = (IF over THEN n + 2 ELSE b)
      /\ over <=> x = 0 /\ l >= b /\ (n + 1) - l = c.nulls
      /\ Beginning(c, t, n + 1) = b
    <2>1. n + 1 \in 1..(n + 1)
        BY <1>2
    <2> QED BY <1>1, <1>3, <2>1, Passes
<1>6. l \in 0..n /\ b \in 1..(n + 1) /\ b \in Nat /\ (l < b \/ l >= b)
    <2>1. l \in 0..n /\ b \in 1..(n + 1)
        BY <1>2, <1>3, SoundIs, EndsAre
    <2> HIDE DEF l, b, n
    <2> QED BY <1>2, <2>1
<1>7. /\ (\A p \in Changes(s) : p \in 1..n) /\ (\A p \in Changes(t) : p \in 1..(n + 1))
      /\ \A p \in 1..n : p \in Changes(s) <=> p \in Changes(t)
      /\ n + 1 \in Changes(t) <=> x # 0 /\ (n = 0 \/ s[n] # x)
    BY <1>1, ChangesMore
<1>8. \A p \in Changes(s) : p <= l
    <2>1. (\A p \in Sounds(s) : p \in 1..n) /\ \A p \in Changes(s) : p \in Sounds(s)
        BY <1>2 DEF Sounds, Changes
    <2>2. \A p \in Sounds(s) : p <= l
        BY <1>2, <2>1, LastBefore DEF Sound
    <2> QED BY <2>1, <2>2
<1>9. r = IF n + 1 \in Changes(t) THEN n + 1 ELSE q
    BY <1>2, <1>7, SinceMore
<1>10. ASSUME x # 0
       PROVE  /\ count = 0 <=> OnBeat(c, Changes(t), b, n + 1)
              /\ Rewound(c, count) = Waits(c, Changes(t), b, n + 1)
              /\ r >= b
    BY <1>1, <1>10, PnClock
<1>11. bits = PnSoFar(c, t, b, n + 1)
    <2>1. PnSoFar(c, t, b, n + 1) =
              IF x # 0 /\ OnBeat(c, Changes(t), b, n + 1)
              THEN Append(PnSoFar(c, s, b, n), Bit(x)) ELSE PnSoFar(c, s, b, n)
        BY <1>1, <1>6, PnSoFarMore
    <2>2. bits = IF count = 0 /\ x # 0 THEN Append(e.bits, Bit(x)) ELSE e.bits
        BY DEF PnTaken
    <2> HIDE DEF bits, count, b, n
    <2> QED BY <1>4, <1>10, <2>1, <2>2
<1>12. ASSUME x = 0, l < b PROVE bits = << >>
    <2>1. bits = e.bits
        BY <1>12 DEF PnTaken
    <2>2. \A u \in Changes(s) : u \in Nat /\ u < b
        BY <1>2, <1>6, <1>7, <1>8, <1>12
    <2>3. Beats(c, Changes(s), b, n) = {}
        <3>1. b \in Nat \ {0} /\ n \in Nat
            BY <1>2, <1>6
        <3> HIDE DEF b, n
        <3> QED BY <2>2, <3>1, NoBeats
    <2>4. Voiced(s, {}) = {}
        BY DEF Voiced
    <2>5. PnSoFar(c, s, b, n) = << >>
        BY <2>3, <2>4, PartEmpty DEF PnSoFar
    <2> QED BY <1>4, <2>1, <2>5
<1>13. PnPacketsAt(c, t)[n + 1] = bits
    <2>1. n + 1 \in DOMAIN t
        BY <1>2
    <2>2. PnPacketsAt(c, t)[n + 1] = Part(Levels(t), PnBeats(c, t, n + 1))
        BY <2>1 DEF PnPacketsAt
    <2>3. PnBeats(c, t, n + 1) = Voiced(t, Beats(c, Changes(t), b, n + 1))
        BY <1>5 DEF PnBeats
    <2> QED BY <1>11, <2>2, <2>3 DEF PnSoFar
<1>14. ASSUME over PROVE bits # << >>
    <2>1. PnBits(c, t, n + 1) # << >>
        BY <1>1, <1>14 DEF PnClean
    <2>2. Len(t) \in Nat /\ DOMAIN t = 1..Len(t) /\ n + 1 \in 1..Len(t)
        BY <1>2
    <2>3. PnBits(c, t, n + 1) = Part(Levels(t), PnBeats(c, t, n + 1))
        BY <1>3, <2>2, PnBitsAre
    <2>4. n + 1 \in DOMAIN t
        BY <1>2
    <2>5. PnPacketsAt(c, t)[n + 1] = Part(Levels(t), PnBeats(c, t, n + 1))
        BY <2>4 DEF PnPacketsAt
    <2> QED BY <1>13, <2>1, <2>3, <2>5
<1>15. over <=> hushed = c.nulls /\ bits # << >>
    <2>1. CASE x # 0
        BY <1>3, <1>5, <2>1 DEF Hushed
    <2>2. CASE x = 0 /\ l >= b
        <3>1. hushed = (n - l) + 1 /\ (n - l) + 1 = (n + 1) - l
            BY <1>2, <1>4, <1>6, <2>2 DEF Hushed
        <3> HIDE DEF hushed, bits, over
        <3> QED BY <1>5, <1>14, <2>2, <3>1
    <2>3. CASE x = 0 /\ l < b
        <3>1. ~(l >= b)
            <4> HIDE DEF l, b, n
            <4> QED BY <1>2, <1>6, <2>3
        <3> QED BY <1>5, <1>12, <2>3, <3>1
    <2> QED BY <1>6, <2>1, <2>2, <2>3
<1>16. /\ IsDecoder(f)
       /\ over => /\ f.bits = << >> /\ f.silent = 0 /\ f.next = -1
                  /\ f.out = Append(e.out, bits)
       /\ ~over => /\ f.bits = bits /\ f.silent = hushed /\ f.out = e.out
                   /\ f.next = PnRewound(c, e, x) /\ f.last = PnLast(e, x)
    <2> HIDE DEF over
    <2> QED BY <1>4, <1>15, PnSampleIs
<1>17. /\ PnPackets(c, s) = Part(PnPacketsAt(c, s), Ends(c, s))
       /\ PnPackets(c, t) = Part(PnPacketsAt(c, t), Ends(c, t))
    <2>1. Len(t) \in Nat /\ DOMAIN t = 1..Len(t)
        BY <1>2
    <2> QED BY <1>2, <1>3, <2>1, PnPacketsAre
<1>18. /\ (\A p \in Ends(c, s) : p \in 1..n) /\ (\A p \in Ends(c, t) : p \in 1..(n + 1))
       /\ \A p \in 1..n : PnPacketsAt(c, t)[p] = PnPacketsAt(c, s)[p]
    <2>1. (\A p \in Ends(c, s) : p \in 1..n) /\ (\A p \in Ends(c, t) : p \in 1..(n + 1))
        BY <1>2 DEF Ends
    <2>2. ASSUME NEW p \in 1..n PROVE PnPacketsAt(c, t)[p] = PnPacketsAt(c, s)[p]
        <3>1. p \in DOMAIN s /\ p \in DOMAIN t
            BY <1>2
        <3>2. Part(Levels(t), PnBeats(c, t, p)) = Part(Levels(s), PnBeats(c, s, p))
            BY <1>1, <1>3, PnStay
        <3> QED BY <3>1, <3>2 DEF PnPacketsAt
    <2> QED BY <2>1, <2>2
<1>19. /\ ~over => Ends(c, t) = Ends(c, s)
       /\ over => Ends(c, t) = Ends(c, s) \cup {n + 1}
    BY <1>2, <1>5, <1>18, OneMore
<1>20. /\ Part(PnPacketsAt(c, t), Ends(c, s)) = Part(PnPacketsAt(c, s), Ends(c, s))
       /\ Part(PnPacketsAt(c, t), Ends(c, s) \cup {n + 1}) =
             Append(Part(PnPacketsAt(c, s), Ends(c, s)), PnPacketsAt(c, t)[n + 1])
    <2>1. \A p \in Ends(c, s) : p \in Nat /\ p <= n /\ p < n + 1
                                /\ PnPacketsAt(c, t)[p] = PnPacketsAt(c, s)[p]
        BY <1>2, <1>18
    <2>2. n + 1 \in Nat
        BY <1>2
    <2>3. Part(PnPacketsAt(c, t), Ends(c, s)) = Part(PnPacketsAt(c, s), Ends(c, s))
        BY <1>2, <2>1, PartSame
    <2>4. Part(PnPacketsAt(c, t), Ends(c, s) \cup {n + 1}) =
             Append(Part(PnPacketsAt(c, t), Ends(c, s)), PnPacketsAt(c, t)[n + 1])
        BY <2>1, <2>2, PartAdd
    <2> QED BY <2>3, <2>4
<1>21. f.out = PnPackets(c, t)
    <2> HIDE DEF f, bits, over
    <2>1. CASE over
        BY <1>4, <1>13, <1>16, <1>17, <1>19, <1>20, <2>1
    <2>2. CASE ~over
        BY <1>4, <1>16, <1>17, <1>19, <1>20, <2>2
    <2> QED BY <2>1, <2>2
<1>22. CASE over
    <2>1. Began(c, t) = n + 2 /\ x = 0 /\ Sound(t) = l
        BY <1>5, <1>22
    <2>2. Sound(t) < n + 2 /\ ~(Sound(t) >= n + 2) /\ ((n + 1) + 1) - (n + 2) = 0
        BY <1>2, <1>6, <2>1
    <2>3. Beats(c, Changes(t), n + 2, n + 1) = {} /\ Voiced(t, {}) = {}
        BY <1>2 DEF Beats, Voiced
    <2>4. PnSoFar(c, t, n + 2, n + 1) = << >>
        BY <2>3, PartEmpty DEF PnSoFar
    <2>5. f.bits = << >> /\ f.silent = 0 /\ f.next = -1 /\ IsDecoder(f)
        BY <1>16, <1>22
    <2> HIDE DEF f, n, over
    <2> QED BY <1>2, <1>21, <2>1, <2>2, <2>4, <2>5 DEF PnHolds, t, f
<1>23. CASE ~over
    <2>1. Began(c, t) = b
        BY <1>5, <1>23
    <2>2. f.bits = PnSoFar(c, t, b, n + 1) /\ IsDecoder(f)
          /\ f.silent = hushed /\ f.next = PnRewound(c, e, x) /\ f.last = PnLast(e, x)
        BY <1>11, <1>16, <1>23
    <2> DEFINE m == Sound(t)
    <2>3. /\ m < b => f.next = -1 /\ f.silent = ((n + 1) + 1) - b
          /\ m >= b => f.silent = (n + 1) - m /\ (n + 1) - m < c.nulls /\ r >= b
          /\ m >= b /\ m = n + 1 => f.next = Waits(c, Changes(t), b, n + 1) /\ f.last = t[n + 1]
        <3>1. CASE x = 0
            <4>1. m = l /\ hushed = e.silent + 1 /\ n + 1 \notin Changes(t) /\ r = q
                BY <1>5, <1>7, <1>9, <3>1 DEF Hushed
            <4>2. ~(l >= b /\ (n + 1) - l = c.nulls)
                BY <1>5, <1>23, <3>1
            <4>3. ASSUME l < b PROVE f.next = -1
                <5>1. e.next = -1
                    BY <1>4, <4>3
                <5>2. count = -1
                    <6>1. count = CountDown(-1)
                        BY <3>1, <5>1 DEF PnCount, PnEdge
                    <6> QED BY <6>1 DEF CountDown
                <5> QED BY <2>2, <3>1, <5>2 DEF PnRewound
            <4> HIDE DEF f, l, b, n, m, hushed, q, r
            <4>4. m # n + 1 /\ m <= n
                BY <1>2, <1>6, <4>1
            <4>5. m < b => f.silent = ((n + 1) + 1) - b
                BY <1>2, <1>4, <1>6, <2>2, <4>1
            <4>6. m >= b => f.silent = (n + 1) - m /\ (n + 1) - m < c.nulls /\ r >= b
                BY <1>2, <1>3, <1>4, <1>6, <2>2, <4>1, <4>2
            <4> QED BY <4>1, <4>3, <4>4, <4>5, <4>6
        <3>2. CASE x # 0
            <4>1. m = n + 1 /\ hushed = 0 /\ f.last = x
                BY <1>5, <2>2, <3>2 DEF Hushed, PnLast
            <4>2. f.next = Rewound(c, count)
                BY <2>2, <3>2 DEF PnRewound, Rewound
            <4>3. Rewound(c, count) = Waits(c, Changes(t), b, n + 1) /\ r >= b
                BY <1>10, <3>2
            <4> HIDE DEF f, b, n, m, hushed, r, count
            <4>4. ~(m < b) /\ (n + 1) - m = 0 /\ 0 < c.nulls
                BY <1>2, <1>3, <1>6, <4>1
            <4> QED BY <1>2, <2>2, <4>1, <4>2, <4>3, <4>4
        <3> QED BY <3>1, <3>2
    <2> HIDE DEF f, n, b, r
    <2> QED BY <1>2, <1>21, <2>1, <2>2, <2>3 DEF PnHolds, t, f, r
<1> QED BY <1>22, <1>23

LEMMA PnWindow ==
    ASSUME Timed(graph.conf), NEW s \in Seq(Signs), NEW e,
           PnClean(graph.conf, s) => PnHolds(graph.conf, s, e), NEW w \in Seq(Signs)
    PROVE  PnClean(graph.conf, s \o w) => PnHolds(graph.conf, s \o w, FoldLeft(PnStep, e, w))
<1> DEFINE H(u) == PnClean(graph.conf, s \o u) => PnHolds(graph.conf, s \o u, Pn!Fold(e, u))
           V == Signs
           P == {u \in Seq(V) : H(u)}
<1>0. \A v \in V : v = -1 \/ v = 0 \/ v = 1
    BY DEF Signs
<1> HIDE DEF V
<1>1. << >> \in P
    <2>1. s \o << >> = s /\ << >> \in Seq(V)
        BY ConcatEmptySeq, EmptySeq
    <2>2. Pn!Fold(e, << >>) = e
        BY Pn!FoldEmpty
    <2> QED BY <2>1, <2>2
<1>2. ASSUME NEW u \in Seq(V), u \in P, NEW x \in V PROVE Append(u, x) \in P
    <2>0. s \in Seq(V)
        BY DEF V
    <2>1. Pn!Fold(e, Append(u, x)) = PnStep(Pn!Fold(e, u), x)
        BY Pn!FoldAppend
    <2>2. s \o Append(u, x) = Append(s \o u, x)
        BY <2>0, AppendedLast
    <2>3. s \o u \in Seq(V) /\ Append(u, x) \in Seq(V)
        BY <2>0, ConcatProperties, AppendProperties
    <2>4. PnClean(graph.conf, s \o u) => PnHolds(graph.conf, s \o u, Pn!Fold(e, u))
        BY <1>2
    <2>5. ASSUME PnClean(graph.conf, Append(s \o u, x))
          PROVE  PnHolds(graph.conf, Append(s \o u, x), PnSample(graph.conf, Pn!Fold(e, u), x))
        <3>1. Adds(s \o u, x, Append(s \o u, x)) /\ graph.conf.nulls \in Nat \ {0}
            BY <2>3, AppendAdds DEF Timed
        <3>2. PnClean(graph.conf, s \o u)
            BY <2>5, <3>1, CleanBefore
        <3>3. PnHolds(graph.conf, s \o u, Pn!Fold(e, u))
            BY <2>4, <3>2
        <3> QED BY <1>0, <2>3, <2>5, <3>3, PnStays
    <2> QED BY <2>1, <2>2, <2>3, <2>5 DEF PnStep
<1> HIDE DEF P
<1>3. \A u \in Seq(V) : u \in P
    BY <1>1, <1>2, Pn!SeqInduction
<1>4. H(w)
    BY <1>3 DEF P, V
<1>5. FoldLeft(PnStep, e, w) = Pn!Fold(e, w)
    BY DEF Pn!Fold, FoldLeft, MapThenFoldSet, Pn!FoldLeft, Pn!MapThenFoldSet, Max, Pn!Max
<1> QED BY <1>4, <1>5

PnInv ==
    graph.sink = "pn_decode_f" /\ PnClean(graph.conf, Consumed) =>
        PnHolds(graph.conf, Consumed, d)

LEMMA PnInit == Init => PnInv
<1> SUFFICES ASSUME Init PROVE PnHolds(graph.conf, Consumed, d)
    BY DEF PnInv
<1> DEFINE s == Consumed
           c == graph.conf
<1>1. /\ s = << >> /\ IsDecoder(d) /\ d.bits = << >> /\ d.out = << >>
      /\ d.next = -1 /\ d.silent = 0
    BY NoneConsumed
<1>2. c.nulls \in Nat \ {0}
    BY TimesAre DEF Init, Timed
<1> HIDE DEF s, c
<1>3. Len(s) = 0 /\ DOMAIN s = {} /\ DOMAIN s = 1..Len(s) /\ Len(s) \in Nat
    BY <1>1, NothingIs
<1>4. Ends(c, s) = {} /\ Sounds(s) = {} /\ Changes(s) = {}
    BY <1>3 DEF Ends, Sounds, Changes
<1>5. Since({}, Len(s) + 1) = 0
    <2>1. Len(s) + 1 \in Nat
        BY <1>3
    <2> QED BY <1>1, <2>1, NothingIs
<1>6. Began(c, s) = 1 /\ Sound(s) = 0
    BY <1>4, <1>5 DEF Began, Sound
<1>7. PnSoFar(c, s, 1, Len(s)) = << >>
    <2>1. Beats(c, Changes(s), 1, Len(s)) = {} /\ Voiced(s, {}) = {}
        BY <1>3 DEF Beats, Voiced
    <2> QED BY <2>1, PartEmpty DEF PnSoFar
<1>8. PnPackets(c, s) = << >>
    BY <1>2, <1>3, <1>4, PnPacketsAre, PartEmpty
<1>9. ~(Sound(s) >= 1) /\ (Len(s) + 1) - 1 = 0
    BY <1>3, <1>6
<1>10. PnHolds(c, s, d)
    BY <1>1, <1>6, <1>7, <1>8, <1>9 DEF PnHolds
<1> QED BY <1>10 DEF s, c

LEMMA PnCall ==
    ASSUME TypeInv, SignInv, PnInv, NEW n \in graph.windows, PnDecodeWork(n)
    PROVE  PnInv'
<1>1. SinkCall(n) /\ read' = read + n
    BY FoldWorkIs
<1>2. n \in Nat /\ read + n <= Len(stream) /\ UNCHANGED <<graph, stream>>
    BY <1>1 DEF SinkCall
<1>3. graph.sink = "pn_decode_f" /\ d' = FoldLeft(PnStep, d, Offered(n))
    BY DEF PnDecodeWork, SinkWork
<1>4. Consumed' = Consumed \o Offered(n)
    BY <1>1, <1>2, ConsumedGrows
<1>5. Consumed \in Seq(Signs) /\ Offered(n) \in Seq(Signs)
    BY <1>2, <1>3, HandedSigns
<1>6. Timed(graph.conf)
    BY TimesAre DEF TypeInv
<1>7. PnClean(graph.conf, Consumed) => PnHolds(graph.conf, Consumed, d)
    BY <1>3 DEF PnInv
<1>8. PnClean(graph.conf, Consumed \o Offered(n)) =>
          PnHolds(graph.conf, Consumed \o Offered(n), FoldLeft(PnStep, d, Offered(n)))
    BY <1>5, <1>6, <1>7, PnWindow
<1>9. graph'.conf = graph.conf
    BY <1>2
<1> QED BY <1>3, <1>4, <1>8, <1>9 DEF PnInv

LEMMA PnNext ==
    ASSUME TypeInv, SignInv, PnInv, [Next]_vars
    PROVE  PnInv'
<1>1. TypeInv' /\ UNCHANGED graph
    BY StepIs
<1>2. CASE UNCHANGED <<read, d, alone>> /\ Longer
    <2>1. Consumed' = Consumed
        BY <1>2, ConsumedStays
    <2> QED BY <1>1, <1>2, <2>1 DEF PnInv
<1>3. ASSUME NEW n \in graph.windows, Calls(n) PROVE PnInv'
    <2>1. CASE graph.sink = "pn_decode_f"
        BY <1>3, <2>1, OwnCall, PnCall
    <2>2. CASE graph.sink # "pn_decode_f"
        BY <1>1, <2>2 DEF PnInv
    <2> QED BY <2>1, <2>2
<1> QED BY <1>2, <1>3, StepIs

LEMMA SymbolsFollow ==
    ASSUME IdInv, OokInv, PnInv
    PROVE  SymbolsDecoded
<1>1. CASE graph.sink = "pn_decode_f"
    BY <1>1 DEF SymbolsDecoded, PnInv, PnHolds
<1>2. CASE graph.sink = "ook_decode_b"
    <2>1. graph.sink # "pn_decode_f"
        BY <1>2
    <2> QED BY <1>2, <2>1 DEF SymbolsDecoded, OokInv, OokHolds
<1>3. CASE graph.sink = "pn_decode_identity_b"
    BY <1>3 DEF SymbolsDecoded, IdInv, IdHolds
<1>4. CASE graph.sink \notin {"pn_decode_f", "ook_decode_b", "pn_decode_identity_b"}
    BY <1>4 DEF SymbolsDecoded
<1> QED BY <1>1, <1>2, <1>3, <1>4

(* pn_decode_f, ook_decode_b and pn_decode_identity_b: for every flow      *)
(* graph, signal of samples of the decoder's kind and cut of the signal    *)
(* into calls of work(), what went out are the packets that the positions  *)
(* of edges and silences in the signal so far define: of a signal without  *)
(* pauses inside packets or packets without a symbol (pn_decode_f), with   *)
(* an offset within the silence (ook_decode_b), without any condition      *)
(* (pn_decode_identity_b).                                                 *)
THEOREM SymbolsAlwaysDecoded == Spec => []SymbolsDecoded
<1> DEFINE I == TypeInv /\ SignInv /\ IdInv /\ OokInv /\ PnInv
<1>1. Init => I
    BY TypeInit, SignInit, IdInit, OokInit, PnInit
<1>2. I /\ [Next]_vars => I'
    BY TypeNext, SignNext, IdNext, OokNext, PnNext
<1>3. I => SymbolsDecoded
    BY SymbolsFollow
<1> HIDE DEF I
<1> QED BY <1>1, <1>2, <1>3, PTL DEF Spec
=============================================================================
