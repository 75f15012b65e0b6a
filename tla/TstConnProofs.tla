----------------------------- MODULE TstConnProofs -----------------------------
(***************************************************************************)
(* Proofs about the connections of a worker, for any number of             *)
(* descriptors and commands, any sizes of a buffer and of the pool, and    *)
(* any way the streams come in pieces.                                     *)
(***************************************************************************)
EXTENDS TstConn, SequenceTheorems, FiniteSetTheorems, WellFoundedInduction, TLAPS

-----------------------------------------------------------------------------
(* Numbers.                                                                *)

\* A set of naturals that has 0 and with each number the next one has all.
LEMMA Induction ==
    ASSUME NEW T, 0 \in T, \A n \in Nat : n \in T => n + 1 \in T
    PROVE  \A n \in Nat : n \in T
<1>1. SUFFICES ASSUME NEW n \in Nat \ T PROVE FALSE
    OBVIOUS
<1>2. PICK m \in Nat \ T : \A y \in Nat \ T : ~ (<<y, m>> \in OpToRel(<, Nat))
    <2>1. Nat \ T # {} /\ Nat \ T \subseteq Nat
        BY <1>1
    <2> QED BY <2>1, NatLessThanWellFounded, WFMin
<1>3. \A y \in Nat \ T : ~ (y < m)
    BY <1>2 DEF OpToRel
<1>4. m \in Nat /\ m # 0 /\ m \notin T
    BY <1>2
<1>5. m - 1 \in Nat /\ m - 1 < m /\ m - 1 + 1 = m
    BY <1>4
<1> QED
    BY <1>3, <1>4, <1>5

LEMMA MinOfTwo ==
    ASSUME NEW a \in Int, NEW b \in Int
    PROVE  Min({a, b}) \in {a, b} /\ Min({a, b}) <= a /\ Min({a, b}) <= b
<1>1. \E x \in {a, b} : \A y \in {a, b} : x <= y
    BY a <= b \/ b <= a
<1> QED
    BY <1>1 DEF Min

LEMMA MaxOfTwo ==
    ASSUME NEW a \in Int, NEW b \in Int
    PROVE  Max({a, b}) \in {a, b} /\ Max({a, b}) >= a /\ Max({a, b}) >= b
<1>1. \E x \in {a, b} : \A y \in {a, b} : x >= y
    BY a <= b \/ b <= a
<1> QED
    BY <1>1 DEF Max

\* A bounded set of naturals has a greatest one, and any set a least one.
LEMMA MaxIsGreatest ==
    ASSUME NEW n \in Nat, NEW T, T \subseteq 0..n, T # {}
    PROVE  Max(T) \in T /\ \A y \in T : y <= Max(T)
<1> DEFINE U == {m \in Nat : \E x \in T : m = n - x}
<1>1. \A x \in T : x \in Int /\ n - x \in Nat /\ n - (n - x) = x
    OBVIOUS
<1>2. U # {} /\ U \subseteq Nat
    BY <1>1
<1>3. PICK m \in U : \A y \in U : ~ (<<y, m>> \in OpToRel(<, Nat))
    BY <1>2, NatLessThanWellFounded, WFMin
<1>4. \A y \in U : ~ (y < m)
    BY <1>2, <1>3 DEF OpToRel
<1>5. PICK x \in T : m = n - x
    BY <1>3
<1>6. \A y \in T : y <= x
    <2>1. SUFFICES ASSUME NEW y \in T PROVE y <= x
        OBVIOUS
    <2>2. n - y \in U
        BY <1>1
    <2>3. ~ (n - y < n - x)
        BY <1>4, <1>5, <2>2
    <2> QED BY <1>1, <2>3
<1>7. \E z \in T : \A y \in T : z >= y
    BY <1>1, <1>6
<1>8. Max(T) \in T /\ \A y \in T : Max(T) >= y
    BY <1>7 DEF Max
<1> QED
    BY <1>1, <1>8

LEMMA MinIsLeast ==
    ASSUME NEW T, T \subseteq Nat, T # {}
    PROVE  Min(T) \in T /\ \A y \in T : Min(T) <= y
<1>1. PICK m \in T : \A y \in T : ~ (<<y, m>> \in OpToRel(<, Nat))
    BY NatLessThanWellFounded, WFMin
<1>2. \A y \in T : ~ (y < m)
    BY <1>1 DEF OpToRel
<1>3. \E z \in T : \A y \in T : z <= y
    BY <1>2
<1> QED
    BY <1>3 DEF Min

-----------------------------------------------------------------------------
(* Sequences.                                                              *)

LEMMA FcnSeq ==
    ASSUME NEW S, NEW n \in Nat, NEW f \in [1..n -> S]
    PROVE  f \in Seq(S) /\ Len(f) = n
<1>1. f \in Seq(S)
    BY SeqDef
<1>2. Len(f) \in Nat /\ DOMAIN f = 1..Len(f)
    BY <1>1, LenProperties
<1>3. 1..n = 1..Len(f)
    BY <1>2
<1>4. n <= Len(f)
    <2>1. CASE n = 0
        BY <1>2, <2>1
    <2>2. CASE n > 0
        <3>1. n \in 1..Len(f)
            BY <1>3, <2>2
        <3> QED BY <3>1
    <2> QED BY <2>1, <2>2
<1>5. Len(f) <= n
    <2>1. CASE Len(f) = 0
        BY <2>1
    <2>2. CASE Len(f) > 0
        <3>1. Len(f) \in 1..n
            BY <1>2, <1>3, <2>2
        <3> QED BY <3>1
    <2> QED BY <1>2, <2>1, <2>2
<1> QED
    BY <1>1, <1>2, <1>4, <1>5

\* The first k elements and the others.
LEMMA Split ==
    ASSUME NEW S, NEW s \in Seq(S), NEW k \in 0..Len(s)
    PROVE  /\ SubSeq(s, 1, k) \in Seq(S) /\ Len(SubSeq(s, 1, k)) = k
           /\ \A i \in 1..k : SubSeq(s, 1, k)[i] = s[i]
           /\ SubSeq(s, k + 1, Len(s)) \in Seq(S) /\ Len(SubSeq(s, k + 1, Len(s))) = Len(s) - k
           /\ \A i \in 1..(Len(s) - k) : SubSeq(s, k + 1, Len(s))[i] = s[k + i]
           /\ SubSeq(s, 1, k) \o SubSeq(s, k + 1, Len(s)) = s
<1>1. Len(s) \in Nat /\ k \in Nat /\ k <= Len(s) /\ \A i \in 1..Len(s) : s[i] \in S
    BY LenProperties, ElementOfSeq
<1>2. /\ SubSeq(s, 1, k) \in Seq(S) /\ Len(SubSeq(s, 1, k)) = k
      /\ \A i \in 1..k : SubSeq(s, 1, k)[i] = s[i]
    <2>1. \A i \in 1..k : s[i] \in S
        BY <1>1
    <2>2. /\ SubSeq(s, 1, k) \in Seq(S)
          /\ Len(SubSeq(s, 1, k)) = IF 1 <= k THEN k - 1 + 1 ELSE 0
          /\ \A i \in 1..(k - 1 + 1) : SubSeq(s, 1, k)[i] = s[1 + i - 1]
        BY <1>1, <2>1, SubSeqProperties
    <2> QED BY <1>1, <2>2
<1>3. /\ SubSeq(s, k + 1, Len(s)) \in Seq(S) /\ Len(SubSeq(s, k + 1, Len(s))) = Len(s) - k
      /\ \A i \in 1..(Len(s) - k) : SubSeq(s, k + 1, Len(s))[i] = s[k + i]
    <2>1. \A i \in (k + 1)..Len(s) : s[i] \in S
        BY <1>1
    <2>2. /\ SubSeq(s, k + 1, Len(s)) \in Seq(S)
          /\ Len(SubSeq(s, k + 1, Len(s))) = IF k + 1 <= Len(s) THEN Len(s) - (k + 1) + 1 ELSE 0
          /\ \A i \in 1..(Len(s) - (k + 1) + 1) : SubSeq(s, k + 1, Len(s))[i] = s[k + 1 + i - 1]
        BY <1>1, <2>1, SubSeqProperties
    <2> QED BY <1>1, <2>2
<1>4. SubSeq(s, 1, k) \o SubSeq(s, k + 1, Len(s)) = s
    <2>1. 1 \in 1..(Len(s) + 1) /\ k \in (1 - 1)..Len(s) /\ Len(s) \in k..Len(s)
        BY <1>1
    <2>2. SubSeq(s, 1, k) \o SubSeq(s, k + 1, Len(s)) = SubSeq(s, 1, Len(s))
        BY <2>1, ConcatAdjacentSubSeq
    <2> QED BY <2>2, SubSeqFull
<1> QED
    BY <1>2, <1>3, <1>4

\* What follows the first k elements of s \o t, if they end in s, or in t.
LEMMA RestOfFirst ==
    ASSUME NEW S, NEW s \in Seq(S), NEW t \in Seq(S), NEW k \in 0..Len(s)
    PROVE  SubSeq(s \o t, k + 1, Len(s \o t)) = SubSeq(s, k + 1, Len(s)) \o t
<1>1. Len(s) \in Nat /\ Len(t) \in Nat /\ k \in Nat /\ k <= Len(s)
    BY LenProperties
<1>2. /\ s \o t \in Seq(S) /\ Len(s \o t) = Len(s) + Len(t)
      /\ \A i \in 1..(Len(s) + Len(t)) : (s \o t)[i] = IF i <= Len(s) THEN s[i] ELSE t[i - Len(s)]
    BY ConcatProperties
<1>3. PICK a : a = SubSeq(s \o t, k + 1, Len(s \o t))
    OBVIOUS
<1>4. /\ a \in Seq(S) /\ Len(a) = Len(s) + Len(t) - k
      /\ \A i \in 1..(Len(s) + Len(t) - k) : a[i] = (s \o t)[k + i]
    BY <1>1, <1>2, <1>3, Split
<1>5. PICK b : b = SubSeq(s, k + 1, Len(s))
    OBVIOUS
<1>6. b \in Seq(S) /\ Len(b) = Len(s) - k /\ \A i \in 1..(Len(s) - k) : b[i] = s[k + i]
    BY <1>5, Split
<1>7. /\ b \o t \in Seq(S) /\ Len(b \o t) = Len(s) - k + Len(t)
      /\ \A i \in 1..(Len(s) - k + Len(t)) : (b \o t)[i] = IF i <= Len(s) - k THEN b[i] ELSE t[i - (Len(s) - k)]
    <2>1. /\ b \o t \in Seq(S) /\ Len(b \o t) = Len(b) + Len(t)
          /\ \A i \in 1..(Len(b) + Len(t)) : (b \o t)[i] = IF i <= Len(b) THEN b[i] ELSE t[i - Len(b)]
        BY <1>6, ConcatProperties
    <2> QED BY <1>6, <2>1
<1>8. ASSUME NEW i \in 1..Len(a) PROVE a[i] = (b \o t)[i]
    <2>1. i \in Int /\ i >= 1 /\ i <= Len(s) + Len(t) - k /\ k + i \in 1..(Len(s) + Len(t))
        BY <1>1, <1>4
    <2>2. a[i] = IF k + i <= Len(s) THEN s[k + i] ELSE t[k + i - Len(s)]
        BY <1>2, <1>4, <2>1
    <2>3. (b \o t)[i] = IF i <= Len(s) - k THEN b[i] ELSE t[i - (Len(s) - k)]
        BY <1>1, <1>7, <2>1
    <2>4. CASE i <= Len(s) - k
        BY <1>1, <1>6, <2>1, <2>2, <2>3, <2>4
    <2>5. CASE ~(i <= Len(s) - k)
        <3>1. k + i - Len(s) = i - (Len(s) - k) /\ ~(k + i <= Len(s))
            BY <1>1, <2>1, <2>5
        <3> QED BY <2>2, <2>3, <2>5, <3>1
    <2> QED BY <2>4, <2>5
<1>9. Len(a) = Len(b \o t)
    BY <1>1, <1>4, <1>7
<1> QED
    BY <1>3, <1>4, <1>5, <1>7, <1>8, <1>9, SeqEqual

-----------------------------------------------------------------------------
(* A list of sequences, one after the other.                               *)

\* f[i] is what the first i sequences of the list are together.
Flattens(f, seqs, S) ==
    /\ f \in [0..Len(seqs) -> Seq(S)]
    /\ f[0] = << >>
    /\ \A i \in Nat : i + 1 <= Len(seqs) => f[i + 1] = f[i] \o seqs[i + 1]

LEMMA FlattensExists ==
    ASSUME NEW S, NEW seqs \in Seq(Seq(S))
    PROVE  \E f : Flattens(f, seqs, S)
<1> DEFINE Upto(f, n) == /\ f \in [0..n -> Seq(S)]
                         /\ f[0] = << >>
                         /\ \A i \in Nat : i + 1 <= n /\ i + 1 <= Len(seqs) => f[i + 1] = f[i] \o seqs[i + 1]
           T == {n \in Nat : \E f : Upto(f, n)}
<1>1. Len(seqs) \in Nat /\ \A i \in 1..Len(seqs) : seqs[i] \in Seq(S)
    BY LenProperties, ElementOfSeq
<1>2. 0 \in T
    <2>1. << >> \in Seq(S)
        BY EmptySeq
    <2>2. PICK f : f = [i \in 0..0 |-> << >>]
        OBVIOUS
    <2>3. f \in [0..0 -> Seq(S)] /\ f[0] = << >>
        BY <2>1, <2>2
    <2>4. \A i \in Nat : ~(i + 1 <= 0)
        OBVIOUS
    <2>5. Upto(f, 0)
        BY <2>3, <2>4
    <2> QED BY <2>5
<1>3. ASSUME NEW n \in Nat, n \in T PROVE n + 1 \in T
    <2>1. PICK f : Upto(f, n)
        BY <1>3
    <2>2. PICK new \in Seq(S) : n + 1 <= Len(seqs) => new = f[n] \o seqs[n + 1]
        <3>1. CASE n + 1 <= Len(seqs)
            <4>1. n + 1 \in 1..Len(seqs) /\ n \in 0..n
                BY <1>1, <3>1
            <4>2. f[n] \in Seq(S) /\ seqs[n + 1] \in Seq(S)
                BY <1>1, <2>1, <4>1
            <4>3. f[n] \o seqs[n + 1] \in Seq(S)
                BY <4>2, ConcatProperties
            <4> QED BY <4>3
        <3>2. CASE ~(n + 1 <= Len(seqs))
            BY <3>2, EmptySeq
        <3> QED BY <3>1, <3>2
    <2>3. PICK g : g = [i \in 0..(n + 1) |-> IF i = n + 1 THEN new ELSE f[i]]
        OBVIOUS
    <2>4. \A i \in 0..(n + 1) : i # n + 1 => i \in 0..n
        OBVIOUS
    <2>5. g \in [0..(n + 1) -> Seq(S)]
        BY <2>1, <2>2, <2>3, <2>4
    <2>6. g[0] = << >>
        BY <2>1, <2>3
    <2>7. ASSUME NEW i \in Nat, i + 1 <= n + 1, i + 1 <= Len(seqs)
          PROVE  g[i + 1] = g[i] \o seqs[i + 1]
        <3>1. i \in 0..(n + 1) /\ i + 1 \in 0..(n + 1) /\ i # n + 1
            BY <2>7
        <3>2. g[i] = f[i] /\ g[i + 1] = IF i + 1 = n + 1 THEN new ELSE f[i + 1]
            BY <2>3, <3>1
        <3>3. CASE i = n
            BY <2>2, <2>7, <3>2, <3>3
        <3>4. CASE i # n
            <4>1. i + 1 <= n /\ i + 1 # n + 1
                BY <2>7, <3>4
            <4> QED BY <2>1, <2>7, <3>2, <4>1
        <3> QED BY <3>3, <3>4
    <2>8. \A i \in Nat : i + 1 <= n + 1 /\ i + 1 <= Len(seqs) => g[i + 1] = g[i] \o seqs[i + 1]
        BY <2>7
    <2>9. Upto(g, n + 1)
        BY <2>5, <2>6, <2>8, Zenon
    <2>10. n + 1 \in Nat
        OBVIOUS
    <2> QED BY <2>9, <2>10
<1> HIDE DEF T
<1>4. Len(seqs) \in T
    BY <1>1, <1>2, <1>3, Induction
<1>5. PICK f : Upto(f, Len(seqs))
    BY <1>4 DEF T
<1> QED
    BY <1>1, <1>5 DEF Flattens

\* FlattenSeq's function, on 1..n, is that one.
LEMMA FlattenIs ==
    ASSUME NEW S, NEW seqs \in Seq(Seq(S)), NEW f, Flattens(f, seqs, S)
    PROVE  FlattenSeq(seqs) = f[Len(seqs)]
<1>1. Len(seqs) \in Nat
    BY LenProperties
<1>2. CASE Len(seqs) = 0
    <2>1. seqs = << >>
        BY <1>2, EmptySeq
    <2> QED BY <1>2, <2>1 DEF FlattenSeq, Flattens
<1>3. CASE Len(seqs) # 0
    <2> DEFINE Def(h) == [i \in 1..Len(seqs) |-> IF i = 1 THEN seqs[i] ELSE h[i - 1] \o seqs[i]]
               flatten == CHOOSE h : h = Def(h)
    <2>1. \E h : h = Def(h)
        <3>1. PICK h : h = [i \in 1..Len(seqs) |-> f[i]]
            OBVIOUS
        <3>2. ASSUME NEW i \in 1..Len(seqs)
              PROVE  f[i] = IF i = 1 THEN seqs[i] ELSE h[i - 1] \o seqs[i]
            <4>1. f[i] = f[i - 1] \o seqs[i]
                <5>1. i - 1 \in Nat /\ i - 1 + 1 = i /\ i <= Len(seqs)
                    BY <1>1
                <5> QED BY <5>1 DEF Flattens
            <4>2. CASE i = 1
                <5>1. seqs[i] \in Seq(S) /\ f[i - 1] = << >>
                    BY <4>2, ElementOfSeq DEF Flattens
                <5> QED BY <4>1, <4>2, <5>1, ConcatEmptySeq
            <4>3. CASE i # 1
                <5>1. i - 1 \in 1..Len(seqs)
                    BY <4>3
                <5>2. h[i - 1] = f[i - 1]
                    BY <3>1, <5>1
                <5> QED BY <4>1, <4>3, <5>2
            <4> QED BY <4>2, <4>3
        <3>3. h = Def(h)
            BY <3>1, <3>2
        <3> QED BY <3>3
    <2>2. flatten = Def(flatten)
        BY <2>1
    <2>3. FlattenSeq(seqs) = flatten[Len(seqs)]
        BY <1>3 DEF FlattenSeq
    <2> HIDE DEF flatten
    <2>4. \A i \in 1..Len(seqs) : flatten[i] = IF i = 1 THEN seqs[i] ELSE flatten[i - 1] \o seqs[i]
        BY <2>2
    <2> DEFINE T == {n \in Nat : n \in 1..Len(seqs) => flatten[n] = f[n]}
    <2>5. 0 \in T
        OBVIOUS
    <2>6. ASSUME NEW n \in Nat, n \in T PROVE n + 1 \in T
        <3>1. SUFFICES ASSUME n + 1 \in 1..Len(seqs) PROVE flatten[n + 1] = f[n + 1]
            OBVIOUS
        <3>2. f[n + 1] = f[n] \o seqs[n + 1]
            <4>1. n + 1 <= Len(seqs)
                BY <1>1, <3>1
            <4>2. \A i \in Nat : i + 1 <= Len(seqs) => f[i + 1] = f[i] \o seqs[i + 1]
                BY DEF Flattens
            <4> QED BY <4>1, <4>2
        <3>3. flatten[n + 1] = IF n + 1 = 1 THEN seqs[n + 1] ELSE flatten[n + 1 - 1] \o seqs[n + 1]
            BY <2>4, <3>1
        <3>4. CASE n = 0
            <4>1. seqs[n + 1] \in Seq(S) /\ f[n] = << >>
                BY <3>1, <3>4, ElementOfSeq DEF Flattens
            <4>2. f[n] \o seqs[n + 1] = seqs[n + 1]
                BY <4>1, ConcatEmptySeq
            <4>3. n + 1 = 1
                BY <3>4
            <4> QED BY <3>2, <3>3, <4>2, <4>3
        <3>5. CASE n # 0
            <4>1. n \in 1..Len(seqs) /\ n + 1 # 1 /\ n + 1 - 1 = n
                BY <1>1, <3>1, <3>5
            <4>2. flatten[n] = f[n]
                BY <2>6, <4>1
            <4> QED BY <3>2, <3>3, <4>1, <4>2
        <3> QED BY <3>4, <3>5
    <2> HIDE DEF T
    <2>7. Len(seqs) \in T
        BY <1>1, <2>5, <2>6, Induction
    <2> QED
        BY <1>1, <1>3, <2>3, <2>7 DEF T
<1> QED
    BY <1>2, <1>3

LEMMA FlattenNil == FlattenSeq(<< >>) = << >>
BY DEF FlattenSeq

LEMMA FlattenType ==
    ASSUME NEW S, NEW seqs \in Seq(Seq(S))
    PROVE  FlattenSeq(seqs) \in Seq(S)
<1>1. PICK f : Flattens(f, seqs, S)
    BY FlattensExists
<1>2. Len(seqs) \in 0..Len(seqs)
    BY LenProperties
<1> QED
    BY <1>1, <1>2, FlattenIs DEF Flattens

LEMMA FlattenAppend ==
    ASSUME NEW S, NEW seqs \in Seq(Seq(S)), NEW s \in Seq(S)
    PROVE  FlattenSeq(Append(seqs, s)) = FlattenSeq(seqs) \o s
<1>1. PICK m \in Seq(Seq(S)) : m = Append(seqs, s)
    BY AppendProperties
<1>2. /\ Len(seqs) \in Nat /\ Len(m) = Len(seqs) + 1 /\ m[Len(seqs) + 1] = s
      /\ \A i \in 1..Len(seqs) : m[i] = seqs[i]
    BY <1>1, AppendProperties, LenProperties
<1>3. PICK g : Flattens(g, m, S)
    BY FlattensExists
<1>4. /\ g \in [0..Len(m) -> Seq(S)] /\ g[0] = << >>
      /\ \A i \in Nat : i + 1 <= Len(m) => g[i + 1] = g[i] \o m[i + 1]
    BY <1>3 DEF Flattens
<1>5. PICK f : f = [i \in 0..Len(seqs) |-> g[i]]
    OBVIOUS
<1>6. Flattens(f, seqs, S)
    <2>1. f \in [0..Len(seqs) -> Seq(S)] /\ f[0] = << >>
        <3>1. \A i \in 0..Len(seqs) : i \in 0..Len(m)
            BY <1>2
        <3> QED BY <1>2, <1>4, <1>5, <3>1
    <2>2. ASSUME NEW i \in Nat, i + 1 <= Len(seqs) PROVE f[i + 1] = f[i] \o seqs[i + 1]
        <3>1. i + 1 <= Len(m) /\ i \in 0..Len(seqs) /\ i + 1 \in 0..Len(seqs) /\ i + 1 \in 1..Len(seqs)
            BY <1>2, <2>2
        <3> QED BY <1>2, <1>4, <1>5, <3>1
    <2> QED BY <2>1, <2>2 DEF Flattens
<1>7. FlattenSeq(m) = g[Len(seqs) + 1] /\ FlattenSeq(seqs) = f[Len(seqs)]
    BY <1>2, <1>3, <1>6, FlattenIs
<1>8. g[Len(seqs) + 1] = g[Len(seqs)] \o s /\ f[Len(seqs)] = g[Len(seqs)]
    <2>1. Len(seqs) + 1 <= Len(m) /\ Len(seqs) \in 0..Len(seqs)
        BY <1>2
    <2> QED BY <1>2, <1>4, <1>5, <2>1
<1> QED
    BY <1>1, <1>7, <1>8

\* One more element at the end.
LEMMA OneMore ==
    ASSUME NEW S, NEW s \in Seq(S), NEW n \in Nat, n + 1 <= Len(s)
    PROVE  SubSeq(s, 1, n + 1) = Append(SubSeq(s, 1, n), s[n + 1])
<1>1. Len(s) \in Nat /\ n + 1 \in 1..Len(s) /\ 1 \in 1..Len(s) /\ n \in 0..Len(s) /\ n + 1 - 1 = n
    BY LenProperties
<1>2. s[n + 1] \in S /\ SubSeq(s, 1, n) \in Seq(S)
    BY <1>1, ElementOfSeq, Split
<1>3. SubSeq(s, 1, n + 1) = SubSeq(s, 1, n + 1 - 1) \o <<s[n + 1]>>
    BY <1>1, SubSeqRecursiveSecond
<1> QED
    BY <1>1, <1>2, <1>3, AppendIsConcat

LEMMA FlattenConcat ==
    ASSUME NEW S, NEW seqs \in Seq(Seq(S)), NEW more \in Seq(Seq(S))
    PROVE  FlattenSeq(seqs \o more) = FlattenSeq(seqs) \o FlattenSeq(more)
<1> DEFINE T == {n \in Nat : n <= Len(more) =>
                   FlattenSeq(seqs \o SubSeq(more, 1, n)) = FlattenSeq(seqs) \o FlattenSeq(SubSeq(more, 1, n))}
<1>1. Len(more) \in Nat /\ FlattenSeq(seqs) \in Seq(S)
    BY LenProperties, FlattenType
<1>2. 0 \in T
    <2>1. SubSeq(more, 1, 0) = << >>
        BY SubSeqEmpty
    <2>2. seqs \o << >> = seqs /\ FlattenSeq(seqs) \o << >> = FlattenSeq(seqs)
        BY <1>1, ConcatEmptySeq
    <2> QED BY <2>1, <2>2, FlattenNil
<1>3. ASSUME NEW n \in Nat, n \in T PROVE n + 1 \in T
    <2>1. SUFFICES ASSUME n + 1 <= Len(more)
                   PROVE  FlattenSeq(seqs \o SubSeq(more, 1, n + 1)) =
                             FlattenSeq(seqs) \o FlattenSeq(SubSeq(more, 1, n + 1))
        OBVIOUS
    <2>2. n + 1 \in 1..Len(more) /\ n \in 0..Len(more) /\ n <= Len(more)
        BY <1>1, <2>1
    <2>3. PICK a \in Seq(Seq(S)) : a = SubSeq(more, 1, n)
        BY <2>2, Split
    <2>4. PICK e \in Seq(S) : e = more[n + 1]
        BY <2>2, ElementOfSeq
    <2>5. SubSeq(more, 1, n + 1) = Append(a, e)
        BY <2>1, <2>3, <2>4, OneMore
    <2>6. seqs \o Append(a, e) = Append(seqs \o a, e) /\ seqs \o a \in Seq(Seq(S))
        <3>1. seqs \o a \in Seq(Seq(S)) /\ <<e>> \in Seq(Seq(S))
            BY ConcatProperties
        <3>2. Append(a, e) = a \o <<e>> /\ Append(seqs \o a, e) = (seqs \o a) \o <<e>>
            BY <3>1, AppendIsConcat
        <3> QED BY <3>1, <3>2, ConcatAssociative
    <2>7. FlattenSeq(seqs \o a) = FlattenSeq(seqs) \o FlattenSeq(a)
        BY <1>3, <2>2, <2>3
    <2>8. FlattenSeq(a) \in Seq(S) /\ FlattenSeq(Append(a, e)) = FlattenSeq(a) \o e
        BY FlattenType, FlattenAppend
    <2>9. FlattenSeq(Append(seqs \o a, e)) = (FlattenSeq(seqs) \o FlattenSeq(a)) \o e
        BY <2>6, <2>7, FlattenAppend
    <2>10. (FlattenSeq(seqs) \o FlattenSeq(a)) \o e = FlattenSeq(seqs) \o (FlattenSeq(a) \o e)
        BY <1>1, <2>8, ConcatAssociative, SMTT(40)
    <2> QED BY <2>5, <2>6, <2>8, <2>9, <2>10
<1> HIDE DEF T
<1>4. Len(more) \in T
    BY <1>1, <1>2, <1>3, Induction
<1>5. SubSeq(more, 1, Len(more)) = more
    BY SubSeqFull
<1>6. Len(more) <= Len(more)
    BY <1>1
<1>7. FlattenSeq(seqs \o SubSeq(more, 1, Len(more))) =
         FlattenSeq(seqs) \o FlattenSeq(SubSeq(more, 1, Len(more)))
    BY <1>4, <1>6 DEF T
<1> QED
    BY <1>5, <1>7

LEMMA FlattenCons ==
    ASSUME NEW S, NEW s \in Seq(S), NEW seqs \in Seq(Seq(S))
    PROVE  /\ FlattenSeq(<<s>>) = s
           /\ <<s>> \o seqs \in Seq(Seq(S))
           /\ FlattenSeq(<<s>> \o seqs) = s \o FlattenSeq(seqs)
<1>1. << >> \in Seq(Seq(S)) /\ <<s>> \in Seq(Seq(S)) /\ Append(<< >>, s) = <<s>>
    BY EmptySeq
<1>2. FlattenSeq(<<s>>) = << >> \o s
    BY <1>1, FlattenAppend, FlattenNil
<1>3. << >> \o s = s
    BY ConcatEmptySeq
<1> QED
    BY <1>1, <1>2, <1>3, FlattenConcat, ConcatProperties

-----------------------------------------------------------------------------
(* Sums over a finite set.                                                 *)

\* What FoldFunctionOnSet's function is, on the subsets of D.
Sums(g, fun, D) ==
    /\ g \in [SUBSET D -> Int]
    /\ \A s \in SUBSET D :
          g[s] = IF s = {} THEN 0 ELSE fun[CHOOSE x \in s : TRUE] + g[s \ {CHOOSE x \in s : TRUE}]

LEMMA SumsExists ==
    ASSUME NEW D, IsFiniteSet(D), NEW fun \in [D -> Int]
    PROVE  \E g : Sums(g, fun, D)
<1> DEFINE pick(s) == CHOOSE x \in s : TRUE
           Upto(g, n) ==
              /\ g \in [SUBSET D -> Int]
              /\ \A s \in SUBSET D : Cardinality(s) <= n =>
                    g[s] = IF s = {} THEN 0 ELSE fun[pick(s)] + g[s \ {pick(s)}]
           T == {n \in Nat : \E g : Upto(g, n)}
<1>1. \A s \in SUBSET D : /\ IsFiniteSet(s) /\ Cardinality(s) \in Nat
                          /\ Cardinality(s) <= Cardinality(D)
                          /\ Cardinality(s) = 0 <=> s = {}
    BY FS_Subset, FS_CardinalityType, FS_EmptySet
<1>2. ASSUME NEW s \in SUBSET D, s # {}
      PROVE  /\ pick(s) \in s /\ pick(s) \in D /\ s \ {pick(s)} \in SUBSET D
             /\ Cardinality(s \ {pick(s)}) = Cardinality(s) - 1
    <2>1. pick(s) \in s
        BY <1>2
    <2>2. Cardinality(s \ {pick(s)}) = Cardinality(s) - 1
        BY <1>1, <2>1, FS_RemoveElement
    <2> QED BY <2>1, <2>2
<1> HIDE DEF pick
<1>3. 0 \in T
    <2>1. PICK g : g = [s \in SUBSET D |-> 0]
        OBVIOUS
    <2>2. g \in [SUBSET D -> Int]
        BY <2>1
    <2>3. ASSUME NEW s \in SUBSET D, Cardinality(s) <= 0
          PROVE  g[s] = IF s = {} THEN 0 ELSE fun[pick(s)] + g[s \ {pick(s)}]
        <3>1. s = {}
            <4>1. Cardinality(s) = 0
                BY <1>1, <2>3
            <4> QED BY <1>1, <4>1
        <3> QED BY <2>1, <3>1
    <2>4. Upto(g, 0)
        BY <2>2, <2>3
    <2> QED BY <2>4
<1>4. ASSUME NEW n \in Nat, n \in T PROVE n + 1 \in T
    <2>1. PICK g : Upto(g, n)
        BY <1>4
    <2>2. PICK h : h = [s \in SUBSET D |-> IF s = {} THEN 0 ELSE fun[pick(s)] + g[s \ {pick(s)}]]
        OBVIOUS
    <2>3. h \in [SUBSET D -> Int]
        <3>1. ASSUME NEW s \in SUBSET D, s # {}
              PROVE  fun[pick(s)] + g[s \ {pick(s)}] \in Int
            <4>1. pick(s) \in D /\ s \ {pick(s)} \in SUBSET D
                BY <1>2, <3>1
            <4>2. fun[pick(s)] \in Int /\ g[s \ {pick(s)}] \in Int
                BY <2>1, <4>1
            <4> QED BY <4>2
        <3>2. ASSUME NEW s \in SUBSET D PROVE h[s] \in Int
            <4>1. h[s] = IF s = {} THEN 0 ELSE fun[pick(s)] + g[s \ {pick(s)}]
                BY <2>2
            <4>2. CASE s = {}
                BY <4>1, <4>2
            <4>3. CASE s # {}
                BY <3>1, <4>1, <4>3
            <4> QED BY <4>2, <4>3
        <3> QED BY <2>2, <3>2
    <2>4. ASSUME NEW s \in SUBSET D, Cardinality(s) <= n PROVE h[s] = g[s]
        BY <2>1, <2>2, <2>4
    <2>5. ASSUME NEW s \in SUBSET D, Cardinality(s) <= n + 1
          PROVE  h[s] = IF s = {} THEN 0 ELSE fun[pick(s)] + h[s \ {pick(s)}]
        <3>1. CASE s = {}
            BY <2>2, <3>1
        <3>2. CASE s # {}
            <4>1. s \ {pick(s)} \in SUBSET D /\ Cardinality(s \ {pick(s)}) <= n
                <5>1. Cardinality(s \ {pick(s)}) = Cardinality(s) - 1 /\ Cardinality(s) \in Nat
                    BY <1>1, <1>2, <3>2
                <5> QED BY <2>5, <5>1
            <4>2. h[s \ {pick(s)}] = g[s \ {pick(s)}]
                BY <2>4, <4>1
            <4> QED BY <2>2, <3>2, <4>2
        <3> QED BY <3>1, <3>2
    <2>6. Upto(h, n + 1)
        BY <2>3, <2>5
    <2>7. n + 1 \in Nat
        OBVIOUS
    <2> QED BY <2>6, <2>7
<1> HIDE DEF T
<1>5. Cardinality(D) \in T
    BY <1>3, <1>4, Induction, FS_CardinalityType
<1>6. PICK g : Upto(g, Cardinality(D))
    BY <1>5 DEF T
<1> QED
    BY <1>1, <1>6 DEF Sums, pick

LEMMA SumIs ==
    ASSUME NEW D, IsFiniteSet(D), NEW fun \in [D -> Int], NEW g, Sums(g, fun, D)
    PROVE  SumFunction(fun) = g[D]
<1> DEFINE Def(h) == [s \in SUBSET D |->
                        IF s = {} THEN 0
                        ELSE fun[CHOOSE x \in s : TRUE] + h[s \ {CHOOSE x \in s : TRUE}]]
           iter == CHOOSE h : h = Def(h)
<1>1. g = Def(g)
    BY DEF Sums
<1>2. iter = Def(iter)
    BY <1>1
<1>3. DOMAIN fun = D
    OBVIOUS
<1>4. SumFunction(fun) = iter[D]
    BY <1>3 DEF SumFunction, SumFunctionOnSet, FoldFunctionOnSet, MapThenFoldSet
<1> HIDE DEF iter
<1>5. ASSUME NEW s \in SUBSET D
      PROVE  iter[s] = IF s = {} THEN 0
                       ELSE fun[CHOOSE x \in s : TRUE] + iter[s \ {CHOOSE x \in s : TRUE}]
    BY <1>2
<1> DEFINE T == {n \in Nat : \A s \in SUBSET D : Cardinality(s) <= n => iter[s] = g[s]}
<1>6. \A s \in SUBSET D : /\ IsFiniteSet(s) /\ Cardinality(s) \in Nat
                          /\ Cardinality(s) = 0 <=> s = {}
    BY FS_Subset, FS_CardinalityType, FS_EmptySet
<1>7. 0 \in T
    <2>1. ASSUME NEW s \in SUBSET D, Cardinality(s) <= 0 PROVE iter[s] = g[s]
        <3>1. s = {}
            <4>1. Cardinality(s) = 0
                BY <1>6, <2>1
            <4> QED BY <1>6, <4>1
        <3> QED BY <1>5, <3>1 DEF Sums
    <2> QED BY <2>1
<1>8. ASSUME NEW n \in Nat, n \in T PROVE n + 1 \in T
    <2>1. ASSUME NEW s \in SUBSET D, Cardinality(s) <= n + 1 PROVE iter[s] = g[s]
        <3>1. CASE s = {}
            BY <1>5, <3>1 DEF Sums
        <3>2. CASE s # {}
            <4>1. PICK x \in s : x = CHOOSE y \in s : TRUE
                BY <3>2
            <4>2. Cardinality(s \ {x}) = Cardinality(s) - 1 /\ s \ {x} \in SUBSET D
                BY <1>6, <4>1, FS_RemoveElement
            <4>3. Cardinality(s \ {x}) <= n
                BY <1>6, <2>1, <4>2
            <4>4. iter[s \ {x}] = g[s \ {x}]
                BY <1>8, <4>2, <4>3
            <4>5. iter[s] = fun[x] + iter[s \ {x}]
                BY <1>5, <3>2, <4>1
            <4>6. g[s] = fun[x] + g[s \ {x}]
                BY <3>2, <4>1 DEF Sums
            <4> QED BY <4>4, <4>5, <4>6
        <3> QED BY <3>1, <3>2
    <2> QED BY <2>1
<1> HIDE DEF T
<1>9. Cardinality(D) \in T /\ Cardinality(D) \in Nat
    BY <1>7, <1>8, Induction, FS_CardinalityType
<1>10. iter[D] = g[D]
    <2>1. Cardinality(D) <= Cardinality(D)
        BY <1>9
    <2> QED BY <1>9, <2>1 DEF T
<1> QED
    BY <1>4, <1>10

\* The sum is a number, and it follows one element's change.
\* A sum is among what can be added up.
LEMMA SumAmong ==
    ASSUME NEW D, IsFiniteSet(D), NEW M, M \subseteq Int, 0 \in M,
           \A a, b \in M : a + b \in M, NEW fun \in [D -> M]
    PROVE  SumFunction(fun) \in M
<1>1. fun \in [D -> Int]
    OBVIOUS
<1>2. PICK g : Sums(g, fun, D)
    BY <1>1, SumsExists
<1> DEFINE T == {n \in Nat : \A s \in SUBSET D : Cardinality(s) <= n => g[s] \in M}
<1>6. \A s \in SUBSET D : /\ IsFiniteSet(s) /\ Cardinality(s) \in Nat
                          /\ Cardinality(s) = 0 <=> s = {}
    BY FS_Subset, FS_CardinalityType, FS_EmptySet
<1>7. 0 \in T
    <2>1. ASSUME NEW s \in SUBSET D, Cardinality(s) <= 0 PROVE g[s] \in M
        <3>1. s = {}
            <4>1. Cardinality(s) = 0
                BY <1>6, <2>1
            <4> QED BY <1>6, <4>1
        <3> QED BY <1>2, <3>1 DEF Sums
    <2> QED BY <2>1
<1>8. ASSUME NEW n \in Nat, n \in T PROVE n + 1 \in T
    <2>1. ASSUME NEW s \in SUBSET D, Cardinality(s) <= n + 1 PROVE g[s] \in M
        <3>1. CASE s = {}
            BY <1>2, <3>1 DEF Sums
        <3>2. CASE s # {}
            <4>1. PICK x \in s : x = CHOOSE y \in s : TRUE
                BY <3>2
            <4>2. Cardinality(s \ {x}) = Cardinality(s) - 1 /\ s \ {x} \in SUBSET D
                BY <1>6, <4>1, FS_RemoveElement
            <4>3. Cardinality(s \ {x}) <= n
                BY <1>6, <2>1, <4>2
            <4>4. g[s \ {x}] \in M
                BY <1>8, <4>2, <4>3
            <4>5. g[s] = fun[x] + g[s \ {x}]
                BY <1>2, <3>2, <4>1 DEF Sums
            <4>6. fun[x] \in M
                BY <4>1
            <4> QED BY <4>4, <4>5, <4>6
        <3> QED BY <3>1, <3>2
    <2> QED BY <2>1
<1> HIDE DEF T
<1>9. Cardinality(D) \in T /\ Cardinality(D) \in Nat
    BY <1>7, <1>8, Induction, FS_CardinalityType
<1>10. g[D] \in M
    <2>1. Cardinality(D) <= Cardinality(D)
        BY <1>9
    <2> QED BY <1>9, <2>1 DEF T
<1> QED
    BY <1>1, <1>2, <1>10, SumIs

LEMMA SumType ==
    ASSUME NEW D, IsFiniteSet(D), NEW fun \in [D -> Nat]
    PROVE  SumFunction(fun) \in Nat
<1>1. PICK M : M = Nat
    OBVIOUS
<1>2. M \subseteq Int /\ 0 \in M /\ \A a, b \in M : a + b \in M
    BY <1>1
<1>3. fun \in [D -> M]
    BY <1>1
<1>4. SumFunction(fun) \in M
    BY <1>2, <1>3, SumAmong
<1> QED
    BY <1>1, <1>4

LEMMA SumZero ==
    ASSUME NEW D, IsFiniteSet(D), NEW fun \in [D -> {0}]
    PROVE  SumFunction(fun) = 0
<1>1. PICK M : M = {0}
    OBVIOUS
<1>2. M \subseteq Int /\ 0 \in M /\ \A a, b \in M : a + b \in M
    BY <1>1
<1>3. fun \in [D -> M]
    BY <1>1
<1>4. SumFunction(fun) \in M
    BY <1>2, <1>3, SumAmong
<1> QED
    BY <1>1, <1>4

LEMMA SumChange ==
    ASSUME NEW D, IsFiniteSet(D), NEW fun \in [D -> Int], NEW new \in [D -> Int], NEW d \in D,
           \A x \in D \ {d} : new[x] = fun[x]
    PROVE  SumFunction(new) = SumFunction(fun) + new[d] - fun[d] /\ SumFunction(fun) \in Int
<1>1. PICK g : Sums(g, fun, D)
    BY SumsExists
<1>2. PICK h : Sums(h, new, D)
    BY SumsExists
<1> DEFINE T == {n \in Nat : \A s \in SUBSET D : Cardinality(s) <= n =>
                   h[s] = g[s] + IF d \in s THEN new[d] - fun[d] ELSE 0}
<1>5. fun[d] \in Int /\ new[d] \in Int /\ \A s \in SUBSET D : g[s] \in Int /\ h[s] \in Int
    BY <1>1, <1>2 DEF Sums
<1>6. \A s \in SUBSET D : /\ IsFiniteSet(s) /\ Cardinality(s) \in Nat
                          /\ Cardinality(s) = 0 <=> s = {}
    BY FS_Subset, FS_CardinalityType, FS_EmptySet
<1>7. 0 \in T
    <2>1. ASSUME NEW s \in SUBSET D, Cardinality(s) <= 0
          PROVE  h[s] = g[s] + IF d \in s THEN new[d] - fun[d] ELSE 0
        <3>1. s = {}
            <4>1. Cardinality(s) = 0
                BY <1>6, <2>1
            <4> QED BY <1>6, <4>1
        <3>2. g[s] = 0 /\ h[s] = 0
            BY <1>1, <1>2, <3>1 DEF Sums
        <3> QED BY <3>1, <3>2
    <2> QED BY <2>1
<1>8. ASSUME NEW n \in Nat, n \in T PROVE n + 1 \in T
    <2>1. ASSUME NEW s \in SUBSET D, Cardinality(s) <= n + 1
          PROVE  h[s] = g[s] + IF d \in s THEN new[d] - fun[d] ELSE 0
        <3>1. CASE s = {}
            <4>1. g[s] = 0 /\ h[s] = 0
                BY <1>1, <1>2, <3>1 DEF Sums
            <4> QED BY <3>1, <4>1
        <3>2. CASE s # {}
            <4>1. PICK x \in s : x = CHOOSE y \in s : TRUE
                BY <3>2
            <4>2. Cardinality(s \ {x}) = Cardinality(s) - 1 /\ s \ {x} \in SUBSET D
                BY <1>6, <4>1, FS_RemoveElement
            <4>3. Cardinality(s \ {x}) <= n
                BY <1>6, <2>1, <4>2
            <4>4. h[s \ {x}] = g[s \ {x}] + IF d \in s \ {x} THEN new[d] - fun[d] ELSE 0
                BY <1>8, <4>2, <4>3
            <4>5. h[s] = new[x] + h[s \ {x}] /\ g[s] = fun[x] + g[s \ {x}]
                BY <1>1, <1>2, <3>2, <4>1 DEF Sums
            <4>6. fun[x] \in Int /\ new[x] \in Int /\ g[s \ {x}] \in Int
                BY <1>5, <4>1, <4>2
            <4>7. CASE x = d
                <5>1. d \in s /\ d \notin s \ {x}
                    BY <4>1, <4>7
                <5>2. h[s \ {x}] = g[s \ {x}]
                    BY <4>4, <4>6, <5>1
                <5> QED BY <4>5, <4>6, <4>7, <5>1, <5>2
            <4>8. CASE x # d
                <5>1. new[x] = fun[x] /\ (d \in s <=> d \in s \ {x})
                    BY <4>1, <4>8
                <5> QED BY <1>5, <4>4, <4>5, <4>6, <5>1
            <4> QED BY <4>7, <4>8
        <3> QED BY <3>1, <3>2
    <2> QED BY <2>1
<1> HIDE DEF T
<1>9. Cardinality(D) \in T /\ Cardinality(D) \in Nat
    BY <1>7, <1>8, Induction, FS_CardinalityType
<1>10. h[D] = g[D] + (new[d] - fun[d])
    <2>1. Cardinality(D) <= Cardinality(D)
        BY <1>9
    <2>2. h[D] = g[D] + IF d \in D THEN new[d] - fun[d] ELSE 0
        BY <1>9, <2>1 DEF T
    <2> QED BY <2>2
<1>11. SumFunction(fun) = g[D] /\ SumFunction(new) = h[D]
    BY <1>1, <1>2, SumIs
<1>12. g[D] \in Int
    BY <1>5
<1> QED
    BY <1>5, <1>10, <1>11, <1>12

-----------------------------------------------------------------------------
(* Lists of buffers.                                                       *)

LEMMA RestOfSecond ==
    ASSUME NEW S, NEW s \in Seq(S), NEW t \in Seq(S), NEW j \in 0..Len(t)
    PROVE  SubSeq(s \o t, Len(s) + j + 1, Len(s \o t)) = SubSeq(t, j + 1, Len(t))
<1>1. Len(s) \in Nat /\ Len(t) \in Nat /\ Len(s \o t) = Len(s) + Len(t) /\ j \in Nat /\ j <= Len(t)
    BY LenProperties, ConcatProperties
<1>2. CASE j = Len(t)
    <2>1. SubSeq(t, j + 1, Len(t)) = << >>
        BY <1>1, <1>2, SubSeqEmpty
    <2>2. SubSeq(s \o t, Len(s) + j + 1, Len(s \o t)) = << >>
        BY <1>1, <1>2, SubSeqEmpty
    <2> QED BY <2>1, <2>2
<1>3. CASE j # Len(t)
    <2>1. /\ Len(s) + j + 1 \in (Len(s) + 1)..(Len(s) + Len(t))
          /\ Len(s) + Len(t) \in (Len(s) + 1)..(Len(s) + Len(t))
        BY <1>1, <1>3
    <2>2. SubSeq(s \o t, Len(s) + j + 1, Len(s) + Len(t)) =
             SubSeq(t, Len(s) + j + 1 - Len(s), Len(s) + Len(t) - Len(s))
        BY <2>1, SubSeqOfConcat2
    <2>3. Len(s) + j + 1 - Len(s) = j + 1 /\ Len(s) + Len(t) - Len(s) = Len(t)
        BY <1>1
    <2> QED BY <1>1, <2>2, <2>3
<1> QED
    BY <1>2, <1>3

Filled(list, u) == \A i \in 1..Len(list) : Len(list[i]) <= u

\* What is left is a list, of buffers that were there.
LEMMA DropIs ==
    ASSUME NEW S, NEW list \in Seq(Seq(S)), NEW k \in Nat
    PROVE  /\ Drop(list, k) \in Seq(Seq(S))
           /\ Len(Drop(list, k)) <= Len(list)
           /\ \A u \in Nat : Filled(list, u) => Filled(Drop(list, k), u)
           /\ k <= Len(Bytes(list)) =>
                 Bytes(Drop(list, k)) = SubSeq(Bytes(list), k + 1, Len(Bytes(list)))
<1> DEFINE Taken(n) == Len(Bytes(SubSeq(list, 1, n)))
           U == {j \in 0..Len(list) : Taken(j) <= k}
           n == Max(U)
<1>1. Len(list) \in Nat /\ Bytes(list) \in Seq(S) /\ Len(Bytes(list)) \in Nat
    BY LenProperties, FlattenType DEF Bytes
<1>2. ASSUME NEW j \in 0..Len(list)
      PROVE  /\ SubSeq(list, 1, j) \in Seq(Seq(S)) /\ Bytes(SubSeq(list, 1, j)) \in Seq(S)
             /\ Taken(j) \in Nat
    BY Split, FlattenType, LenProperties DEF Bytes
<1>3. n \in U /\ \A j \in U : j <= n
    <2>1. 0 \in U
        <3>1. SubSeq(list, 1, 0) = << >>
            BY SubSeqEmpty
        <3>2. Taken(0) = 0
            BY <3>1, FlattenNil, EmptySeq DEF Bytes
        <3> QED BY <1>1, <3>2
    <2> QED
        BY <1>1, <2>1, MaxIsGreatest
<1>4. Drop(list, k) = IF n = Len(list) THEN << >>
                      ELSE <<SubSeq(list[n + 1], k - Taken(n) + 1, Len(list[n + 1]))>>
                           \o SubSeq(list, n + 2, Len(list))
    BY DEF Drop
<1> HIDE DEF n
<1>5. n \in 0..Len(list) /\ n \in Nat /\ n <= Len(list) /\ Taken(n) <= k /\ Taken(n) \in Nat
    BY <1>1, <1>2, <1>3
<1>6. CASE n = Len(list)
    <2>1. SubSeq(list, 1, n) = list
        BY <1>6, SubSeqFull
    <2>2. Drop(list, k) = << >>
        BY <1>4, <1>6
    <2>3. << >> \in Seq(Seq(S)) /\ Len(<< >>) = 0
        BY EmptySeq
    <2>4. k <= Len(Bytes(list)) => SubSeq(Bytes(list), k + 1, Len(Bytes(list))) = << >>
        <3>1. Len(Bytes(list)) < k + 1
            <4>1. Taken(n) = Len(Bytes(list))
                BY <2>1
            <4> QED BY <1>1, <1>5, <4>1
        <3> QED BY <1>1, <3>1, SubSeqEmpty
    <2>5. Filled(<< >>, 0) /\ \A u : Filled(<< >>, u)
        BY <2>3 DEF Filled
    <2>6. Bytes(<< >>) = << >>
        BY FlattenNil DEF Bytes
    <2>7. Len(Drop(list, k)) <= Len(list)
        BY <1>1, <2>2, <2>3
    <2> QED
        BY <2>2, <2>3, <2>4, <2>5, <2>6, <2>7, Zenon
<1>7. CASE n # Len(list)
    <2>1. n + 1 \in 1..Len(list) /\ n + 1 \in 0..Len(list) /\ n + 1 <= Len(list)
        BY <1>1, <1>5, <1>7
    <2>2. PICK x \in Seq(S) : x = list[n + 1]
        BY <2>1, ElementOfSeq
    <2>3. PICK head \in Seq(Seq(S)), a \in Seq(S) : head = SubSeq(list, 1, n) /\ a = Bytes(head)
        BY <1>2, <1>5
    <2>4. PICK more \in Seq(Seq(S)), c \in Seq(S) :
             more = SubSeq(list, n + 2, Len(list)) /\ c = Bytes(more)
        <3>1. SubSeq(list, n + 1 + 1, Len(list)) \in Seq(Seq(S))
            BY <2>1, Split
        <3>2. n + 1 + 1 = n + 2
            BY <1>5
        <3> QED BY <3>1, <3>2, FlattenType DEF Bytes
    <2>5. Len(a) \in Nat /\ Len(x) \in Nat /\ Len(c) \in Nat /\ Taken(n) = Len(a)
        BY <2>3, LenProperties
    <2>6. SubSeq(list, 1, n + 1) = Append(head, x) /\ Bytes(Append(head, x)) = a \o x
        BY <1>5, <2>1, <2>2, <2>3, OneMore, FlattenAppend DEF Bytes
    <2>7. Taken(n + 1) = Len(a) + Len(x)
        BY <2>6, ConcatProperties
    <2>8. k < Len(a) + Len(x)
        <3>1. n + 1 \notin U
            BY <1>3, <1>5
        <3> QED BY <2>1, <2>5, <2>7, <3>1
    <2>9. PICK j : j = k - Len(a)
        OBVIOUS
    <2>10. j \in 0..Len(x) /\ k = Len(a) + j
        BY <1>5, <2>5, <2>8, <2>9
    <2>11. PICK y \in Seq(S) : y = SubSeq(x, j + 1, Len(x)) /\ Len(y) = Len(x) - j
        BY <2>10, Split
    <2>12. Drop(list, k) = <<y>> \o more
        BY <1>4, <1>7, <2>2, <2>3, <2>4, <2>9, <2>11
    <2>13. <<y>> \o more \in Seq(Seq(S)) /\ Bytes(<<y>> \o more) = y \o c
        <3>1. FlattenSeq(<<y>> \o more) = y \o FlattenSeq(more) /\ <<y>> \o more \in Seq(Seq(S))
            BY FlattenCons, ZenonT(60)
        <3> QED BY <2>4, <3>1 DEF Bytes
    <2>14. /\ Len(more) = Len(list) - (n + 1)
           /\ \A i \in 1..(Len(list) - (n + 1)) : more[i] = list[n + 1 + i]
        <3>1. n + 1 + 1 = n + 2
            BY <1>5
        <3>2. /\ Len(SubSeq(list, n + 1 + 1, Len(list))) = Len(list) - (n + 1)
              /\ \A i \in 1..(Len(list) - (n + 1)) :
                    SubSeq(list, n + 1 + 1, Len(list))[i] = list[n + 1 + i]
            BY <2>1, Split
        <3> QED BY <2>4, <3>1, <3>2
    <2>15. /\ Len(<<y>> \o more) = 1 + Len(more)
           /\ \A i \in 1..(1 + Len(more)) : (<<y>> \o more)[i] = IF i <= 1 THEN y ELSE more[i - 1]
        <3>1. <<y>> \in Seq(Seq(S)) /\ Len(<<y>>) = 1 /\ <<y>>[1] = y
            OBVIOUS
        <3>2. /\ Len(<<y>> \o more) = Len(<<y>>) + Len(more)
              /\ \A i \in 1..(Len(<<y>>) + Len(more)) :
                   (<<y>> \o more)[i] = IF i <= Len(<<y>>) THEN <<y>>[i] ELSE more[i - Len(<<y>>)]
            BY <3>1, ConcatProperties
        <3>3. \A i \in 1..(1 + Len(more)) : i <= 1 => i = 1
            OBVIOUS
        <3> QED BY <3>1, <3>2, <3>3
    <2>16. ASSUME NEW u \in Nat, Filled(list, u) PROVE Filled(<<y>> \o more, u)
        <3>1. Len(x) <= u
            BY <2>1, <2>2, <2>16 DEF Filled
        <3>2. Len(y) <= u
            BY <2>5, <2>10, <2>11, <3>1
        <3>3. ASSUME NEW i \in 1..Len(more) PROVE Len(more[i]) <= u
            <4>1. n + 1 + i \in 1..Len(list) /\ i \in 1..(Len(list) - (n + 1))
                BY <1>1, <1>5, <2>14
            <4> QED BY <2>14, <2>16, <4>1 DEF Filled
        <3>4. ASSUME NEW i \in 1..(1 + Len(more)) PROVE Len((<<y>> \o more)[i]) <= u
            <4>1. CASE i <= 1
                BY <2>15, <3>2, <4>1
            <4>2. CASE ~(i <= 1)
                <5>1. i - 1 \in 1..Len(more)
                    BY <1>1, <1>5, <2>14, <4>2
                <5> QED BY <2>15, <3>3, <4>2, <5>1
            <4> QED BY <4>1, <4>2
        <3> QED BY <2>15, <3>4 DEF Filled
    <2>17. Bytes(list) = a \o (x \o c)
        <3>1. list = SubSeq(list, 1, n + 1) \o more
            <4>1. n + 1 + 1 = n + 2
                BY <1>5
            <4> QED BY <2>1, <2>4, <4>1, Split
        <3>2. Append(head, x) \in Seq(Seq(S))
            BY AppendProperties
        <3>3. FlattenSeq(Append(head, x) \o more) = FlattenSeq(Append(head, x)) \o FlattenSeq(more)
            BY <3>2, FlattenConcat
        <3>4. list = Append(head, x) \o more
            BY <2>6, <3>1
        <3>5. Bytes(list) = (a \o x) \o c
            BY <2>4, <2>6, <3>3, <3>4 DEF Bytes
        <3>6. (a \o x) \o c = a \o (x \o c)
            BY ConcatAssociative, SMTT(40)
        <3> QED BY <3>5, <3>6
    <2>18. y \o c = SubSeq(Bytes(list), k + 1, Len(Bytes(list)))
        <3>1. x \o c \in Seq(S) /\ Len(x \o c) = Len(x) + Len(c)
            BY ConcatProperties
        <3>2. j \in 0..Len(x \o c)
            BY <2>5, <2>10, <3>1
        <3>3. SubSeq(a \o (x \o c), Len(a) + j + 1, Len(a \o (x \o c))) = SubSeq(x \o c, j + 1, Len(x \o c))
            BY <3>1, <3>2, RestOfSecond
        <3>4. SubSeq(x \o c, j + 1, Len(x \o c)) = y \o c
            BY <2>10, <2>11, RestOfFirst
        <3> QED BY <2>10, <2>17, <3>3, <3>4
    <2>19. Len(<<y>> \o more) <= Len(list)
        BY <1>1, <1>5, <2>14, <2>15
    <2> QED
        BY <2>12, <2>13, <2>16, <2>18, <2>19
<1> QED
    BY <1>6, <1>7

LEMMA DivisionIs ==
    ASSUME NEW x \in Nat, NEW u \in Nat, u > 0
    PROVE  x \div u \in Nat /\ (x \div u) * u <= x /\ x < (x \div u) * u + u
BY Z3

LEMMA ProductGrows ==
    ASSUME NEW a \in Nat, NEW b \in Nat, NEW u \in Nat, a <= b
    PROVE  a * u <= b * u
OBVIOUS

LEMMA ProductNext ==
    ASSUME NEW a \in Nat, NEW u \in Nat
    PROVE  (a + 1) * u = a * u + u /\ a * u \in Nat
OBVIOUS

\* Buffers that are neither empty nor too long.
Proper(list) == \A i \in 1..Len(list) : Len(list[i]) \in 1..Unit

\* New buffers have the bytes in order, and none is empty or too long.
LEMMA ChunksIs ==
    ASSUME NEW S, NEW bytes \in Seq(S)
    PROVE  Chunks(bytes) \in Seq(Seq(S)) /\ Proper(Chunks(bytes)) /\ Bytes(Chunks(bytes)) = bytes
<1> DEFINE L == Len(bytes)
           c == (L + Unit - 1) \div Unit
           End(j) == Min({j * Unit, L})
<1>1. L \in Nat /\ Unit \in Nat /\ Unit > 0 /\ L + Unit - 1 \in Nat
    BY SizesAssumption, LenProperties
<1>2. c \in Nat /\ c * Unit <= L + Unit - 1 /\ L + Unit - 1 < c * Unit + Unit
    BY <1>1, DivisionIs
<1> HIDE DEF c
<1>3. L <= c * Unit
    <2>1. c * Unit \in Nat
        BY <1>1, <1>2, ProductNext
    <2> QED BY <1>1, <1>2, <2>1
<1>4. ASSUME NEW j \in Nat, j < c
      PROVE  /\ j * Unit \in Nat /\ j * Unit < L /\ End(j) = j * Unit
             /\ (j + 1) * Unit = j * Unit + Unit
             /\ End(j + 1) \in Nat /\ j * Unit < End(j + 1) /\ End(j + 1) <= L
             /\ End(j + 1) - j * Unit <= Unit
    <2>1. (j + 1) * Unit = j * Unit + Unit /\ j * Unit \in Nat
        BY <1>1, ProductNext
    <2>2. (j + 1) * Unit <= c * Unit
        BY <1>1, <1>2, <1>4, ProductGrows
    <2>3. j * Unit < L
        <3>1. c * Unit \in Nat
            BY <1>1, <1>2, ProductNext
        <3> QED BY <1>1, <1>2, <2>1, <2>2, <3>1
    <2>4. PICK a \in Int, b \in Int : a = j * Unit /\ b = L
        BY <1>1, <2>1
    <2>5. End(j) = a
        <3>1. Min({a, b}) \in {a, b} /\ Min({a, b}) <= a /\ Min({a, b}) <= b
            BY MinOfTwo
        <3> QED BY <2>3, <2>4, <3>1
    <2>6. PICK d \in Int : d = (j + 1) * Unit
        BY <1>1, <2>1
    <2>7. End(j + 1) \in {d, b} /\ End(j + 1) <= d /\ End(j + 1) <= b
        BY <2>4, <2>6, MinOfTwo
    <2> QED
        BY <1>1, <2>1, <2>3, <2>4, <2>5, <2>6, <2>7
<1> HIDE DEF L
<1>5. PICK list : list = Chunks(bytes)
    OBVIOUS
<1>6. list = [j \in 1..c |-> SubSeq(bytes, (j - 1) * Unit + 1, End(j))]
    BY <1>5 DEF Chunks, c, L
<1> HIDE DEF End
<1>7. ASSUME NEW j \in Nat, j < c
      PROVE  /\ list[j + 1] = SubSeq(bytes, j * Unit + 1, End(j + 1))
             /\ list[j + 1] \in Seq(S) /\ Len(list[j + 1]) \in 1..Unit
    <2>1. j + 1 \in 1..c /\ j + 1 - 1 = j
        BY <1>2, <1>7
    <2>2. list[j + 1] = SubSeq(bytes, j * Unit + 1, End(j + 1))
        <3>1. PICK i \in 1..c : i = j + 1
            BY <2>1
        <3>2. list[i] = SubSeq(bytes, (i - 1) * Unit + 1, End(i))
            BY <1>6
        <3>3. i - 1 = j
            BY <2>1, <3>1
        <3> QED BY <3>1, <3>2, <3>3
    <2>3. PICK p \in Nat, q \in Nat : p = j * Unit /\ q = End(j + 1)
        BY <1>4, <1>7
    <2>4. p < q /\ q <= L /\ q - p <= Unit
        BY <1>4, <1>7, <2>3
    <2>5. \A i \in (p + 1)..q : bytes[i] \in S
        BY <1>1, <2>4, ElementOfSeq DEF L
    <2>6. SubSeq(bytes, p + 1, q) \in Seq(S) /\ Len(SubSeq(bytes, p + 1, q)) = q - (p + 1) + 1
        BY <2>4, <2>5, SubSeqProperties
    <2> QED BY <1>1, <2>2, <2>3, <2>4, <2>6
<1>8. list \in Seq(Seq(S)) /\ Len(list) = c
    <2>1. ASSUME NEW j \in 1..c PROVE SubSeq(bytes, (j - 1) * Unit + 1, End(j)) \in Seq(S)
        <3>1. j - 1 \in Nat /\ j - 1 < c /\ j - 1 + 1 = j
            BY <1>2
        <3>2. list[j] \in Seq(S)
            BY <1>7, <3>1
        <3> QED BY <1>6, <3>2
    <2>2. list \in [1..c -> Seq(S)]
        BY <1>6, <2>1
    <2> QED BY <1>2, <2>2, FcnSeq
<1>9. Proper(list)
    <2>1. ASSUME NEW j \in 1..c PROVE Len(list[j]) \in 1..Unit
        <3>1. j - 1 \in Nat /\ j - 1 < c /\ j - 1 + 1 = j
            BY <1>2
        <3> QED BY <1>7, <3>1
    <2> QED BY <1>8, <2>1 DEF Proper
<1> DEFINE T == {j \in Nat : j <= c => Bytes(SubSeq(list, 1, j)) = SubSeq(bytes, 1, End(j))}
<1>10. 0 \in T
    <2>1. SubSeq(list, 1, 0) = << >>
        BY SubSeqEmpty
    <2>2. End(0) <= 0 /\ End(0) \in Int
        <3>1. PICK a \in Int, b \in Int : a = 0 * Unit /\ b = L
            BY <1>1
        <3>2. Min({a, b}) \in {a, b} /\ Min({a, b}) <= a
            BY MinOfTwo
        <3>3. 0 * Unit = 0
            BY <1>1
        <3> QED BY <3>1, <3>2, <3>3 DEF End
    <2>3. SubSeq(bytes, 1, End(0)) = << >>
        BY <2>2, SubSeqEmpty
    <2> QED BY <2>1, <2>3, FlattenNil DEF Bytes
<1>11. ASSUME NEW j \in Nat, j \in T PROVE j + 1 \in T
    <2>1. SUFFICES ASSUME j + 1 <= c
                   PROVE  Bytes(SubSeq(list, 1, j + 1)) = SubSeq(bytes, 1, End(j + 1))
        OBVIOUS
    <2>2. j < c /\ j <= c /\ j + 1 <= Len(list) /\ j \in 0..Len(list)
        BY <1>2, <1>8, <2>1
    <2>3. PICK e \in Seq(S) : e = list[j + 1] /\ e = SubSeq(bytes, j * Unit + 1, End(j + 1))
        BY <1>7, <2>2
    <2>4. PICK front \in Seq(Seq(S)) : front = SubSeq(list, 1, j)
        BY <1>8, <2>2, Split
    <2>5. SubSeq(list, 1, j + 1) = Append(front, e)
        BY <1>8, <2>2, <2>3, <2>4, OneMore
    <2>6. FlattenSeq(Append(front, e)) = FlattenSeq(front) \o e
        BY FlattenAppend
    <2>7. Bytes(front) = SubSeq(bytes, 1, End(j))
        BY <1>11, <2>2, <2>4
    <2>8. PICK p \in Nat, q \in Nat : p = j * Unit /\ q = End(j + 1) /\ p = End(j)
        BY <1>4, <2>2 DEF End
    <2>9. p < q /\ q <= L
        BY <1>4, <2>2, <2>8 DEF End
    <2>10. 1 \in 1..(Len(bytes) + 1) /\ p \in (1 - 1)..Len(bytes) /\ q \in p..Len(bytes)
        BY <1>1, <2>9 DEF L
    <2>11. SubSeq(bytes, 1, p) \o SubSeq(bytes, p + 1, q) = SubSeq(bytes, 1, q)
        BY <2>10, ConcatAdjacentSubSeq
    <2> QED BY <2>3, <2>5, <2>6, <2>7, <2>8, <2>11 DEF Bytes
<1> HIDE DEF T
<1>12. c \in T
    BY <1>2, <1>10, <1>11, Induction
<1>13. Bytes(SubSeq(list, 1, c)) = SubSeq(bytes, 1, End(c))
    <2>1. c <= c
        BY <1>2
    <2> QED BY <1>12, <2>1 DEF T
<1>14. End(c) = L
    <2>1. PICK a \in Int, b \in Int : a = c * Unit /\ b = L
        BY <1>1, <1>2, ProductNext
    <2>2. Min({a, b}) \in {a, b} /\ Min({a, b}) <= a /\ Min({a, b}) <= b
        BY MinOfTwo
    <2> QED BY <1>3, <2>1, <2>2 DEF End
<1>15. SubSeq(list, 1, c) = list /\ SubSeq(bytes, 1, L) = bytes
    BY <1>8, SubSeqFull DEF L
<1> QED
    BY <1>5, <1>8, <1>9, <1>13, <1>14, <1>15

\* Four pieces, put together in two ways.
Regrouped(f, g, x, y) == (f \o (g \o x)) \o y = (f \o g) \o (x \o y)

LEMMA FourPieces ==
    ASSUME NEW S, NEW f \in Seq(S), NEW g \in Seq(S), NEW x \in Seq(S), NEW y \in Seq(S)
    PROVE  Regrouped(f, g, x, y)
<1>1. PICK w \in Seq(S) : w = f \o g
    BY ConcatProperties
<1>2. f \o (g \o x) = w \o x
    BY <1>1, ConcatAssociative, SMTT(40)
<1>3. (w \o x) \o y = w \o (x \o y)
    BY ConcatAssociative, SMTT(40)
<1> QED
    BY <1>1, <1>2, <1>3 DEF Regrouped

\* append_send_data puts the bytes behind those that wait.
LEMMA ExtendedIs ==
    ASSUME NEW S, NEW list \in Seq(Seq(S)), NEW bytes \in Seq(S), Proper(list)
    PROVE  /\ Extended(list, bytes) \in Seq(Seq(S)) /\ Proper(Extended(list, bytes))
           /\ Bytes(Extended(list, bytes)) = Bytes(list) \o bytes
           /\ Len(list) <= Len(Extended(list, bytes))
<1>1. CASE list = << >>
    <2>1. Bytes(list) = << >> /\ Len(list) = 0
        BY <1>1, FlattenNil DEF Bytes
    <2>2. << >> \o bytes = bytes
        BY ConcatEmptySeq
    <2>3. Extended(list, bytes) = Chunks(bytes)
        BY <1>1 DEF Extended
    <2>4. Len(Chunks(bytes)) \in Nat
        BY ChunksIs, LenProperties
    <2> QED BY <2>1, <2>2, <2>3, <2>4, ChunksIs
<1>2. CASE list # << >>
    <2> DEFINE room == Unit - Len(Last(list))
               fits == Min({room, Len(bytes)})
    <2>1. Len(list) \in Nat /\ Len(list) >= 1 /\ Len(list) \in 1..Len(list) /\ Len(list) - 1 + 1 = Len(list)
        BY <1>2, EmptySeq, LenProperties
    <2>2. PICK last \in Seq(S) : last = Last(list) /\ last = list[Len(list)]
        BY <2>1, ElementOfSeq DEF Last
    <2>3. Len(last) \in 1..Unit /\ Len(last) \in Nat /\ Len(bytes) \in Nat /\ Unit \in Nat
        BY <2>1, <2>2, SizesAssumption, LenProperties DEF Proper
    <2>4. /\ fits \in 0..Len(bytes) /\ fits <= room /\ room = Unit - Len(last)
        <3>0. Unit - Len(last) \in Int
            BY <2>3
        <3>1. PICK a \in Int : a = Unit - Len(last)
            BY <3>0, Zenon
        <3>2. PICK b \in Int : b = Len(bytes)
            BY <2>3
        <3>3. room = a
            BY <2>2, <3>1
        <3>4. fits = Min({a, b})
            BY <3>2, <3>3
        <3>5. Min({a, b}) \in {a, b} /\ Min({a, b}) <= a /\ Min({a, b}) <= b
            BY MinOfTwo
        <3>6. a >= 0 /\ b >= 0
            BY <2>3, <3>1, <3>2
        <3>7. fits \in Int /\ fits >= 0 /\ fits <= a /\ fits <= b
            BY <3>4, <3>5, <3>6
        <3> HIDE DEF fits, room
        <3> QED BY <3>1, <3>2, <3>3, <3>7
    <2>5. Extended(list, bytes) = Front(list) \o <<Last(list) \o SubSeq(bytes, 1, fits)>>
                                             \o Chunks(SubSeq(bytes, fits + 1, Len(bytes)))
        BY <1>2 DEF Extended
    <2> HIDE DEF fits, room
    <2>6. PICK x \in Seq(S), y \in Seq(S) :
             /\ x = SubSeq(bytes, 1, fits) /\ y = SubSeq(bytes, fits + 1, Len(bytes))
             /\ Len(x) = fits /\ x \o y = bytes
        <3>1. /\ SubSeq(bytes, 1, fits) \in Seq(S) /\ Len(SubSeq(bytes, 1, fits)) = fits
              /\ SubSeq(bytes, fits + 1, Len(bytes)) \in Seq(S)
              /\ SubSeq(bytes, 1, fits) \o SubSeq(bytes, fits + 1, Len(bytes)) = bytes
            BY <2>4, Split
        <3> QED BY <3>1
    <2>7. PICK front \in Seq(Seq(S)) : front = Front(list)
        <3>1. Len(list) - 1 \in 0..Len(list)
            BY <2>1
        <3> QED BY <3>1, Split DEF Front
    <2>8. /\ Len(front) = Len(list) - 1
          /\ \A i \in 1..(Len(list) - 1) : front[i] = list[i]
          /\ list = Append(front, last)
        <3>1. Len(list) - 1 \in 0..Len(list) /\ Len(list) - 1 \in Nat /\ Len(list) - 1 + 1 <= Len(list)
            BY <2>1
        <3>2. /\ Len(SubSeq(list, 1, Len(list) - 1)) = Len(list) - 1
              /\ \A i \in 1..(Len(list) - 1) : SubSeq(list, 1, Len(list) - 1)[i] = list[i]
            BY <3>1, Split
        <3>3. SubSeq(list, 1, Len(list) - 1 + 1) = Append(SubSeq(list, 1, Len(list) - 1), list[Len(list) - 1 + 1])
            BY <3>1, OneMore
        <3>4. SubSeq(list, 1, Len(list)) = list
            BY SubSeqFull
        <3> QED BY <2>1, <2>2, <2>7, <3>2, <3>3, <3>4 DEF Front
    <2>9. PICK e \in Seq(S) : e = last \o x /\ Len(e) = Len(last) + fits
        <3>1. last \o x \in Seq(S) /\ Len(last \o x) = Len(last) + Len(x)
            BY ConcatProperties
        <3> QED BY <2>6, <3>1
    <2>10. PICK more \in Seq(Seq(S)) : more = Chunks(y) /\ Proper(more) /\ Bytes(more) = y
        BY ChunksIs
    <2>11. PICK long \in Seq(Seq(S)) : long = Append(front, e)
        BY AppendProperties
    <2>12. Extended(list, bytes) = long \o more
        <3>1. front \o <<e>> = long
            BY <2>11, AppendIsConcat
        <3> QED BY <2>2, <2>5, <2>6, <2>7, <2>9, <2>10, <3>1
    <2>13. /\ Len(long) = Len(list) /\ long[Len(list)] = e
           /\ \A i \in 1..(Len(list) - 1) : long[i] = list[i]
        <3>1. /\ Len(long) = Len(front) + 1 /\ long[Len(front) + 1] = e
              /\ \A i \in 1..Len(front) : long[i] = front[i]
            BY <2>11, AppendProperties
        <3> QED BY <2>1, <2>8, <3>1
    <2>14. Proper(long)
        <3>1. Len(e) \in 1..Unit
            BY <2>3, <2>4, <2>9
        <3>2. ASSUME NEW i \in 1..Len(list) PROVE Len(long[i]) \in 1..Unit
            <4>1. \A n \in Nat : \A j \in 1..n : j = n \/ j \in 1..(n - 1)
                OBVIOUS
            <4>2. i = Len(list) \/ i \in 1..(Len(list) - 1)
                BY <2>1, <4>1
            <4>3. i \in 1..(Len(list) - 1) => Len(list[i]) \in 1..Unit
                BY DEF Proper
            <4> QED BY <2>13, <3>1, <4>2, <4>3
        <3> QED BY <2>13, <3>2 DEF Proper
    <2>15. /\ long \o more \in Seq(Seq(S)) /\ Len(long \o more) = Len(long) + Len(more)
           /\ \A i \in 1..(Len(long) + Len(more)) :
                 (long \o more)[i] = IF i <= Len(long) THEN long[i] ELSE more[i - Len(long)]
           /\ Len(long) \in Nat /\ Len(more) \in Nat
        BY ConcatProperties, LenProperties
    <2>16. Proper(long \o more)
        <3>1. ASSUME NEW i \in 1..(Len(long) + Len(more)) PROVE Len((long \o more)[i]) \in 1..Unit
            <4>1. CASE i <= Len(long)
                <5>1. i \in 1..Len(long)
                    BY <2>15, <4>1
                <5> QED BY <2>14, <2>15, <4>1, <5>1 DEF Proper
            <4>2. CASE ~(i <= Len(long))
                <5>1. i - Len(long) \in 1..Len(more)
                    BY <2>15, <4>2
                <5> QED BY <2>10, <2>15, <4>2, <5>1 DEF Proper
            <4> QED BY <4>1, <4>2
        <3> QED BY <2>15, <3>1 DEF Proper
    <2>17. Bytes(long \o more) = Bytes(list) \o bytes
        <3>1. PICK f \in Seq(S) : f = FlattenSeq(front)
            BY FlattenType
        <3>2. FlattenSeq(long \o more) = FlattenSeq(long) \o FlattenSeq(more)
            BY FlattenConcat
        <3>3. FlattenSeq(long) = f \o e /\ FlattenSeq(list) = f \o last
            BY <2>8, <2>11, <3>1, FlattenAppend
        <3>4. (f \o (last \o x)) \o y = (f \o last) \o (x \o y)
            <4>1. Regrouped(f, last, x, y)
                BY FourPieces
            <4> QED BY <4>1 DEF Regrouped
        <3> QED BY <2>6, <2>9, <2>10, <3>2, <3>3, <3>4 DEF Bytes
    <2>18. Len(list) <= Len(long \o more)
        BY <2>1, <2>13, <2>15
    <2> QED
        BY <2>12, <2>15, <2>16, <2>17, <2>18
<1> QED
    BY <1>1, <1>2

-----------------------------------------------------------------------------
(* The inductive invariant.  What is sent on a connection and not handled  *)
(* yet is in its receive list and on its wire, whole and in order; the     *)
(* lengths its slot remembers are those of the first such command.         *)

Byte == Nat \X Nat

Slot == [in : Seq(Seq(Byte)), out : Seq(Seq(Byte)), inLen : Nat, hlen : Nat,
         blen : -1..ValueLimit, write : BOOLEAN]

GoodSlot == {s \in Slot : Filled(s.in, Unit) /\ Proper(s.out)}

Worker ==
    [pc : {"wait"}] \cup [pc : {"input", "measured"}, fd : Fds, armed : BOOLEAN]
    \cup [pc : {"closing"}, fd : Fds, quit : BOOLEAN, armed : BOOLEAN]

\* The types, which hold even when a slot has been given away.
Types ==
    /\ pool \in Nat /\ pool > 0
    /\ io \in [Fds -> GoodSlot]
    /\ epoll \in [Fds -> {"none", "in", "inout"}] /\ at \in Worker
    /\ wire \in [Fds -> Seq(Byte)] /\ got \in [Fds -> Seq(Byte)]
    /\ peer \in [Fds -> {"up", "fin", "rst"}]
    /\ sent \in [Fds -> Seq(Commands)]
    /\ handled \in [Fds -> Seq(Nat)]
    /\ \A fd \in Fds : handled[fd] \in Seq(0..Len(sent[fd]))
    /\ conns \in 0..MaxConns /\ overtaken \in BOOLEAN
    /\ failed \in {"none", "alloc_buf", "read_body"}

\* The buffers in the lists of the slots.
Held == [fd \in Fds |-> Len(io[fd].in) + Len(io[fd].out)]

InUse == SumFunction(Held)

\* The bytes of the commands cs from the (n+1)-st on, and the replies to the
\* first n.
Stream(n, cs) == FlattenSeq([j \in 1..(Len(cs) - n) |-> Text(n + j, cs[n + j])])

Answers(n, cs) == FlattenSeq([j \in 1..n |-> [i \in 1..cs[j].reply |-> <<j, i>>]])

\* In the following s is the slot of a connection, w its wire, hs and cs are
\* the commands handled and sent, g what the client has got, a is the worker.
InOrder(hs, cs) == Len(hs) <= Len(cs) /\ \A j \in 1..Len(hs) : hs[j] = j

\* The first command not handled has been measured: its header has arrived.
Known(s, hs, cs) ==
    /\ Len(hs) + 1 <= Len(cs)
    /\ s.hlen = cs[Len(hs) + 1].head /\ s.blen = cs[Len(hs) + 1].body
    /\ s.write = cs[Len(hs) + 1].write
    /\ cs[Len(hs) + 1].head + 2 <= Len(Bytes(s.in))

Unknown(s) == s.hlen = 0 /\ s.blen = -1

Unlost(s, w, hs, cs) ==
    /\ Bytes(s.in) \o w = Stream(Len(hs), cs)
    /\ s.inLen = Len(Bytes(s.in))
    /\ Known(s, hs, cs) \/ Unknown(s)

Answered(s, g, hs, cs) == g \o Bytes(s.out) = Answers(Len(hs), cs)

\* What waits in the receive list is less than a command.
Partial(s, hs, cs) ==
    Len(hs) + 1 <= Len(cs) => Len(Bytes(s.in)) < Length(cs[Len(hs) + 1])

\* A slot that nobody uses, and one that will be like it once it is released.
Empty(s) == s.in = << >> /\ s.out = << >> /\ s.inLen = 0

Ending(s, quit) ==
    \/ s.in # << >>
    \/ ~quit /\ s.inLen = 0
    \/ quit /\ ~s.write /\ s.blen >= 0 /\ s.inLen = s.hlen + s.blen + 2

Served(a, fd) == a.pc \in {"input", "measured"} /\ a.fd = fd

AtCommand(a, fd) == a.pc = "measured" /\ a.fd = fd

Emptying(a, fd) == a.pc = "closing" /\ a.fd = fd

Sound(fd) ==
    /\ InOrder(handled[fd], sent[fd])
    /\ Connected(fd) => Unlost(io[fd], wire[fd], handled[fd], sent[fd])
    /\ Connected(fd) /\ peer[fd] # "rst" => Answered(io[fd], got[fd], handled[fd], sent[fd])
    /\ Connected(fd) => Served(at, fd) \/ Partial(io[fd], handled[fd], sent[fd])
    /\ AtCommand(at, fd) => Connected(fd) /\ Known(io[fd], handled[fd], sent[fd])
    /\ ~Connected(fd) /\ ~Emptying(at, fd) => Empty(io[fd])
    /\ Emptying(at, fd) => ~Connected(fd) /\ Ending(io[fd], at.quit)

\* The worker serves nobody, or somebody: it has one place at a time.
ConnInv ==
    /\ Types
    /\ pool + InUse <= PoolSize
    /\ failed = "read_body" => overtaken
    /\ ~overtaken => pool + InUse = PoolSize /\ \A fd \in Fds : Sound(fd)

-----------------------------------------------------------------------------
(* The bytes of a stream of commands and of their replies.                 *)

LEMMA TextIs ==
    ASSUME NEW n \in Nat, NEW c \in Commands
    PROVE  /\ c \in Command /\ c.head > 0 /\ c.body <= ValueLimit /\ c.nl <= c.body
           /\ Length(c) \in Nat /\ c.head + 2 <= Length(c)
           /\ c.write => Length(c) = c.head + 2 + c.body + 2
           /\ ~c.write => c.body = 0 /\ Length(c) = c.head + 2
           /\ c.quit => ~c.write
           /\ Text(n, c) \in Seq(Byte) /\ Len(Text(n, c)) = Length(c)
           /\ \A i \in 1..Length(c) : Text(n, c)[i] = <<n, i>>
<1>1. /\ c \in Command /\ c.head > 0 /\ c.body <= ValueLimit /\ c.nl <= c.body
      /\ ~c.write => c.body = 0
      /\ c.quit => ~c.write
    BY CommandsAssumption
<1>2. /\ Length(c) \in Nat /\ c.head + 2 <= Length(c)
      /\ c.write => Length(c) = c.head + 2 + c.body + 2
      /\ ~c.write => Length(c) = c.head + 2
    BY <1>1 DEF Length, Command
<1>3. PICK l \in Nat : l = Length(c)
    BY <1>2
<1>4. [i \in 1..l |-> <<n, i>>] \in [1..l -> Byte]
    BY DEF Byte
<1>5. PICK t \in [1..l -> Byte] : t = [i \in 1..l |-> <<n, i>>]
    BY <1>4
<1>6. t \in Seq(Byte) /\ Len(t) = l
    BY FcnSeq
<1>7. t = Text(n, c)
    BY <1>3, <1>5 DEF Text
<1> QED
    BY <1>1, <1>2, <1>3, <1>5, <1>6, <1>7

\* The texts of the commands from the (n+1)-st on, and the replies.
Texts(n, cs) == [j \in 1..(Len(cs) - n) |-> Text(n + j, cs[n + j])]

ReplyTo(j, c) == [i \in 1..c.reply |-> <<j, i>>]

ReplyTexts(n, cs) == [j \in 1..n |-> ReplyTo(j, cs[j])]

LEMMA TextsIs ==
    ASSUME NEW cs \in Seq(Commands), NEW n \in Nat, n <= Len(cs)
    PROVE  /\ Texts(n, cs) \in Seq(Seq(Byte)) /\ Len(Texts(n, cs)) = Len(cs) - n
           /\ Stream(n, cs) = FlattenSeq(Texts(n, cs)) /\ Stream(n, cs) \in Seq(Byte)
<1>1. PICK m \in Nat : m = Len(cs) - n
    <2>1. Len(cs) \in Nat
        BY LenProperties
    <2> QED BY <2>1
<1>2. ASSUME NEW j \in 1..m PROVE Text(n + j, cs[n + j]) \in Seq(Byte)
    <2>1. Len(cs) \in Nat
        BY LenProperties
    <2>2. n + j \in 1..Len(cs)
        BY <1>1, <2>1
    <2>3. PICK k \in Nat, c \in Commands : k = n + j /\ c = cs[n + j]
        BY <2>2, ElementOfSeq
    <2>4. Text(k, c) \in Seq(Byte)
        BY TextIs
    <2> QED BY <2>3, <2>4
<1>3. PICK t \in [1..m -> Seq(Byte)] : t = [j \in 1..m |-> Text(n + j, cs[n + j])]
    BY <1>2
<1>4. t \in Seq(Seq(Byte)) /\ Len(t) = m
    BY FcnSeq
<1>5. t = Texts(n, cs)
    BY <1>1, <1>3 DEF Texts
<1>6. FlattenSeq(t) \in Seq(Byte)
    BY <1>4, FlattenType
<1> QED
    BY <1>1, <1>4, <1>5, <1>6 DEF Texts, Stream

\* A command that is sent comes last.
LEMMA StreamSend ==
    ASSUME NEW cs \in Seq(Commands), NEW n \in Nat, n <= Len(cs), NEW c \in Commands
    PROVE  Stream(n, Append(cs, c)) = Stream(n, cs) \o Text(Len(cs) + 1, c)
<1>1. PICK l \in Nat : l = Len(cs)
    BY LenProperties
<1>2. PICK ds \in Seq(Commands) : ds = Append(cs, c)
    BY AppendProperties
<1>3. /\ Len(ds) = l + 1 /\ ds[l + 1] = c
      /\ \A i \in 1..l : ds[i] = cs[i]
    BY <1>1, <1>2, AppendProperties
<1>4. n <= Len(ds)
    BY <1>1, <1>3
<1>5. PICK t \in Seq(Byte) : t = Text(l + 1, c)
    BY <1>1, TextIs
<1>6. PICK f \in Seq(Seq(Byte)) : /\ f = Texts(n, cs) /\ Len(f) = l - n
                                  /\ Stream(n, cs) = FlattenSeq(f)
    BY <1>1, TextsIs
<1>7. PICK g \in Seq(Seq(Byte)) : /\ g = Texts(n, ds) /\ Len(g) = l + 1 - n
                                  /\ Stream(n, ds) = FlattenSeq(g)
    BY <1>3, <1>4, TextsIs
<1>8. /\ Append(f, t) \in Seq(Seq(Byte)) /\ Len(Append(f, t)) = l - n + 1
      /\ Append(f, t)[l - n + 1] = t
      /\ \A i \in 1..(l - n) : Append(f, t)[i] = f[i]
    <2>1. /\ Append(f, t) \in Seq(Seq(Byte)) /\ Len(Append(f, t)) = Len(f) + 1
          /\ Append(f, t)[Len(f) + 1] = t
          /\ \A i \in 1..Len(f) : Append(f, t)[i] = f[i]
        BY AppendProperties
    <2> QED BY <1>6, <2>1
<1>9. ASSUME NEW j \in 1..(l + 1 - n) PROVE g[j] = Append(f, t)[j]
    <2>1. g[j] = Text(n + j, ds[n + j])
        BY <1>3, <1>7 DEF Texts
    <2>2. CASE j = l - n + 1
        <3>1. n + j = l + 1
            BY <1>1, <2>2
        <3> QED BY <1>3, <1>5, <1>8, <2>1, <2>2, <3>1
    <2>3. CASE j # l - n + 1
        <3>1. j \in 1..(l - n) /\ n + j \in 1..l
            BY <1>1, <2>3
        <3>2. f[j] = Text(n + j, cs[n + j])
            BY <1>1, <1>6, <3>1 DEF Texts
        <3> QED BY <1>3, <1>8, <2>1, <3>1, <3>2
    <2> QED BY <2>2, <2>3
<1>10. g = Append(f, t)
    <2>1. Len(g) = Len(Append(f, t))
        BY <1>1, <1>7, <1>8
    <2> QED BY <1>7, <1>8, <1>9, <2>1, SeqEqual
<1> QED
    BY <1>1, <1>2, <1>5, <1>6, <1>7, <1>10, FlattenAppend

\* A command that is handled was the first.
LEMMA StreamServe ==
    ASSUME NEW cs \in Seq(Commands), NEW n \in Nat, n + 1 <= Len(cs)
    PROVE  Stream(n, cs) = Text(n + 1, cs[n + 1]) \o Stream(n + 1, cs)
<1>1. PICK l \in Nat : l = Len(cs)
    BY LenProperties
<1>2. PICK c \in Commands : c = cs[n + 1]
    <2>1. n + 1 \in 1..Len(cs)
        BY <1>1
    <2> QED BY <2>1, ElementOfSeq
<1>3. PICK t \in Seq(Byte) : t = Text(n + 1, c)
    <2>1. n + 1 \in Nat
        OBVIOUS
    <2> QED BY <2>1, TextIs
<1>4. PICK f \in Seq(Seq(Byte)) : /\ f = Texts(n + 1, cs) /\ Len(f) = l - (n + 1)
                                  /\ Stream(n + 1, cs) = FlattenSeq(f)
    <2>1. n + 1 \in Nat
        OBVIOUS
    <2> QED BY <1>1, <2>1, TextsIs
<1>5. PICK g \in Seq(Seq(Byte)) : /\ g = Texts(n, cs) /\ Len(g) = l - n
                                  /\ Stream(n, cs) = FlattenSeq(g)
    <2>1. n <= Len(cs)
        BY <1>1
    <2> QED BY <1>1, <2>1, TextsIs
<1>6. PICK one \in Seq(Seq(Byte)) : one = <<t>> /\ Len(one) = 1 /\ one[1] = t
    <2>1. <<t>> \in Seq(Seq(Byte)) /\ Len(<<t>>) = 1 /\ <<t>>[1] = t
        OBVIOUS
    <2> QED BY <2>1
<1>7. /\ one \o f \in Seq(Seq(Byte)) /\ Len(one \o f) = 1 + (l - (n + 1))
      /\ \A i \in 1..(1 + Len(f)) : (one \o f)[i] = IF i <= 1 THEN one[i] ELSE f[i - 1]
    BY <1>4, <1>6, ConcatProperties
<1>8. ASSUME NEW j \in 1..(l - n) PROVE g[j] = (one \o f)[j]
    <2>1. g[j] = Text(n + j, cs[n + j])
        BY <1>1, <1>5 DEF Texts
    <2>2. CASE j = 1
        <3>1. j \in 1..(1 + Len(f)) /\ j <= 1
            BY <1>1, <1>4, <2>2
        <3>2. (one \o f)[j] = t
            BY <1>6, <1>7, <2>2, <3>1
        <3> QED BY <1>2, <1>3, <2>1, <2>2, <3>2
    <2>3. CASE j # 1
        <3>1. j \in 1..(1 + Len(f)) /\ ~(j <= 1) /\ j - 1 \in 1..(l - (n + 1))
            BY <1>1, <1>4, <2>3
        <3>2. (one \o f)[j] = f[j - 1]
            BY <1>7, <3>1
        <3>3. f[j - 1] = Text(n + 1 + (j - 1), cs[n + 1 + (j - 1)])
            BY <1>1, <1>4, <3>1 DEF Texts
        <3>4. n + 1 + (j - 1) = n + j
            OBVIOUS
        <3> QED BY <2>1, <3>2, <3>3, <3>4
    <2> QED BY <2>2, <2>3
<1>9. g = one \o f
    <2>1. Len(g) = Len(one \o f)
        BY <1>1, <1>5, <1>7
    <2> QED BY <1>5, <1>7, <1>8, <2>1, SeqEqual
<1>10. FlattenSeq(one \o f) = t \o FlattenSeq(f)
    BY <1>6, FlattenCons, ZenonT(60)
<1> QED
    BY <1>2, <1>3, <1>4, <1>5, <1>9, <1>10

\* All that was sent has been handled.
LEMMA StreamEnd ==
    ASSUME NEW cs \in Seq(Commands)
    PROVE  Stream(Len(cs), cs) = << >>
<1>1. Len(cs) \in Nat
    BY LenProperties
<1>2. PICK f \in Seq(Seq(Byte)) : /\ Len(f) = Len(cs) - Len(cs)
                                  /\ Stream(Len(cs), cs) = FlattenSeq(f)
    BY <1>1, TextsIs
<1>3. f = << >>
    BY <1>1, <1>2, EmptySeq
<1> QED
    BY <1>2, <1>3, FlattenNil

LEMMA ReplyIs ==
    ASSUME NEW j \in Nat, NEW c \in Commands
    PROVE  ReplyTo(j, c) \in Seq(Byte) /\ Len(ReplyTo(j, c)) = c.reply
<1>1. PICK r \in Nat : r = c.reply
    BY CommandsAssumption DEF Command
<1>2. PICK t \in [1..r -> Byte] : t = [i \in 1..r |-> <<j, i>>]
    <2>1. [i \in 1..r |-> <<j, i>>] \in [1..r -> Byte]
        BY DEF Byte
    <2> QED BY <2>1
<1>3. t \in Seq(Byte) /\ Len(t) = r
    BY FcnSeq
<1> QED
    BY <1>1, <1>2, <1>3 DEF ReplyTo

LEMMA AnswersIs ==
    ASSUME NEW cs \in Seq(Commands), NEW n \in Nat, n <= Len(cs)
    PROVE  /\ ReplyTexts(n, cs) \in Seq(Seq(Byte)) /\ Len(ReplyTexts(n, cs)) = n
           /\ Answers(n, cs) = FlattenSeq(ReplyTexts(n, cs)) /\ Answers(n, cs) \in Seq(Byte)
<1>1. Len(cs) \in Nat
    BY LenProperties
<1>2. ASSUME NEW j \in 1..n PROVE ReplyTo(j, cs[j]) \in Seq(Byte)
    <2>1. PICK c \in Commands : c = cs[j]
        BY <1>1, ElementOfSeq
    <2>2. j \in Nat
        OBVIOUS
    <2> QED BY <2>1, <2>2, ReplyIs
<1>3. PICK t \in [1..n -> Seq(Byte)] : t = [j \in 1..n |-> ReplyTo(j, cs[j])]
    BY <1>2
<1>4. t \in Seq(Seq(Byte)) /\ Len(t) = n
    BY FcnSeq
<1>5. t = ReplyTexts(n, cs)
    BY <1>3 DEF ReplyTexts
<1>6. FlattenSeq(t) \in Seq(Byte)
    BY <1>4, FlattenType
<1> QED
    BY <1>4, <1>5, <1>6 DEF ReplyTexts, Answers, ReplyTo

\* A reply comes behind those before it.
LEMMA AnswersNext ==
    ASSUME NEW cs \in Seq(Commands), NEW n \in Nat, n + 1 <= Len(cs)
    PROVE  Answers(n + 1, cs) = Answers(n, cs) \o ReplyTo(n + 1, cs[n + 1])
<1>1. PICK c \in Commands : c = cs[n + 1]
    <2>1. Len(cs) \in Nat
        BY LenProperties
    <2>2. n + 1 \in 1..Len(cs)
        BY <2>1
    <2> QED BY <2>2, ElementOfSeq
<1>2. PICK t \in Seq(Byte) : t = ReplyTo(n + 1, c)
    BY ReplyIs
<1>3. n <= Len(cs)
    BY LenProperties
<1>4. PICK f \in Seq(Seq(Byte)) : /\ f = ReplyTexts(n, cs) /\ Len(f) = n
                                  /\ Answers(n, cs) = FlattenSeq(f)
    BY <1>3, AnswersIs
<1>5. PICK g \in Seq(Seq(Byte)) : /\ g = ReplyTexts(n + 1, cs) /\ Len(g) = n + 1
                                  /\ Answers(n + 1, cs) = FlattenSeq(g)
    BY AnswersIs
<1>6. /\ Append(f, t) \in Seq(Seq(Byte)) /\ Len(Append(f, t)) = n + 1
      /\ Append(f, t)[n + 1] = t
      /\ \A i \in 1..n : Append(f, t)[i] = f[i]
    <2>1. /\ Append(f, t) \in Seq(Seq(Byte)) /\ Len(Append(f, t)) = Len(f) + 1
          /\ Append(f, t)[Len(f) + 1] = t
          /\ \A i \in 1..Len(f) : Append(f, t)[i] = f[i]
        BY AppendProperties
    <2> QED BY <1>4, <2>1
<1>7. ASSUME NEW j \in 1..(n + 1) PROVE g[j] = Append(f, t)[j]
    <2>1. g[j] = ReplyTo(j, cs[j])
        BY <1>5 DEF ReplyTexts
    <2>2. CASE j = n + 1
        BY <1>1, <1>2, <1>6, <2>1, <2>2
    <2>3. CASE j # n + 1
        <3>1. j \in 1..n
            BY <2>3
        <3>2. f[j] = ReplyTo(j, cs[j])
            BY <1>4, <3>1 DEF ReplyTexts
        <3> QED BY <1>6, <2>1, <3>1, <3>2
    <2> QED BY <2>2, <2>3
<1>8. g = Append(f, t)
    BY <1>5, <1>6, <1>7, SeqEqual
<1> QED
    BY <1>1, <1>2, <1>4, <1>5, <1>8, FlattenAppend

\* What is sent later does not change what is owed.
LEMMA AnswersSend ==
    ASSUME NEW cs \in Seq(Commands), NEW n \in Nat, n <= Len(cs), NEW c \in Commands
    PROVE  Answers(n, Append(cs, c)) = Answers(n, cs)
<1>1. PICK ds \in Seq(Commands) : ds = Append(cs, c)
    BY AppendProperties
<1>2. Len(ds) = Len(cs) + 1 /\ \A i \in 1..Len(cs) : ds[i] = cs[i]
    BY <1>1, AppendProperties
<1>3. Len(cs) \in Nat
    BY LenProperties
<1>4. n <= Len(ds)
    BY <1>2, <1>3
<1>5. ReplyTexts(n, ds) = ReplyTexts(n, cs)
    BY <1>2, <1>3 DEF ReplyTexts
<1>6. Answers(n, cs) = FlattenSeq(ReplyTexts(n, cs))
    BY AnswersIs
<1>7. Answers(n, ds) = FlattenSeq(ReplyTexts(n, ds))
    BY <1>4, AnswersIs
<1> QED
    BY <1>1, <1>5, <1>6, <1>7

LEMMA AnswersNone ==
    ASSUME NEW cs \in Seq(Commands)
    PROVE  Answers(0, cs) = << >>
<1>1. 0 <= Len(cs)
    BY LenProperties
<1>2. PICK f \in Seq(Seq(Byte)) : Len(f) = 0 /\ Answers(0, cs) = FlattenSeq(f)
    BY <1>1, AnswersIs
<1>3. f = << >>
    BY <1>2, EmptySeq
<1> QED
    BY <1>2, <1>3, FlattenNil

-----------------------------------------------------------------------------
(* What the worker reads of a stream that arrives in pieces.               *)

\* bytes have arrived of a stream whose first command is the (n+1)-st, w not.
LEMMA FirstBytes ==
    ASSUME NEW bytes \in Seq(Byte), NEW w \in Seq(Byte), NEW cs \in Seq(Commands),
           NEW n \in Nat, n + 1 <= Len(cs), bytes \o w = Stream(n, cs)
    PROVE  /\ cs[n + 1] \in Commands
           /\ \A i \in 1..Len(bytes) : i <= Length(cs[n + 1]) => bytes[i] = <<n + 1, i>>
           /\ Length(cs[n + 1]) <= Len(bytes) =>
                 SubSeq(bytes, Length(cs[n + 1]) + 1, Len(bytes)) \o w = Stream(n + 1, cs)
<1>1. PICK m \in Nat : m = n + 1
    OBVIOUS
<1>2. PICK c \in Commands : c = cs[m]
    <2>1. Len(cs) \in Nat
        BY LenProperties
    <2>2. m \in 1..Len(cs)
        BY <1>1, <2>1
    <2> QED BY <2>2, ElementOfSeq
<1>3. PICK t \in Seq(Byte), l \in Nat :
         t = Text(m, c) /\ l = Length(c) /\ Len(t) = l /\ \A i \in 1..l : t[i] = <<m, i>>
    <2>1. /\ Text(m, c) \in Seq(Byte) /\ Length(c) \in Nat /\ Len(Text(m, c)) = Length(c)
          /\ \A i \in 1..Length(c) : Text(m, c)[i] = <<m, i>>
        BY TextIs
    <2> QED BY <2>1
<1>4. PICK r \in Seq(Byte) : r = Stream(m, cs)
    <2>1. m <= Len(cs)
        BY <1>1
    <2> QED BY <2>1, TextsIs
<1>5. bytes \o w = t \o r
    BY <1>1, <1>2, <1>3, <1>4, StreamServe
<1>6. ASSUME NEW i \in 1..Len(bytes), i <= l PROVE bytes[i] = <<m, i>>
    <2>1. /\ Len(bytes) \in Nat /\ Len(w) \in Nat /\ Len(r) \in Nat /\ Len(t) \in Nat
        BY LenProperties
    <2>2. /\ \A k \in 1..(Len(bytes) + Len(w)) :
                (bytes \o w)[k] = IF k <= Len(bytes) THEN bytes[k] ELSE w[k - Len(bytes)]
          /\ \A k \in 1..(Len(t) + Len(r)) :
                (t \o r)[k] = IF k <= Len(t) THEN t[k] ELSE r[k - Len(t)]
        BY ConcatProperties
    <2>3. i \in 1..(Len(bytes) + Len(w)) /\ i <= Len(bytes)
        BY <2>1
    <2>4. i \in 1..(Len(t) + Len(r)) /\ i <= Len(t) /\ i \in 1..l
        BY <1>3, <1>6, <2>1
    <2>5. (bytes \o w)[i] = bytes[i]
        BY <2>2, <2>3
    <2>6. (t \o r)[i] = t[i]
        BY <2>2, <2>4
    <2> QED BY <1>3, <1>5, <2>4, <2>5, <2>6
<1>7. ASSUME l <= Len(bytes) PROVE SubSeq(bytes, l + 1, Len(bytes)) \o w = r
    <2>1. l \in 0..Len(bytes) /\ 0 \in 0..Len(r) /\ l + 0 + 1 = l + 1 /\ 0 + 1 = 1
        BY <1>7, LenProperties
    <2>2. SubSeq(bytes \o w, l + 1, Len(bytes \o w)) = SubSeq(bytes, l + 1, Len(bytes)) \o w
        BY <2>1, RestOfFirst
    <2>3. SubSeq(t \o r, Len(t) + 0 + 1, Len(t \o r)) = SubSeq(r, 0 + 1, Len(r))
        BY <2>1, RestOfSecond
    <2>4. SubSeq(t \o r, l + 1, Len(t \o r)) = SubSeq(r, 1, Len(r))
        BY <1>3, <2>1, <2>3
    <2>5. SubSeq(r, 1, Len(r)) = r
        BY SubSeqFull
    <2> QED BY <1>5, <2>2, <2>4, <2>5
<1> QED
    BY <1>1, <1>2, <1>3, <1>4, <1>6, <1>7

\* The first line break is the one that ends the first command's header,
\* whatever its body contains and whatever follows it.
LEMMA FirstLine ==
    ASSUME NEW fd \in Fds, NEW bytes \in Seq(Byte), NEW w \in Seq(Byte),
           NEW cs \in Seq(Commands), cs = sent[fd],
           NEW n \in Nat, n + 1 <= Len(cs), bytes \o w = Stream(n, cs)
    PROVE  /\ Newlines(fd, bytes) # {} =>
                 /\ Min(Newlines(fd, bytes)) = cs[n + 1].head + 2
                 /\ cs[n + 1].head + 2 <= Len(bytes)
           /\ Newlines(fd, bytes) = {} => Len(bytes) < cs[n + 1].head + 2
<1>1. PICK m \in Nat, c \in Commands : m = n + 1 /\ c = cs[m]
    BY FirstBytes
<1>2. PICK h \in Nat, l \in Nat :
         h = c.head + 2 /\ l = Length(c) /\ h <= l /\ c.head \in Nat /\ c.nl \in Nat
    <2>1. c.head \in Nat /\ c.nl \in Nat /\ Length(c) \in Nat /\ c.head + 2 <= Length(c)
        BY TextIs DEF Command
    <2>2. c.head + 2 \in Nat
        BY <2>1
    <2> QED BY <2>1, <2>2
<1>3. \A i \in 1..Len(bytes) : i <= l => bytes[i] = <<m, i>>
    <2>1. \A i \in 1..Len(bytes) : i <= Length(cs[n + 1]) => bytes[i] = <<n + 1, i>>
        BY FirstBytes
    <2> QED BY <1>1, <1>2, <2>1
<1>4. Len(bytes) \in Nat
    BY LenProperties
<1>5. ASSUME NEW i \in 1..Len(bytes), i <= l, IsNewline(fd, bytes[i]) PROVE h <= i
    <2>1. bytes[i] = <<m, i>>
        BY <1>3, <1>5
    <2>2. i \in {h, l} \/ (c.nl > 0 /\ i = h + c.nl)
        BY <1>1, <1>2, <1>5, <2>1 DEF IsNewline
    <2> QED BY <1>2, <1>4, <2>2, SMTT(40)
<1>6. h <= Len(bytes) => h \in Newlines(fd, bytes)
    <2>1. ASSUME h <= Len(bytes) PROVE h \in Newlines(fd, bytes)
        <3>1. h \in 1..Len(bytes)
            BY <1>2, <1>4, <2>1
        <3>2. bytes[h] = <<m, h>>
            BY <1>2, <1>3, <3>1
        <3>3. IsNewline(fd, bytes[h])
            BY <1>1, <1>2, <3>2 DEF IsNewline
        <3> QED BY <3>1, <3>3 DEF Newlines
    <2> QED BY <2>1
<1>7. ASSUME Newlines(fd, bytes) # {}
      PROVE  Min(Newlines(fd, bytes)) = h /\ h <= Len(bytes)
    <2>1. Newlines(fd, bytes) \subseteq 1..Len(bytes)
        BY DEF Newlines
    <2>2. Newlines(fd, bytes) \subseteq Nat
        BY <1>4, <2>1
    <2>3. PICK i : i = Min(Newlines(fd, bytes))
        OBVIOUS
    <2>4. i \in Newlines(fd, bytes) /\ \A y \in Newlines(fd, bytes) : i <= y
        BY <1>7, <2>2, <2>3, MinIsLeast
    <2>5. i \in 1..Len(bytes) /\ IsNewline(fd, bytes[i])
        BY <2>4 DEF Newlines
    <2>6. h <= i
        BY <1>2, <1>4, <1>5, <2>5
    <2>7. h <= Len(bytes)
        BY <1>4, <2>5, <2>6
    <2>8. i <= h
        BY <1>6, <2>4, <2>7
    <2> QED BY <1>4, <2>3, <2>5, <2>6, <2>7, <2>8
<1>8. ASSUME Newlines(fd, bytes) = {} PROVE Len(bytes) < h
    BY <1>4, <1>6, <1>8
<1> QED
    BY <1>1, <1>2, <1>7, <1>8

\* A header that has arrived is recognised as that of the command it is of.
LEMMA ParsedIs ==
    ASSUME NEW fd \in Fds, NEW bytes \in Seq(Byte), NEW w \in Seq(Byte),
           NEW cs \in Seq(Commands), cs = sent[fd], bytes = Bytes(io[fd].in),
           NEW n \in Nat, n + 1 <= Len(cs), bytes \o w = Stream(n, cs),
           cs[n + 1].head <= Len(bytes)
    PROVE  Parsed(fd, cs[n + 1].head) = n + 1
<1>1. PICK m \in Nat, c \in Commands : m = n + 1 /\ c = cs[m]
    BY FirstBytes
<1>2. Len(bytes) \in Nat /\ Len(cs) \in Nat
    BY LenProperties
<1>3. PICK h \in Nat, l \in Nat : h = c.head /\ h > 0 /\ l = Length(c) /\ h + 2 <= l
    <2>1. c.head \in Nat /\ c.head > 0 /\ Length(c) \in Nat /\ c.head + 2 <= Length(c)
        BY TextIs DEF Command
    <2> QED BY <2>1
<1>4. \A i \in 1..Len(bytes) : i <= l => bytes[i] = <<m, i>>
    <2>1. \A i \in 1..Len(bytes) : i <= Length(cs[n + 1]) => bytes[i] = <<n + 1, i>>
        BY FirstBytes, ZenonT(60)
    <2> QED BY <1>1, <1>3, <2>1
<1>5. PICK hd \in Seq(Byte) : /\ hd = SubSeq(bytes, 1, h) /\ Len(hd) = h
                              /\ \A i \in 1..h : hd[i] = bytes[i]
    <2>1. h \in 0..Len(bytes)
        BY <1>1, <1>2, <1>3
    <2> QED BY <2>1, Split
<1>6. Header(fd, h) = hd
    BY <1>5 DEF Header
<1>7. \A i \in 1..h : hd[i] = <<m, i>>
    <2>1. ASSUME NEW i \in 1..h PROVE hd[i] = <<m, i>>
        <3>1. i \in 1..Len(bytes) /\ i <= l
            BY <1>1, <1>2, <1>3, SMTT(40)
        <3> QED BY <1>4, <1>5, <3>1
    <2> QED BY <2>1
<1> DEFINE P == {k \in 1..Len(cs) : hd = SubSeq(Text(k, cs[k]), 1, cs[k].head)}
<1>8. ASSUME NEW k \in 1..Len(cs)
      PROVE  \E d \in Commands, u \in Seq(Byte) :
                /\ d = cs[k] /\ u = SubSeq(Text(k, d), 1, d.head) /\ Len(u) = d.head
                /\ d.head \in Nat /\ d.head > 0
                /\ \A i \in 1..d.head : u[i] = <<k, i>>
    <2>1. PICK j \in Nat, d \in Commands : j = k /\ d = cs[k]
        BY ElementOfSeq, SMTT(40)
    <2>2. PICK t \in Seq(Byte) : t = Text(j, d) /\ Len(t) = Length(d)
                                 /\ \A i \in 1..Length(d) : t[i] = <<j, i>>
        BY TextIs
    <2>3. d.head \in Nat /\ d.head > 0 /\ Length(d) \in Nat /\ d.head + 2 <= Length(d)
        BY TextIs DEF Command
    <2>4. d.head \in 0..Len(t)
        BY <2>2, <2>3
    <2>5. PICK u \in Seq(Byte) : /\ u = SubSeq(t, 1, d.head) /\ Len(u) = d.head
                                 /\ \A i \in 1..d.head : u[i] = t[i]
        <3>1. /\ SubSeq(t, 1, d.head) \in Seq(Byte) /\ Len(SubSeq(t, 1, d.head)) = d.head
              /\ \A i \in 1..d.head : SubSeq(t, 1, d.head)[i] = t[i]
            BY <2>4, Split
        <3> QED BY <3>1
    <2>6. \A i \in 1..d.head : u[i] = <<j, i>>
        <3>1. PICK e \in Nat, z \in Nat : e = d.head /\ z = Length(d) /\ e + 2 <= z
            BY <2>3
        <3>2. \A i \in 1..e : i \in 1..z
            BY <3>1
        <3>3. \A i \in 1..z : t[i] = <<j, i>>
            BY <2>2, <3>1
        <3>4. \A i \in 1..e : u[i] = t[i]
            BY <2>5, <3>1
        <3> QED BY <3>1, <3>2, <3>3, <3>4
    <2> QED BY <2>1, <2>2, <2>3, <2>5, <2>6
<1>9. m \in P
    <2>1. m \in 1..Len(cs)
        BY <1>1, <1>2
    <2>2. PICK d \in Commands, u \in Seq(Byte) :
             /\ d = cs[m] /\ u = SubSeq(Text(m, d), 1, d.head) /\ Len(u) = d.head
             /\ \A i \in 1..d.head : u[i] = <<m, i>>
        BY <1>8, <2>1
    <2>3. d.head = h
        BY <1>1, <1>3, <2>2
    <2>4. Len(hd) = Len(u) /\ Len(hd) = h /\ \A i \in 1..h : hd[i] = u[i]
        BY <1>5, <1>7, <2>2, <2>3
    <2>5. hd = u
        BY <2>4, SeqEqual
    <2> QED BY <2>1, <2>2, <2>5
<1>10. ASSUME NEW k \in P PROVE k = m
    <2>1. k \in 1..Len(cs) /\ hd = SubSeq(Text(k, cs[k]), 1, cs[k].head)
        OBVIOUS
    <2>2. PICK d \in Commands, u \in Seq(Byte) :
             /\ d = cs[k] /\ u = SubSeq(Text(k, d), 1, d.head) /\ Len(u) = d.head
             /\ d.head \in Nat /\ d.head > 0
             /\ \A i \in 1..d.head : u[i] = <<k, i>>
        BY <1>8, <2>1
    <2>3. u = hd
        BY <2>1, <2>2
    <2>4. 1 \in 1..d.head /\ 1 \in 1..h
        <3>1. \A i \in Nat : i > 0 => 1 \in 1..i
            OBVIOUS
        <3> QED BY <1>3, <2>2, <3>1
    <2>5. u[1] = <<k, 1>> /\ hd[1] = <<m, 1>>
        BY <1>7, <2>2, <2>4
    <2> QED BY <2>3, <2>5
<1>11. {0} \cup P = {0, m}
    BY <1>9, <1>10
<1>12. Parsed(fd, h) = Max({0} \cup P)
    BY <1>6 DEF Parsed
<1>13. Max({0, m}) \in {0, m} /\ Max({0, m}) >= m
    <2>1. PICK z \in Int, y \in Int : z = 0 /\ y = m
        OBVIOUS
    <2>2. Max({z, y}) \in {z, y} /\ Max({z, y}) >= z /\ Max({z, y}) >= y
        BY MaxOfTwo
    <2> QED BY <2>1, <2>2
<1>14. Max({0, m}) = m
    BY <1>1, <1>13
<1> QED
    BY <1>1, <1>3, <1>11, <1>12, <1>14

\* In any case what is recognised is a command that was sent, or none.
LEMMA ParsedType ==
    ASSUME NEW fd \in Fds, NEW cs \in Seq(Commands), cs = sent[fd], NEW h
    PROVE  Parsed(fd, h) \in 0..Len(cs)
<1> DEFINE P == {k \in 1..Len(cs) :
                    Header(fd, h) = SubSeq(Text(k, cs[k]), 1, cs[k].head)}
<1>1. Parsed(fd, h) = Max({0} \cup P)
    BY DEF Parsed
<1>2. PICK l \in Nat : l = Len(cs)
    BY LenProperties
<1>3. PICK T : T = {0} \cup P
    OBVIOUS
<1>4. T \subseteq 0..l /\ T # {}
    BY <1>2, <1>3
<1>5. Max(T) \in T
    BY <1>4, MaxIsGreatest
<1> QED
    BY <1>1, <1>2, <1>3, <1>4, <1>5

\* A command that has arrived whole is read with its own header and body.
LEMMA PrefixIs ==
    ASSUME NEW bytes \in Seq(Byte), NEW w \in Seq(Byte), NEW cs \in Seq(Commands),
           NEW n \in Nat, n + 1 <= Len(cs), bytes \o w = Stream(n, cs),
           Length(cs[n + 1]) <= Len(bytes)
    PROVE  IsPrefix(SubSeq(Text(n + 1, cs[n + 1]), 1, Length(cs[n + 1]) - 2), bytes)
<1>1. PICK m \in Nat, c \in Commands : m = n + 1 /\ c = cs[m]
    BY FirstBytes
<1>2. Len(bytes) \in Nat
    BY LenProperties
<1>3. PICK l \in Nat, k \in Nat : l = Length(c) /\ k = l - 2
    <2>1. c.head \in Nat /\ Length(c) \in Nat /\ c.head + 2 <= Length(c)
        BY TextIs DEF Command
    <2>2. Length(c) - 2 \in Nat
        BY <2>1
    <2> QED BY <2>1, <2>2
<1>4. \A i \in 1..Len(bytes) : i <= l => bytes[i] = <<m, i>>
    <2>1. \A i \in 1..Len(bytes) : i <= Length(cs[n + 1]) => bytes[i] = <<n + 1, i>>
        BY FirstBytes
    <2> QED BY <1>1, <1>3, <2>1
<1>5. PICK t \in Seq(Byte) : t = Text(m, c) /\ Len(t) = l /\ \A i \in 1..l : t[i] = <<m, i>>
    BY <1>3, TextIs
<1>6. PICK p \in Seq(Byte) : p = SubSeq(t, 1, k) /\ Len(p) = k /\ \A i \in 1..k : p[i] = t[i]
    <2>1. k \in 0..Len(t)
        BY <1>3, <1>5
    <2>2. /\ SubSeq(t, 1, k) \in Seq(Byte) /\ Len(SubSeq(t, 1, k)) = k
          /\ \A i \in 1..k : SubSeq(t, 1, k)[i] = t[i]
        BY <2>1, Split
    <2> QED BY <2>2
<1>7. PICK q \in Seq(Byte) : /\ q = SubSeq(bytes, 1, k) /\ Len(q) = k
                             /\ \A i \in 1..k : q[i] = bytes[i]
    <2>1. k \in 0..Len(bytes)
        BY <1>1, <1>2, <1>3
    <2>2. /\ SubSeq(bytes, 1, k) \in Seq(Byte) /\ Len(SubSeq(bytes, 1, k)) = k
          /\ \A i \in 1..k : SubSeq(bytes, 1, k)[i] = bytes[i]
        BY <2>1, Split
    <2> QED BY <2>2
<1>8. ASSUME NEW i \in 1..k PROVE p[i] = q[i]
    <2>1. i \in 1..l /\ i \in 1..Len(bytes) /\ i <= l
        BY <1>1, <1>2, <1>3, SMTT(40)
    <2> QED BY <1>4, <1>5, <1>6, <1>7, <2>1
<1>9. p = q
    BY <1>6, <1>7, <1>8, SeqEqual
<1>10. SubSeq(p, 1, Len(p)) = p
    BY SubSeqFull
<1>11. IsPrefix(p, bytes)
    BY <1>1, <1>2, <1>3, <1>6, <1>7, <1>9, <1>10, SMTT(40) DEF IsPrefix
<1> QED
    BY <1>1, <1>3, <1>5, <1>6, <1>11

-----------------------------------------------------------------------------
(* What the operations make of a slot.                                     *)

LEMMA SlotIs ==
    ASSUME NEW s \in GoodSlot
    PROVE  /\ s.in \in Seq(Seq(Byte)) /\ s.out \in Seq(Seq(Byte))
           /\ Filled(s.in, Unit) /\ Proper(s.out)
           /\ s.inLen \in Nat /\ s.hlen \in Nat /\ s.blen \in -1..ValueLimit /\ s.write \in BOOLEAN
           /\ Bytes(s.in) \in Seq(Byte) /\ Len(Bytes(s.in)) \in Nat /\ Bytes(s.out) \in Seq(Byte)
           /\ Len(s.in) \in Nat /\ Len(s.out) \in Nat
<1>1. /\ s.in \in Seq(Seq(Byte)) /\ s.out \in Seq(Seq(Byte))
      /\ Filled(s.in, Unit) /\ Proper(s.out)
      /\ s.inLen \in Nat /\ s.hlen \in Nat /\ s.blen \in -1..ValueLimit /\ s.write \in BOOLEAN
    BY DEF GoodSlot, Slot
<1>2. Bytes(s.in) \in Seq(Byte) /\ Bytes(s.out) \in Seq(Byte)
    BY <1>1, FlattenType DEF Bytes
<1>3. Len(s.in) \in Nat /\ Len(s.out) \in Nat /\ Len(Bytes(s.in)) \in Nat
    BY <1>1, <1>2, LenProperties
<1> QED
    BY <1>1, <1>2, <1>3

\* A slot with another receive list, or another send list.
LEMMA SlotWith ==
    ASSUME NEW s \in GoodSlot, NEW in \in Seq(Seq(Byte)), Filled(in, Unit),
           NEW out \in Seq(Seq(Byte)), Proper(out), NEW n \in Nat
    PROVE  /\ [s EXCEPT !.in = in] \in GoodSlot /\ [s EXCEPT !.out = out] \in GoodSlot
           /\ [s EXCEPT !.in = in, !.inLen = n] \in GoodSlot
           /\ [s EXCEPT !.in = in, !.out = out] \in GoodSlot
           /\ [s EXCEPT !.in = in, !.out = out, !.inLen = n] \in GoodSlot
BY DEF GoodSlot, Slot

LEMMA FilledAppend ==
    ASSUME NEW S, NEW list \in Seq(Seq(S)), NEW u \in Nat, Filled(list, u),
           NEW buf \in Seq(S), Len(buf) <= u
    PROVE  /\ Append(list, buf) \in Seq(Seq(S)) /\ Filled(Append(list, buf), u)
           /\ Append(list, buf) # << >> /\ Len(Append(list, buf)) = Len(list) + 1
           /\ Bytes(Append(list, buf)) = Bytes(list) \o buf
<1>1. /\ Append(list, buf) \in Seq(Seq(S)) /\ Len(Append(list, buf)) = Len(list) + 1
      /\ Append(list, buf)[Len(list) + 1] = buf
      /\ \A i \in 1..Len(list) : Append(list, buf)[i] = list[i]
    BY AppendProperties
<1>2. Len(list) \in Nat
    BY LenProperties
<1>3. ASSUME NEW i \in 1..(Len(list) + 1) PROVE Len(Append(list, buf)[i]) <= u
    <2>1. CASE i = Len(list) + 1
        BY <1>1, <2>1
    <2>2. CASE i # Len(list) + 1
        <3>1. i \in 1..Len(list)
            BY <1>2, <2>2
        <3> QED BY <1>1, <3>1 DEF Filled
    <2> QED BY <2>1, <2>2
<1>4. Filled(Append(list, buf), u)
    BY <1>1, <1>3 DEF Filled
<1>5. Append(list, buf) # << >>
    <2>1. PICK v \in Seq(Seq(S)) : v = Append(list, buf) /\ Len(v) = Len(list) + 1
        BY <1>1
    <2>2. v # << >>
        BY <1>2, <2>1, EmptySeq
    <2> QED BY <2>1, <2>2
<1>6. FlattenSeq(Append(list, buf)) = FlattenSeq(list) \o buf
    BY FlattenAppend
<1> QED
    BY <1>1, <1>4, <1>5, <1>6 DEF Bytes

\* fix_buf_len takes the length of the command from in_buf_len.
LEMMA FixedIs ==
    ASSUME NEW s \in GoodSlot, NEW n \in Int,
           n = s.hlen + s.blen + IF s.write THEN 4 ELSE 2
    PROVE  /\ Fixed(s) \in GoodSlot /\ Fixed(s).in = s.in /\ Fixed(s).out = s.out
           /\ Unknown(Fixed(s))
           /\ Fixed(s).inLen = IF n <= s.inLen THEN s.inLen - n ELSE 0
<1>1. PICK z \in Int, d \in Int : z = 0 /\ d = s.inLen - n
    <2>1. s.inLen - n \in Int
        BY SlotIs
    <2> QED BY <2>1
<1>2. PICK m : m = Max({z, d})
    OBVIOUS
<1>3. m \in {z, d} /\ m >= z /\ m >= d
    BY <1>2, MaxOfTwo
<1>4. m \in Nat /\ m = IF n <= s.inLen THEN s.inLen - n ELSE 0
    <2>1. s.inLen \in Nat
        BY SlotIs
    <2> QED BY <1>1, <1>3, <2>1
<1>5. Fixed(s) = [s EXCEPT !.hlen = 0, !.blen = -1, !.inLen = m]
    BY <1>1, <1>2 DEF Fixed
<1>6. 0 \in Nat /\ -1 \in -1..ValueLimit
    BY SizesAssumption
<1>7. s \in Slot /\ Filled(s.in, Unit) /\ Proper(s.out)
    BY DEF GoodSlot
<1>8. /\ Fixed(s) \in Slot /\ Fixed(s).in = s.in /\ Fixed(s).out = s.out
      /\ Fixed(s).hlen = 0 /\ Fixed(s).blen = -1 /\ Fixed(s).inLen = m
    BY <1>4, <1>5, <1>6, <1>7 DEF Slot
<1> QED
    BY <1>4, <1>7, <1>8 DEF GoodSlot, Unknown

\* What is left when a header, or a command, is taken out of a list.
LEMMA AfterIs ==
    ASSUME NEW s \in GoodSlot
    PROVE  /\ AfterHeader(s) \in Seq(Seq(Byte)) /\ Filled(AfterHeader(s), Unit)
           /\ AfterCommand(s) \in Seq(Seq(Byte)) /\ Filled(AfterCommand(s), Unit)
           /\ Len(AfterCommand(s)) \in Nat /\ Len(AfterCommand(s)) <= Len(s.in)
<1>1. PICK list \in Seq(Seq(Byte)), k \in Nat, m \in Nat :
         list = s.in /\ k = s.hlen + 2 /\ m = s.blen + 2 /\ Filled(list, Unit)
    <2>1. s.hlen + 2 \in Nat /\ s.blen + 2 \in Nat
        BY SlotIs, SizesAssumption
    <2> QED BY <2>1, SlotIs
<1>2. Unit \in Nat
    BY SizesAssumption
<1>3. PICK rest \in Seq(Seq(Byte)) :
         rest = Drop(list, k) /\ Len(rest) <= Len(list) /\ Filled(rest, Unit)
    <2>1. /\ Drop(list, k) \in Seq(Seq(Byte)) /\ Len(Drop(list, k)) <= Len(list)
          /\ Filled(Drop(list, k), Unit)
        BY <1>1, <1>2, DropIs
    <2> QED BY <2>1
<1>4. /\ Drop(rest, m) \in Seq(Seq(Byte)) /\ Len(Drop(rest, m)) <= Len(rest)
      /\ Filled(Drop(rest, m), Unit)
    BY <1>2, <1>3, DropIs
<1>5. Len(list) \in Nat /\ Len(rest) \in Nat /\ Len(Drop(rest, m)) \in Nat
    BY <1>4, LenProperties
<1>6. rest = AfterHeader(s)
    BY <1>1, <1>3 DEF AfterHeader
<1>7. AfterCommand(s) = IF s.write THEN Drop(rest, m) ELSE rest
    BY <1>1, <1>6 DEF AfterCommand
<1> QED
    BY <1>1, <1>3, <1>4, <1>5, <1>6, <1>7

\* A list is its first element and the rest.
Begins(list, x, r) == list = <<x>> \o r

LEMMA ConsIs ==
    ASSUME NEW S, NEW x \in S, NEW r \in Seq(S), NEW list \in Seq(S),
           Len(list) = Len(r) + 1, list[1] = x,
           \A i \in Nat : i + 1 <= Len(list) => (i > 0 => list[i + 1] = r[i])
    PROVE  Begins(list, x, r)
<1>1. PICK one \in Seq(S) : one = <<x>> /\ Len(one) = 1 /\ one[1] = x
    <2>1. <<x>> \in Seq(S) /\ Len(<<x>>) = 1 /\ <<x>>[1] = x
        OBVIOUS
    <2> QED BY <2>1
<1>2. /\ one \o r \in Seq(S) /\ Len(one \o r) = 1 + Len(r)
      /\ \A i \in 1..(1 + Len(r)) : (one \o r)[i] = IF i <= 1 THEN one[i] ELSE r[i - 1]
      /\ Len(r) \in Nat
    BY <1>1, ConcatProperties, LenProperties
<1>3. ASSUME NEW i \in 1..Len(list) PROVE list[i] = (one \o r)[i]
    <2>1. i \in 1..(1 + Len(r))
        BY <1>2
    <2>2. CASE i = 1
        BY <1>1, <1>2, <2>1, <2>2
    <2>3. CASE i # 1
        <3>1. PICK j \in Nat : j = i - 1 /\ i = j + 1 /\ j > 0 /\ ~(i <= 1)
            <4>1. i - 1 \in Nat /\ i - 1 > 0 /\ i = (i - 1) + 1 /\ ~(i <= 1)
                BY <1>2, <2>1, <2>3
            <4> QED BY <4>1
        <3>2. list[i] = r[j]
            <4>1. j + 1 <= Len(list)
                BY <1>2, <2>1, <3>1
            <4>2. list[j + 1] = r[j]
                BY <3>1, <4>1
            <4> QED BY <3>1, <4>2
        <3> QED BY <1>2, <2>1, <3>1, <3>2
    <2> QED BY <2>2, <2>3
<1>4. Len(list) = Len(one \o r)
    BY <1>2
<1>5. list = one \o r
    BY <1>2, <1>3, <1>4, SeqEqual
<1> QED
    BY <1>1, <1>5 DEF Begins

LEMMA HeadAndTail ==
    ASSUME NEW S, NEW list \in Seq(S), list # << >>
    PROVE  /\ list[1] \in S /\ Tail(list) \in Seq(S) /\ Len(Tail(list)) = Len(list) - 1
           /\ \A i \in 1..(Len(list) - 1) : Tail(list)[i] = list[i + 1]
           /\ Begins(list, list[1], Tail(list))
           /\ Len(list) \in Nat /\ Len(list) > 0
<1>1. /\ Tail(list) \in Seq(S) /\ Len(Tail(list)) = Len(list) - 1
      /\ \A i \in 1..Len(Tail(list)) : Tail(list)[i] = list[i + 1]
    BY HeadTailProperties
<1>2. Len(list) \in Nat /\ Len(list) > 0
    BY LenProperties, EmptySeq
<1>3. 1 \in 1..Len(list)
    BY <1>2
<1>4. list[1] \in S
    BY <1>3, ElementOfSeq
<1>5. \A i \in Nat : i + 1 <= Len(list) => (i > 0 => list[i + 1] = Tail(list)[i])
    BY <1>1, <1>2
<1>6. Len(list) = Len(Tail(list)) + 1
    BY <1>1, <1>2
<1>7. Begins(list, list[1], Tail(list))
    BY <1>1, <1>4, <1>5, <1>6, ConsIs
<1> QED
    BY <1>1, <1>2, <1>4, <1>7

LEMMA FlattenFirst ==
    ASSUME NEW S, NEW x \in Seq(S), NEW r \in Seq(Seq(S)), NEW list, Begins(list, x, r)
    PROVE  FlattenSeq(list) = x \o FlattenSeq(r)
BY FlattenCons DEF Begins

Associate(x, y, z) == (x \o y) \o z = x \o (y \o z)

LEMMA Associates ==
    ASSUME NEW S, NEW x \in Seq(S), NEW y \in Seq(S), NEW z \in Seq(S)
    PROVE  Associate(x, y, z)
BY ConcatAssociative DEF Associate

\* Partial sends.
LEMMA SentPart ==
    ASSUME NEW list \in Seq(Seq(Byte)), Proper(list), list # << >>,
           NEW n \in 1..Len(list[1]), n < Len(list[1]),
           NEW new, new = [list EXCEPT ![1] = SubSeq(@, n + 1, Len(@))]
    PROVE  /\ new \in Seq(Seq(Byte)) /\ Proper(new) /\ Len(new) = Len(list)
           /\ Bytes(list) = SubSeq(list[1], 1, n) \o Bytes(new)
<1>1. PICK f \in Seq(Byte), r \in Seq(Seq(Byte)) :
         /\ f = list[1] /\ Begins(list, f, r) /\ Len(r) = Len(list) - 1
         /\ \A i \in 1..(Len(list) - 1) : r[i] = list[i + 1]
         /\ Len(list) \in Nat /\ Len(list) > 0
    BY HeadAndTail
<1>2. 1 \in 1..Len(list)
    BY <1>1
<1>3. PICK x \in Seq(Byte), y \in Seq(Byte) :
         /\ x = SubSeq(f, 1, n) /\ y = SubSeq(f, n + 1, Len(f)) /\ x \o y = f
         /\ Len(y) = Len(f) - n
    <2>1. n \in 0..Len(f)
        BY <1>1, LenProperties
    <2>2. /\ SubSeq(f, 1, n) \in Seq(Byte) /\ SubSeq(f, n + 1, Len(f)) \in Seq(Byte)
          /\ Len(SubSeq(f, n + 1, Len(f))) = Len(f) - n
          /\ SubSeq(f, 1, n) \o SubSeq(f, n + 1, Len(f)) = f
        BY <2>1, Split
    <2> QED BY <2>2
<1>4. new = [list EXCEPT ![1] = y]
    BY <1>1, <1>3
<1>5. PICK v \in Seq(Seq(Byte)) :
         /\ v = new /\ Len(v) = Len(list) /\ v[1] = y
         /\ \A i \in 1..Len(list) : i # 1 => v[i] = list[i]
    <2>1. /\ [list EXCEPT ![1] = y] \in Seq(Seq(Byte))
          /\ Len([list EXCEPT ![1] = y]) = Len(list)
          /\ \A j \in 1..Len(list) : [list EXCEPT ![1] = y][j] = IF j = 1 THEN y ELSE list[j]
        BY <1>2, ExceptSeq
    <2> QED BY <1>2, <1>4, <2>1, ZenonT(60)
<1>6. Len(f) \in 1..Unit
    BY <1>1, <1>2 DEF Proper
<1>7. Proper(v)
    <2>1. Len(y) \in 1..Unit
        BY <1>1, <1>3, <1>6, SizesAssumption
    <2>2. ASSUME NEW i \in 1..Len(list) PROVE Len(v[i]) \in 1..Unit
        BY <1>5, <2>1 DEF Proper
    <2> QED BY <1>5, <2>2 DEF Proper
<1>8. Begins(v, y, r)
    <2>1. ASSUME NEW i \in Nat, i + 1 <= Len(v), i > 0 PROVE v[i + 1] = r[i]
        <3>1. i \in 1..(Len(list) - 1) /\ i + 1 \in 1..Len(list) /\ i + 1 # 1
            BY <1>1, <1>5, <2>1
        <3> QED BY <1>1, <1>5, <3>1
    <2>2. Len(v) = Len(r) + 1
        BY <1>1, <1>5
    <2>3. \A i \in Nat : i + 1 <= Len(v) => (i > 0 => v[i + 1] = r[i])
        BY <2>1
    <2> QED BY <1>5, <2>2, <2>3, ConsIs
<1>9. PICK z \in Seq(Byte) : z = FlattenSeq(r)
    BY FlattenType
<1>10. FlattenSeq(list) = f \o z
    BY <1>1, <1>9, FlattenFirst
<1>11. FlattenSeq(v) = y \o z
    <2>1. FlattenSeq(v) = y \o FlattenSeq(r)
        BY <1>8, FlattenFirst
    <2> QED BY <1>9, <2>1
<1>12. (x \o y) \o z = x \o (y \o z)
    <2>1. Associate(x, y, z)
        BY Associates
    <2> QED BY <2>1 DEF Associate
<1> QED
    BY <1>1, <1>3, <1>5, <1>7, <1>10, <1>11, <1>12 DEF Bytes

\* A buffer that is sent whole.
LEMMA SentWhole ==
    ASSUME NEW list \in Seq(Seq(Byte)), Proper(list), list # << >>
    PROVE  /\ Tail(list) \in Seq(Seq(Byte)) /\ Proper(Tail(list)) /\ Len(Tail(list)) = Len(list) - 1
           /\ list[1] \in Seq(Byte) /\ SubSeq(list[1], 1, Len(list[1])) = list[1]
           /\ Bytes(list) = list[1] \o Bytes(Tail(list))
<1>1. PICK f \in Seq(Byte), r \in Seq(Seq(Byte)) :
         /\ f = list[1] /\ r = Tail(list) /\ Begins(list, f, r) /\ Len(r) = Len(list) - 1
         /\ \A i \in 1..(Len(list) - 1) : r[i] = list[i + 1]
         /\ Len(list) \in Nat /\ Len(list) > 0
    BY HeadAndTail
<1>2. FlattenSeq(list) = f \o FlattenSeq(r)
    BY <1>1, FlattenFirst
<1>3. Proper(r)
    <2>1. ASSUME NEW i \in 1..(Len(list) - 1) PROVE Len(r[i]) \in 1..Unit
        <3>1. i + 1 \in 1..Len(list)
            BY <1>1
        <3> QED BY <1>1, <3>1 DEF Proper
    <2> QED BY <1>1, <2>1 DEF Proper
<1>4. SubSeq(f, 1, Len(f)) = f
    BY SubSeqFull
<1> QED
    BY <1>1, <1>2, <1>3, <1>4 DEF Bytes

-----------------------------------------------------------------------------
(* The steps keep the types, and the buffers in all.                       *)

LEMMA InUseIs == ASSUME Types PROVE InUse \in Nat
<1>1. ASSUME NEW x \in Fds PROVE Len(io[x].in) + Len(io[x].out) \in Nat
    <2>1. io[x] \in GoodSlot
        BY DEF Types
    <2>2. Len(io[x].in) \in Nat /\ Len(io[x].out) \in Nat
        BY <2>1, SlotIs
    <2>3. \A a, b \in Nat : a + b \in Nat
        OBVIOUS
    <2> QED BY <2>2, <2>3
<1>2. PICK held \in [Fds -> Nat] : held = Held
    <2>1. Held \in [Fds -> Nat]
        BY <1>1 DEF Held
    <2> QED BY <2>1
<1>3. SumFunction(held) \in Nat
    BY DescriptorsAssumption, SumType
<1> QED
    BY <1>2, <1>3 DEF InUse

\* What becomes of one slot.
LEMMA SlotStep ==
    ASSUME Types, NEW fd \in Fds, NEW r \in GoodSlot, io' = [io EXCEPT ![fd] = r]
    PROVE  /\ io' \in [Fds -> GoodSlot] /\ io'[fd] = r
           /\ \A x \in Fds : x # fd => io'[x] = io[x]
           /\ InUse' = InUse + (Len(r.in) + Len(r.out)) - (Len(io[fd].in) + Len(io[fd].out))
<1>1. io \in [Fds -> GoodSlot]
    BY DEF Types
<1>2. /\ io' \in [Fds -> GoodSlot] /\ io'[fd] = r
      /\ \A x \in Fds : x # fd => io'[x] = io[x]
    BY <1>1
<1>3. ASSUME NEW s \in GoodSlot PROVE Len(s.in) + Len(s.out) \in Int
    <2>1. Len(s.in) \in Nat /\ Len(s.out) \in Nat
        BY SlotIs
    <2> QED BY <2>1
<1>4. PICK old \in [Fds -> Int] :
         old = Held /\ \A x \in Fds : old[x] = Len(io[x].in) + Len(io[x].out)
    <2>1. Held \in [Fds -> Int] /\ \A x \in Fds : Held[x] = Len(io[x].in) + Len(io[x].out)
        BY <1>1, <1>3 DEF Held
    <2> QED BY <2>1
<1>5. PICK new \in [Fds -> Int] :
         new = Held' /\ \A x \in Fds : new[x] = Len(io'[x].in) + Len(io'[x].out)
    <2>1. Held' = [x \in Fds |-> Len(io'[x].in) + Len(io'[x].out)]
        BY DEF Held
    <2>2. \A x \in Fds : io'[x] \in GoodSlot
        BY <1>2
    <2>3. [x \in Fds |-> Len(io'[x].in) + Len(io'[x].out)] \in [Fds -> Int]
        BY <1>3, <2>2
    <2> QED BY <2>1, <2>3
<1>6. \A x \in Fds \ {fd} : new[x] = old[x]
    BY <1>2, <1>4, <1>5
<1>7. SumFunction(new) = SumFunction(old) + new[fd] - old[fd]
    BY <1>6, DescriptorsAssumption, SumChange
<1>8. new[fd] = Len(r.in) + Len(r.out) /\ old[fd] = Len(io[fd].in) + Len(io[fd].out)
    BY <1>2, <1>4, <1>5
<1>9. InUse = SumFunction(old) /\ InUse' = SumFunction(new)
    BY <1>4, <1>5 DEF InUse
<1> QED
    BY <1>2, <1>7, <1>8, <1>9

\* The slots are as they were.
LEMMA SameSlots ==
    ASSUME UNCHANGED io
    PROVE  InUse' = InUse
BY DEF InUse, Held

LEMMA FreshIs ==
    ASSUME NEW n \in Nat
    PROVE  [Fresh EXCEPT !.inLen = n] \in GoodSlot
<1>1. << >> \in Seq(Seq(Byte)) /\ Len(<< >>) = 0
    BY EmptySeq
<1>2. Filled(<< >>, Unit) /\ Proper(<< >>)
    BY <1>1 DEF Filled, Proper
<1>3. -1 \in -1..ValueLimit
    BY SizesAssumption
<1>4. [Fresh EXCEPT !.inLen = n] \in Slot
    BY <1>1, <1>3 DEF Fresh, Slot
<1> QED
    BY <1>2, <1>4 DEF Fresh, GoodSlot

LEMMA AcceptTypes ==
    ASSUME Types, NEW fd \in Fds, Accept(fd)
    PROVE  /\ Types' /\ io'[fd] = Allocated(io[fd])
           /\ \A x \in Fds : x # fd => io'[x] = io[x]
           /\ pool' = pool
           /\ InUse' = InUse - (Len(io[fd].in) + Len(io[fd].out))
<1>1. PICK s \in GoodSlot : s = io[fd] /\ s.inLen \in Nat /\ Len(s.in) \in Nat /\ Len(s.out) \in Nat
    <2>1. io[fd] \in GoodSlot
        BY DEF Types
    <2> QED BY <2>1, SlotIs
<1>2. PICK r \in GoodSlot : r = Allocated(s)
    BY <1>1, FreshIs DEF Allocated
<1>3. Len(r.in) = 0 /\ Len(r.out) = 0
    BY <1>2, EmptySeq DEF Allocated, Fresh
<1>4. io' = [io EXCEPT ![fd] = r]
    BY <1>1, <1>2 DEF Accept
<1>5. /\ io' \in [Fds -> GoodSlot] /\ io'[fd] = r
      /\ \A x \in Fds : x # fd => io'[x] = io[x]
      /\ InUse' = InUse + (Len(r.in) + Len(r.out)) - (Len(io[fd].in) + Len(io[fd].out))
    BY <1>4, SlotStep
<1>6. InUse \in Nat
    BY InUseIs
<1>7. << >> \in Seq(Byte) /\ << >> \in Seq(Commands) /\ << >> \in Seq(Nat)
      /\ \A n : << >> \in Seq(0..n)
    BY EmptySeq
<1>8. /\ wire' \in [Fds -> Seq(Byte)] /\ got' \in [Fds -> Seq(Byte)]
      /\ sent' \in [Fds -> Seq(Commands)] /\ handled' \in [Fds -> Seq(Nat)]
    BY <1>7 DEF Accept, Types
<1>9. ASSUME NEW x \in Fds PROVE handled'[x] \in Seq(0..Len(sent'[x]))
    <2>1. CASE x = fd
        BY <1>7, <2>1 DEF Accept, Types
    <2>2. CASE x # fd
        <3>1. handled'[x] = handled[x] /\ sent'[x] = sent[x]
            BY <2>2 DEF Accept, Types
        <3> QED BY <3>1 DEF Types
    <2> QED BY <2>1, <2>2
<1>10. /\ pool' = pool /\ at' = at /\ failed' = failed
       /\ epoll' \in [Fds -> {"none", "in", "inout"}]
       /\ peer' \in [Fds -> {"up", "fin", "rst"}]
       /\ conns' \in 0..MaxConns /\ overtaken' \in BOOLEAN
    BY SizesAssumption DEF Accept, Types
<1>11. Types'
    BY <1>5, <1>8, <1>9, <1>10 DEF Types
<1>12. InUse' = InUse - (Len(io[fd].in) + Len(io[fd].out))
    <2>1. PICK p \in Nat, q \in Nat : p = Len(io[fd].in) /\ q = Len(io[fd].out)
        BY <1>1
    <2>2. InUse' = InUse + (0 + 0) - (p + q)
        BY <1>3, <1>5, <2>1
    <2>3. \A u \in Nat : u + (0 + 0) - (p + q) = u - (p + q)
        OBVIOUS
    <2>4. InUse' = InUse - (p + q)
        BY <1>6, <2>2, <2>3
    <2> QED BY <2>1, <2>4
<1> QED
    BY <1>1, <1>2, <1>5, <1>10, <1>11, <1>12

LEMMA SendTypes ==
    ASSUME Types, NEW fd \in Fds, NEW c \in Commands, Send(fd, c)
    PROVE  Types' /\ pool' + InUse' = pool + InUse
<1>1. PICK cs \in Seq(Commands), w \in Seq(Byte) : cs = sent[fd] /\ w = wire[fd]
    BY DEF Types
<1>2. PICK ds \in Seq(Commands), l \in Nat :
         ds = Append(cs, c) /\ Len(ds) = l + 1 /\ Len(cs) = l
    <2>1. Append(cs, c) \in Seq(Commands) /\ Len(Append(cs, c)) = Len(cs) + 1 /\ Len(cs) \in Nat
        BY AppendProperties, LenProperties
    <2> QED BY <2>1
<1>3. sent' = [sent EXCEPT ![fd] = ds] /\ sent'[fd] = ds
    BY <1>1, <1>2 DEF Send, Types
<1>4. PICK t \in Seq(Byte) : t = Text(l + 1, c)
    <2>1. l + 1 \in Nat
        OBVIOUS
    <2> QED BY <2>1, TextIs
<1>5. w \o t \in Seq(Byte)
    BY ConcatProperties
<1>6. wire' = [wire EXCEPT ![fd] = w \o t]
    BY <1>1, <1>2, <1>3, <1>4 DEF Send
<1>7. sent' \in [Fds -> Seq(Commands)] /\ wire' \in [Fds -> Seq(Byte)]
    BY <1>3, <1>5, <1>6 DEF Types
<1>8. ASSUME NEW x \in Fds PROVE handled'[x] \in Seq(0..Len(sent'[x]))
    <2>1. handled'[x] = handled[x] /\ handled[x] \in Seq(0..Len(sent[x]))
        BY DEF Send, Types
    <2>2. CASE x = fd
        <3>1. PICK hs \in Seq(0..l) : hs = handled[x]
            BY <1>1, <1>2, <2>1, <2>2
        <3>2. \A i \in 1..Len(hs) : hs[i] \in 0..(l + 1)
            <4>1. \A i \in 1..Len(hs) : hs[i] \in 0..l
                BY ElementOfSeq
            <4> QED BY <4>1
        <3>3. hs \in Seq(0..(l + 1))
            BY <3>2, SeqMonotonic
        <3> QED BY <1>2, <1>3, <2>1, <2>2, <3>1, <3>3
    <2>3. CASE x # fd
        <3>1. sent'[x] = sent[x]
            BY <1>3, <2>3 DEF Types
        <3> QED BY <2>1, <3>1
    <2> QED BY <2>2, <2>3
<1>9. UNCHANGED <<pool, io, epoll, at, peer, got, conns, handled, overtaken, failed>>
    BY DEF Send
<1>10. Types'
    BY <1>7, <1>8, <1>9 DEF Types
<1> QED
    BY <1>9, <1>10, SameSlots

\* The buffers a slot gains are those the pool loses.
LEMMA Recount ==
    ASSUME Types, NEW fd \in Fds, NEW r \in GoodSlot, io' = [io EXCEPT ![fd] = r],
           NEW d \in Int, pool' = pool - d,
           Len(r.in) + Len(r.out) = Len(io[fd].in) + Len(io[fd].out) + d
    PROVE  pool' + InUse' = pool + InUse
<1>1. PICK p \in Nat, q \in Nat : p = Len(io[fd].in) /\ q = Len(io[fd].out)
    <2>1. io[fd] \in GoodSlot
        BY DEF Types
    <2> QED BY <2>1, SlotIs
<1>2. InUse \in Nat /\ pool \in Nat
    BY InUseIs DEF Types
<1>3. InUse' = InUse + (p + q + d) - (p + q)
    BY <1>1, SlotStep
<1>4. \A u \in Nat : u + (p + q + d) - (p + q) = u + d
    OBVIOUS
<1>5. InUse' = InUse + d
    BY <1>2, <1>3, <1>4
<1>6. \A u \in Nat, v \in Nat : (u - d) + (v + d) = u + v
    OBVIOUS
<1> QED
    BY <1>2, <1>5, <1>6

LEMMA LeaveTypes ==
    ASSUME Types, NEW fd \in Fds, NEW how \in {"fin", "rst"}, Leave(fd, how)
    PROVE  Types' /\ pool' + InUse' = pool + InUse
<1>1. peer' \in [Fds -> {"up", "fin", "rst"}]
    BY DEF Leave, Types
<1>2. UNCHANGED <<pool, io, epoll, at, wire, sent, got, conns, handled, overtaken, failed>>
    BY DEF Leave
<1>3. Types'
    BY <1>1, <1>2 DEF Types
<1> QED
    BY <1>2, <1>3, SameSlots

LEMMA InputTypes ==
    ASSUME Types, NEW fd \in Fds, Input(fd)
    PROVE  /\ Types' /\ pool' + InUse' = pool + InUse
           /\ \A x \in Fds : x # fd => io'[x] = io[x] /\ wire'[x] = wire[x]
           /\ \E buf \in Seq(Byte), w \in Seq(Byte) :
                 /\ Len(buf) > 0 /\ wire[fd] = buf \o w /\ wire'[fd] = w
                 /\ io'[fd] = [io[fd] EXCEPT !.in = Append(@, buf), !.inLen = @ + Len(buf)]
<1>1. PICK s \in GoodSlot, w \in Seq(Byte) : s = io[fd] /\ w = wire[fd]
    BY DEF Types
<1>2. PICK n \in 1..Min({Unit, Len(w)}) :
         /\ wire' = [wire EXCEPT ![fd] = SubSeq(@, n + 1, Len(@))]
         /\ io' = [io EXCEPT ![fd].in = Append(@, SubSeq(w, 1, n)), ![fd].inLen = @ + n]
    BY <1>1 DEF Input
<1>3. n \in Nat /\ n > 0 /\ n <= Unit /\ n <= Len(w)
    <2>1. PICK a \in Int, b \in Int : a = Unit /\ b = Len(w)
        BY SizesAssumption, LenProperties
    <2>2. Min({a, b}) \in {a, b} /\ Min({a, b}) <= a /\ Min({a, b}) <= b
        BY MinOfTwo
    <2>3. n \in 1..Min({a, b})
        BY <2>1
    <2> QED BY <2>1, <2>2, <2>3
<1>4. PICK buf \in Seq(Byte), rest \in Seq(Byte) :
         /\ buf = SubSeq(w, 1, n) /\ Len(buf) = n
         /\ rest = SubSeq(w, n + 1, Len(w)) /\ w = buf \o rest
    <2>1. n \in 0..Len(w)
        BY <1>3, LenProperties
    <2>2. /\ SubSeq(w, 1, n) \in Seq(Byte) /\ Len(SubSeq(w, 1, n)) = n
          /\ SubSeq(w, n + 1, Len(w)) \in Seq(Byte)
          /\ SubSeq(w, 1, n) \o SubSeq(w, n + 1, Len(w)) = w
        BY <2>1, Split
    <2> QED BY <2>2
<1>5. PICK in \in Seq(Seq(Byte)), m \in Nat :
         /\ in = Append(s.in, buf) /\ Filled(in, Unit) /\ Len(in) = Len(s.in) + 1
         /\ m = s.inLen + n
    <2>1. s.in \in Seq(Seq(Byte)) /\ Filled(s.in, Unit) /\ s.inLen \in Nat /\ Unit \in Nat
        BY SlotIs, SizesAssumption
    <2>2. /\ Append(s.in, buf) \in Seq(Seq(Byte)) /\ Filled(Append(s.in, buf), Unit)
          /\ Len(Append(s.in, buf)) = Len(s.in) + 1
        BY <1>3, <1>4, <2>1, FilledAppend, ZenonT(60)
    <2>3. s.inLen + n \in Nat
        BY <1>3, <2>1
    <2> QED BY <2>2, <2>3
<1>6. PICK r \in GoodSlot : r = [s EXCEPT !.in = in, !.inLen = m]
    <2>1. s.out \in Seq(Seq(Byte)) /\ Proper(s.out)
        BY SlotIs
    <2> QED BY <1>5, <2>1, SlotWith
<1>7. io' = [io EXCEPT ![fd] = r]
    BY <1>1, <1>2, <1>4, <1>5, <1>6 DEF Types
<1>8. wire' = [wire EXCEPT ![fd] = rest]
    BY <1>1, <1>2, <1>4
<1>9. /\ io' \in [Fds -> GoodSlot] /\ io'[fd] = r
      /\ \A x \in Fds : x # fd => io'[x] = io[x]
    BY <1>7, SlotStep
<1>10. /\ wire' \in [Fds -> Seq(Byte)] /\ wire'[fd] = rest
       /\ \A x \in Fds : x # fd => wire'[x] = wire[x]
    BY <1>8 DEF Types
<1>11. pool' = pool - 1 /\ pool' \in Nat /\ pool' > 0
    <2>1. pool \in Nat /\ pool' = pool - 1 /\ CanAlloc(1, pool)
        BY DEF Input, Types
    <2>2. pool > 1
        BY <2>1 DEF CanAlloc
    <2> QED BY <2>1, <2>2
<1>12. at' \in Worker
    BY DEF Input, Worker
<1>13. Types'
    BY <1>9, <1>10, <1>11, <1>12 DEF Input, Types
<1>14. Len(r.in) + Len(r.out) = Len(io[fd].in) + Len(io[fd].out) + 1
    <2>1. Len(s.in) \in Nat /\ Len(s.out) \in Nat
        BY SlotIs
    <2>2. r.in = in /\ r.out = s.out
        BY <1>6 DEF GoodSlot, Slot
    <2>3. Len(in) + Len(s.out) = Len(s.in) + Len(s.out) + 1
        <3>1. \A p \in Nat, q \in Nat : (p + 1) + q = p + q + 1
            OBVIOUS
        <3> QED BY <1>5, <2>1, <3>1
    <2> QED BY <1>1, <2>2, <2>3
<1>15. pool' + InUse' = pool + InUse
    <2>1. PICK d \in Int : d = 1
        OBVIOUS
    <2>2. pool' = pool - d
        BY <1>11, <2>1
    <2>3. Len(r.in) + Len(r.out) = Len(io[fd].in) + Len(io[fd].out) + d
        BY <1>14, <2>1
    <2> QED BY <1>7, <2>2, <2>3, Recount
<1>16. io'[fd] = [io[fd] EXCEPT !.in = Append(@, buf), !.inLen = @ + Len(buf)]
    BY <1>1, <1>4, <1>5, <1>6, <1>9
<1> QED
    BY <1>1, <1>3, <1>4, <1>9, <1>10, <1>13, <1>15, <1>16

LEMMA EndOfInputTypes ==
    ASSUME Types, NEW fd \in Fds, EndOfInput(fd)
    PROVE  /\ Types' /\ pool' + InUse' = pool + InUse
           /\ \A x \in Fds : x # fd => io'[x] = io[x]
           /\ io'[fd].in # << >>
<1>1. PICK s \in GoodSlot : s = io[fd]
    BY DEF Types
<1>2. PICK buf \in Seq(Byte) : buf = << >> /\ Len(buf) = 0
    BY EmptySeq
<1>3. PICK in \in Seq(Seq(Byte)) :
         /\ in = Append(s.in, buf) /\ Filled(in, Unit) /\ Len(in) = Len(s.in) + 1
         /\ in # << >>
    <2>1. s.in \in Seq(Seq(Byte)) /\ Filled(s.in, Unit) /\ Unit \in Nat /\ Len(buf) <= Unit
        BY <1>2, SlotIs, SizesAssumption
    <2>2. /\ Append(s.in, buf) \in Seq(Seq(Byte)) /\ Filled(Append(s.in, buf), Unit)
          /\ Len(Append(s.in, buf)) = Len(s.in) + 1 /\ Append(s.in, buf) # << >>
        BY <2>1, FilledAppend
    <2> QED BY <2>2
<1>4. PICK r \in GoodSlot : r = [s EXCEPT !.in = in]
    <2>1. s.out \in Seq(Seq(Byte)) /\ Proper(s.out) /\ 0 \in Nat
        BY SlotIs
    <2> QED BY <1>3, <2>1, SlotWith
<1>5. io' = [io EXCEPT ![fd] = r]
    BY <1>1, <1>2, <1>3, <1>4 DEF EndOfInput, Types
<1>6. /\ io' \in [Fds -> GoodSlot] /\ io'[fd] = r
      /\ \A x \in Fds : x # fd => io'[x] = io[x]
    BY <1>5, SlotStep
<1>7. pool' = pool - 1 /\ pool' \in Nat /\ pool' > 0
    BY DEF EndOfInput, CanAlloc, Types
<1>8. at' \in Worker /\ epoll' \in [Fds -> {"none", "in", "inout"}]
    BY DEF EndOfInput, Close, Worker, Types
<1>9. UNCHANGED <<wire, peer, sent, got, conns, handled, overtaken, failed>>
    BY DEF EndOfInput, sides
<1>10. Types'
    BY <1>6, <1>7, <1>8, <1>9 DEF Types
<1>11. r.in = in /\ r.out = s.out
    BY <1>4 DEF GoodSlot, Slot
<1>12. Len(r.in) + Len(r.out) = Len(io[fd].in) + Len(io[fd].out) + 1
    <2>1. Len(s.in) \in Nat /\ Len(s.out) \in Nat
        BY SlotIs
    <2>2. Len(in) + Len(s.out) = Len(s.in) + Len(s.out) + 1
        <3>1. \A p \in Nat, q \in Nat : (p + 1) + q = p + q + 1
            OBVIOUS
        <3> QED BY <1>3, <2>1, <3>1
    <2> QED BY <1>1, <1>11, <2>2
<1>13. pool' + InUse' = pool + InUse
    <2>1. PICK d \in Int : d = 1
        OBVIOUS
    <2>2. pool' = pool - d
        BY <1>7, <2>1
    <2>3. Len(r.in) + Len(r.out) = Len(io[fd].in) + Len(io[fd].out) + d
        BY <1>12, <2>1
    <2> QED BY <1>5, <2>2, <2>3, Recount
<1> QED
    BY <1>3, <1>6, <1>10, <1>11, <1>13

\* The assertion that stops the process leaves everything as it was.
LEMMA FailTypes ==
    ASSUME Types, NEW what \in {"alloc_buf", "read_body"}, Fail(what)
    PROVE  Types' /\ pool' + InUse' = pool + InUse
<1>1. UNCHANGED <<pool, io, epoll, at, wire, peer, sent, got, conns, handled, overtaken>>
    BY DEF Fail, sides
<1>2. failed' = what
    BY DEF Fail
<1>3. Types'
    BY <1>1, <1>2 DEF Types
<1> QED
    BY <1>1, <1>3, SameSlots

\* The length of a header is a length, whatever is in the list.
LEMMA HeaderLenIs ==
    ASSUME Types, NEW fd \in Fds, HasHeader(fd)
    PROVE  HeaderLen(fd) \in Nat
<1>1. PICK s \in GoodSlot : s = io[fd] /\ s.hlen \in Nat /\ Len(Bytes(s.in)) \in Nat
    <2>1. io[fd] \in GoodSlot
        BY DEF Types
    <2> QED BY <2>1, SlotIs
<1>2. CASE s.hlen > 0
    BY <1>1, <1>2 DEF HeaderLen
<1>3. CASE ~(s.hlen > 0)
    <2>1. PICK T : T = Newlines(fd, Bytes(s.in))
        OBVIOUS
    <2>2. T # {}
        BY <1>1, <1>3, <2>1 DEF HasHeader
    <2>3. T \subseteq Nat
        BY <1>1, <2>1 DEF Newlines
    <2>4. PICK m \in Nat : m = Min(T)
        BY <2>2, <2>3, MinIsLeast
    <2>5. PICK z \in Int, d \in Int : z = 0 /\ d = m - 2
        OBVIOUS
    <2>6. Max({z, d}) \in {z, d} /\ Max({z, d}) >= z
        BY MaxOfTwo
    <2>7. HeaderLen(fd) = Max({0, Min(T) - 2})
        BY <1>1, <1>3, <2>1 DEF HeaderLen
    <2>8. HeaderLen(fd) = Max({z, d})
        BY <2>4, <2>5, <2>7
    <2> QED BY <2>5, <2>6, <2>8
<1> QED
    BY <1>2, <1>3

LEMMA MeasureTypes ==
    ASSUME Types, NEW fd \in Fds, Measure(fd)
    PROVE  /\ Types' /\ pool' + InUse' = pool + InUse
           /\ \A x \in Fds : x # fd => io'[x] = io[x]
           /\ io'[fd] = Measured(fd, HeaderLen(fd), Parsed(fd, HeaderLen(fd)))
           /\ io'[fd].in = io[fd].in /\ io'[fd].out = io[fd].out /\ io'[fd].inLen = io[fd].inLen
<1>1. PICK s \in GoodSlot, cs \in Seq(Commands) : s = io[fd] /\ cs = sent[fd]
    BY DEF Types
<1>2. HasHeader(fd)
    BY DEF Measure
<1>3. PICK h \in Nat : h = HeaderLen(fd)
    BY <1>2, HeaderLenIs
<1>4. PICK n \in 0..Len(cs) : n = Parsed(fd, h)
    BY <1>1, ParsedType
<1>5. PICK b \in -1..ValueLimit : b = BodyLen(fd, n)
    <2>1. CASE n = 0
        BY <2>1, SizesAssumption DEF BodyLen
    <2>2. CASE n # 0
        <3>1. Len(cs) \in Nat
            BY LenProperties
        <3>2. n \in 1..Len(cs)
            BY <2>2, <3>1
        <3>3. PICK c \in Commands : c = cs[n]
            BY <3>2, ElementOfSeq
        <3>4. PICK k \in Int, v \in Int : k = c.body /\ v = ValueLimit /\ k >= 0 /\ v >= 0
            BY CommandsAssumption, SizesAssumption DEF Command
        <3>5. Min({k, v}) \in {k, v} /\ Min({k, v}) <= v
            BY MinOfTwo
        <3>6. BodyLen(fd, n) = Min({k, v})
            BY <1>1, <2>2, <3>3, <3>4 DEF BodyLen
        <3> QED BY <3>4, <3>5, <3>6
    <2> QED BY <2>1, <2>2
<1>6. PICK w \in BOOLEAN : w = (n # 0 /\ sent[fd][n].write)
    OBVIOUS
<1>7. PICK r : r = Measured(fd, h, n)
    OBVIOUS
<1>8. r = IF s.blen >= 0 THEN [s EXCEPT !.hlen = h]
          ELSE [s EXCEPT !.hlen = h, !.blen = b, !.write = w]
    BY <1>1, <1>5, <1>6, <1>7 DEF Measured
<1>9. r \in GoodSlot /\ r.in = s.in /\ r.out = s.out /\ r.inLen = s.inLen
    <2>1. s \in Slot /\ Filled(s.in, Unit) /\ Proper(s.out)
        BY DEF GoodSlot
    <2>2. CASE s.blen >= 0
        <3>1. r = [s EXCEPT !.hlen = h]
            BY <1>8, <2>2
        <3>2. r \in Slot /\ r.in = s.in /\ r.out = s.out /\ r.inLen = s.inLen
            BY <2>1, <3>1 DEF Slot
        <3> QED BY <2>1, <3>2 DEF GoodSlot
    <2>3. CASE ~(s.blen >= 0)
        <3>1. r = [s EXCEPT !.hlen = h, !.blen = b, !.write = w]
            BY <1>8, <2>3
        <3>2. r \in Slot /\ r.in = s.in /\ r.out = s.out /\ r.inLen = s.inLen
            BY <2>1, <3>1 DEF Slot
        <3> QED BY <2>1, <3>2 DEF GoodSlot
    <2> QED BY <2>2, <2>3
<1>10. io' = [io EXCEPT ![fd] = r]
    BY <1>3, <1>4, <1>7 DEF Measure
<1>11. /\ io' \in [Fds -> GoodSlot] /\ io'[fd] = r
       /\ \A x \in Fds : x # fd => io'[x] = io[x]
    BY <1>9, <1>10, SlotStep
<1>12. UNCHANGED <<pool, epoll, wire, peer, sent, got, conns, handled, overtaken, failed>>
    BY DEF Measure, sides
<1>13. at' \in Worker
    BY DEF Measure, Serving, Worker, Types
<1>14. Types'
    BY <1>11, <1>12, <1>13 DEF Types
<1>15. pool' + InUse' = pool + InUse
    <2>1. PICK d \in Int : d = 0
        OBVIOUS
    <2>2. pool' = pool - d
        BY <1>12, <2>1 DEF Types
    <2>3. Len(r.in) + Len(r.out) = Len(io[fd].in) + Len(io[fd].out) + d
        <3>1. Len(s.in) \in Nat /\ Len(s.out) \in Nat
            BY SlotIs
        <3>2. \A p \in Nat, q \in Nat : p + q = p + q + 0
            OBVIOUS
        <3> QED BY <1>1, <1>9, <2>1, <3>1, <3>2
    <2> QED BY <1>9, <1>10, <2>2, <2>3, Recount
<1> QED
    BY <1>1, <1>3, <1>4, <1>7, <1>9, <1>11, <1>14, <1>15

LEMMA EndInputTypes ==
    ASSUME Types, NEW fd \in Fds, EndInput(fd)
    PROVE  Types' /\ pool' + InUse' = pool + InUse
<1>1. epoll' \in [Fds -> {"none", "in", "inout"}]
    BY DEF EndInput, Armed, Types
<1>2. at' \in Worker
    BY DEF EndInput, Worker
<1>3. UNCHANGED <<pool, io, wire, peer, sent, got, conns, handled, overtaken, failed>>
    BY DEF EndInput, sides
<1>4. Types'
    BY <1>1, <1>2, <1>3 DEF Types
<1> QED
    BY <1>3, <1>4, SameSlots

LEMMA HangUpTypes ==
    ASSUME Types, NEW fd \in Fds, HangUp(fd)
    PROVE  Types' /\ pool' + InUse' = pool + InUse
<1>1. epoll' \in [Fds -> {"none", "in", "inout"}] /\ at' \in Worker
    BY DEF HangUp, Close, Worker, Types
<1>2. UNCHANGED <<pool, io, wire, peer, sent, got, conns, handled, overtaken, failed>>
    BY DEF HangUp, sides
<1>3. Types'
    BY <1>1, <1>2 DEF Types
<1> QED
    BY <1>2, <1>3, SameSlots

\* destroy_io_data leaves nothing in the lists.
LEMMA EmptiedIs ==
    ASSUME NEW s \in GoodSlot
    PROVE  /\ Emptied(s) \in GoodSlot /\ Emptied(s).in = << >> /\ Emptied(s).out = << >>
           /\ Emptied(s).inLen = IF s.in = << >> THEN s.inLen ELSE 0
           /\ Emptied(s).hlen = s.hlen /\ Emptied(s).blen = s.blen /\ Emptied(s).write = s.write
<1>1. << >> \in Seq(Seq(Byte)) /\ Len(<< >>) = 0
    BY EmptySeq
<1>2. Filled(<< >>, Unit) /\ Proper(<< >>)
    BY <1>1 DEF Filled, Proper
<1>3. s \in Slot
    BY DEF GoodSlot
<1>4. PICK n \in Nat : n = IF s.in = << >> THEN s.inLen ELSE 0
    BY SlotIs
<1>5. Emptied(s) = [s EXCEPT !.in = << >>, !.out = << >>, !.inLen = n]
    BY <1>3, <1>4 DEF Emptied, Slot
<1>6. PICK r : r = Emptied(s)
    OBVIOUS
<1>7. r \in Slot /\ r.in = << >> /\ r.out = << >> /\ r.inLen = n
      /\ r.hlen = s.hlen /\ r.blen = s.blen /\ r.write = s.write
    BY <1>1, <1>3, <1>5, <1>6 DEF Slot
<1> QED
    BY <1>2, <1>4, <1>6, <1>7 DEF GoodSlot

LEMMA ReleaseTypes ==
    ASSUME Types, NEW fd \in Fds, Release(fd)
    PROVE  /\ Types' /\ pool' + InUse' = pool + InUse
           /\ \A x \in Fds : x # fd => io'[x] = io[x]
           /\ io'[fd] = IF at.quit THEN Fixed(Emptied(io[fd])) ELSE Emptied(io[fd])
           /\ io'[fd].in = << >> /\ io'[fd].out = << >>
<1>1. PICK s \in GoodSlot : s = io[fd]
    BY DEF Types
<1>2. PICK e \in GoodSlot : e = Emptied(s) /\ e.in = << >> /\ e.out = << >>
    BY EmptiedIs
<1>3. PICK n \in Int : n = e.hlen + e.blen + IF e.write THEN 4 ELSE 2
    <2>1. e.hlen \in Nat /\ e.blen \in Int
        BY SlotIs, SizesAssumption
    <2> QED BY <2>1
<1>4. Fixed(e) \in GoodSlot /\ Fixed(e).in = e.in /\ Fixed(e).out = e.out
    BY <1>3, FixedIs
<1>5. PICK r \in GoodSlot : /\ r = IF at.quit THEN Fixed(e) ELSE e
                            /\ r.in = << >> /\ r.out = << >>
    BY <1>2, <1>4
<1>6. io' = [io EXCEPT ![fd] = r]
    BY <1>1, <1>2, <1>5 DEF Release, Types
<1>7. /\ io' \in [Fds -> GoodSlot] /\ io'[fd] = r
      /\ \A x \in Fds : x # fd => io'[x] = io[x]
    BY <1>6, SlotStep
<1>8. PICK p \in Nat, q \in Nat : p = Len(io[fd].in) /\ q = Len(io[fd].out)
    BY <1>1, SlotIs
<1>9. pool' = pool + p + q /\ pool' \in Nat /\ pool' > 0
    <2>1. pool' = pool + Len(io[fd].in) + Len(io[fd].out)
        BY DEF Release
    <2>2. pool' = pool + p + q
        BY <1>8, <2>1
    <2>3. pool \in Nat /\ pool > 0
        BY DEF Types
    <2> QED BY <2>2, <2>3
<1>10. at' \in Worker
    BY DEF Release, Worker, Types
<1>11. UNCHANGED <<epoll, wire, peer, sent, got, conns, handled, overtaken, failed>>
    BY DEF Release, sides
<1>12. Types'
    BY <1>7, <1>9, <1>10, <1>11 DEF Types
<1>13. pool' + InUse' = pool + InUse
    <2>1. PICK d \in Int : d = -(p + q)
        OBVIOUS
    <2>2. pool' = pool - d
        BY <1>9, <2>1 DEF Types
    <2>3. Len(r.in) = 0 /\ Len(r.out) = 0
        BY <1>5, EmptySeq
    <2>4. 0 + 0 = p + q + d
        BY <2>1
    <2>5. Len(r.in) + Len(r.out) = Len(io[fd].in) + Len(io[fd].out) + d
        BY <1>8, <2>3, <2>4
    <2> QED BY <1>6, <2>2, <2>5, Recount
<1> QED
    BY <1>1, <1>2, <1>5, <1>7, <1>12, <1>13

\* What is sent is no longer in the send list.
LEMMA OutputTypes ==
    ASSUME Types, NEW fd \in Fds, Output(fd)
    PROVE  /\ Types' /\ pool' + InUse' = pool + InUse
           /\ \A x \in Fds : x # fd => io'[x] = io[x] /\ got'[x] = got[x] /\ epoll'[x] = epoll[x]
           /\ epoll[fd] # "none" /\ epoll'[fd] # "none"
           /\ \E out \in Seq(Seq(Byte)), part \in Seq(Byte) :
                 /\ io'[fd] = [io[fd] EXCEPT !.out = out]
                 /\ got'[fd] = got[fd] \o part /\ Bytes(io[fd].out) = part \o Bytes(out)
<1>1. PICK s \in GoodSlot, g \in Seq(Byte) : s = io[fd] /\ g = got[fd]
    BY DEF Types
<1>2. PICK list \in Seq(Seq(Byte)) : list = s.out /\ Proper(list) /\ list # << >>
    <2>1. s.out \in Seq(Seq(Byte)) /\ Proper(s.out)
        BY SlotIs
    <2> QED BY <1>1, <2>1 DEF Output, Writable
<1>3. PICK n \in 1..Len(list[1]) :
         /\ got' = [got EXCEPT ![fd] = g \o SubSeq(list[1], 1, n)]
         /\ IF n < Len(list[1])
               THEN /\ io' = [io EXCEPT ![fd].out[1] = SubSeq(@, n + 1, Len(@))]
                    /\ UNCHANGED <<pool, epoll>>
               ELSE /\ io' = [io EXCEPT ![fd].out = Tail(@)]
                    /\ pool' = pool + 1
                    /\ epoll' = [epoll EXCEPT ![fd] = IF Len(list) = 1 THEN "in" ELSE @]
    BY <1>1, <1>2 DEF Output
<1>4. list[1] \in Seq(Byte) /\ Len(list[1]) \in Nat /\ SubSeq(list[1], 1, Len(list[1])) = list[1]
    <2>1. list[1] \in Seq(Byte) /\ SubSeq(list[1], 1, Len(list[1])) = list[1]
        BY <1>2, SentWhole
    <2> QED BY <2>1, LenProperties
<1>5. PICK part \in Seq(Byte) : part = SubSeq(list[1], 1, n)
    <2>1. n \in 0..Len(list[1])
        BY <1>4
    <2> QED BY <1>4, <2>1, Split
<1>6. got' = [got EXCEPT ![fd] = g \o part] /\ g \o part \in Seq(Byte)
    BY <1>3, <1>5, ConcatProperties
<1>7. /\ got' \in [Fds -> Seq(Byte)] /\ got'[fd] = g \o part
      /\ \A x \in Fds : x # fd => got'[x] = got[x]
    BY <1>6 DEF Types
<1>8. /\ epoll' \in [Fds -> {"none", "in", "inout"}] /\ epoll[fd] # "none" /\ epoll'[fd] # "none"
      /\ \A x \in Fds : x # fd => epoll'[x] = epoll[x]
    BY <1>3 DEF Output, Writable, Waiting, Types
<1>9. UNCHANGED <<at, wire, peer, sent, conns, handled, overtaken, failed>>
    BY DEF Output, sides
<1>10. s.in \in Seq(Seq(Byte)) /\ Filled(s.in, Unit) /\ Len(s.in) \in Nat /\ 0 \in Nat
    BY SlotIs
<1>11. CASE n < Len(list[1])
    <2>1. PICK out : out = [list EXCEPT ![1] = SubSeq(@, n + 1, Len(@))]
        OBVIOUS
    <2>2. out \in Seq(Seq(Byte)) /\ Proper(out) /\ Len(out) = Len(list)
          /\ Bytes(list) = part \o Bytes(out)
        BY <1>2, <1>5, <1>11, <2>1, SentPart, ZenonT(60)
    <2>3. PICK r \in GoodSlot : r = [s EXCEPT !.out = out]
        BY <1>10, <2>2, SlotWith
    <2>4. io' = [io EXCEPT ![fd].out[1] = SubSeq(@, n + 1, Len(@))] /\ UNCHANGED <<pool, epoll>>
        BY <1>3, <1>11
    <2>5. io' = [io EXCEPT ![fd] = r]
        BY <1>1, <1>2, <2>1, <2>3, <2>4 DEF Types, GoodSlot, Slot
    <2>6. /\ io' \in [Fds -> GoodSlot] /\ io'[fd] = r
          /\ \A x \in Fds : x # fd => io'[x] = io[x]
        BY <2>5, SlotStep
    <2>7. Types'
        BY <1>7, <1>8, <1>9, <2>4, <2>6 DEF Types
    <2>8. r.in = s.in /\ r.out = out
        BY <2>3 DEF GoodSlot, Slot
    <2>9. pool' + InUse' = pool + InUse
        <3>1. PICK d \in Int : d = 0
            OBVIOUS
        <3>2. pool' = pool - d
            BY <2>4, <3>1 DEF Types
        <3>3. Len(list) \in Nat /\ \A p \in Nat, q \in Nat : p + q = p + q + 0
            BY LenProperties
        <3>4. Len(r.in) + Len(r.out) = Len(io[fd].in) + Len(io[fd].out) + d
            BY <1>1, <1>2, <1>10, <2>2, <2>8, <3>1, <3>3
        <3> QED BY <2>5, <3>2, <3>4, Recount
    <2> QED BY <1>1, <1>2, <1>7, <1>8, <2>2, <2>3, <2>6, <2>7, <2>9
<1>12. CASE ~(n < Len(list[1]))
    <2>1. n = Len(list[1]) /\ part = list[1]
        BY <1>4, <1>5, <1>12
    <2>2. PICK out \in Seq(Seq(Byte)) : /\ out = Tail(list) /\ Proper(out)
                                        /\ Len(out) = Len(list) - 1
                                        /\ Bytes(list) = part \o Bytes(out)
        BY <1>2, <2>1, SentWhole
    <2>3. PICK r \in GoodSlot : r = [s EXCEPT !.out = out]
        BY <1>10, <2>2, SlotWith
    <2>4. io' = [io EXCEPT ![fd].out = Tail(@)] /\ pool' = pool + 1
        BY <1>3, <1>12
    <2>5. io' = [io EXCEPT ![fd] = r]
        BY <1>1, <1>2, <2>2, <2>3, <2>4 DEF Types
    <2>6. /\ io' \in [Fds -> GoodSlot] /\ io'[fd] = r
          /\ \A x \in Fds : x # fd => io'[x] = io[x]
        BY <2>5, SlotStep
    <2>7. Types'
        <3>1. pool' \in Nat /\ pool' > 0
            BY <2>4, SMTT(40) DEF Types
        <3> QED BY <1>7, <1>8, <1>9, <2>6, <3>1 DEF Types
    <2>8. r.in = s.in /\ r.out = out
        BY <2>3 DEF GoodSlot, Slot
    <2>9. pool' + InUse' = pool + InUse
        <3>1. PICK d \in Int : d = -1
            OBVIOUS
        <3>2. pool' = pool - d
            BY <2>4, <3>1 DEF Types
        <3>3. Len(list) \in Nat /\ \A p \in Nat, q \in Nat : p + (q - 1) = p + q + (-1)
            BY LenProperties
        <3>4. Len(r.in) + Len(r.out) = Len(io[fd].in) + Len(io[fd].out) + d
            <4>1. Len(r.in) + Len(r.out) = Len(s.in) + (Len(list) - 1)
                BY <2>2, <2>8
            <4>2. Len(s.in) + (Len(list) - 1) = Len(s.in) + Len(list) + (-1)
                BY <1>10, <3>3
            <4> QED BY <1>1, <1>2, <3>1, <4>1, <4>2
        <3> QED BY <2>5, <3>2, <3>4, Recount
    <2> QED BY <1>1, <1>2, <1>7, <1>8, <2>2, <2>3, <2>6, <2>7, <2>9
<1> QED
    BY <1>11, <1>12

LEMMA OutputFailsTypes ==
    ASSUME Types, NEW fd \in Fds, OutputFails(fd)
    PROVE  /\ Types' /\ pool' + InUse' = pool + InUse
           /\ \A x \in Fds : x # fd => io'[x] = io[x]
           /\ \E out \in Seq(Seq(Byte)) : io'[fd] = [io[fd] EXCEPT !.out = out]
<1>1. PICK s \in GoodSlot : s = io[fd]
    BY DEF Types
<1>2. PICK list \in Seq(Seq(Byte)) : list = s.out /\ Proper(list) /\ list # << >>
    <2>1. s.out \in Seq(Seq(Byte)) /\ Proper(s.out)
        BY SlotIs
    <2> QED BY <1>1, <2>1 DEF OutputFails, Writable
<1>3. PICK f \in Seq(Byte) : f = list[1] /\ Len(list) \in Nat /\ 1 \in 1..Len(list)
    <2>1. list[1] \in Seq(Byte) /\ Len(list) \in Nat /\ Len(list) > 0
        BY <1>2, HeadAndTail
    <2> QED BY <2>1
<1>4. PICK e \in Seq(Byte) : e = <<Junk>> \o f /\ Len(e) = 1 + Len(f)
    <2>1. PICK one \in Seq(Byte) : one = <<Junk>> /\ Len(one) = 1
        <3>1. Junk \in Byte
            BY DEF Junk, Byte
        <3>2. <<Junk>> \in Seq(Byte) /\ Len(<<Junk>>) = 1
            BY <3>1
        <3> QED BY <3>2
    <2>2. one \o f \in Seq(Byte) /\ Len(one \o f) = Len(one) + Len(f)
        BY ConcatProperties
    <2> QED BY <2>1, <2>2
<1>5. PICK out \in Seq(Seq(Byte)) :
         /\ out = [list EXCEPT ![1] = e] /\ Len(out) = Len(list)
         /\ \A j \in 1..Len(list) : out[j] = IF j = 1 THEN e ELSE list[j]
    <2>1. /\ [list EXCEPT ![1] = e] \in Seq(Seq(Byte))
          /\ Len([list EXCEPT ![1] = e]) = Len(list)
          /\ \A j \in 1..Len(list) : [list EXCEPT ![1] = e][j] = IF j = 1 THEN e ELSE list[j]
        BY <1>3, ExceptSeq
    <2> QED BY <2>1
<1>6. Proper(out)
    <2>1. Len(f) < Unit /\ Len(f) \in Nat
        BY <1>1, <1>2, <1>3, LenProperties DEF OutputFails
    <2>2. Len(e) \in 1..Unit
        BY <1>4, <2>1, SizesAssumption
    <2>3. ASSUME NEW j \in 1..Len(list) PROVE Len(out[j]) \in 1..Unit
        BY <1>2, <1>5, <2>2 DEF Proper
    <2> QED BY <1>5, <2>3 DEF Proper
<1>7. s.in \in Seq(Seq(Byte)) /\ Filled(s.in, Unit) /\ Len(s.in) \in Nat /\ 0 \in Nat
    BY SlotIs
<1>8. PICK r \in GoodSlot : r = [s EXCEPT !.out = out]
    BY <1>6, <1>7, SlotWith
<1>9. io' = [io EXCEPT ![fd] = r]
    <2>1. io' = [io EXCEPT ![fd].out[1] = <<Junk>> \o @]
        BY DEF OutputFails
    <2> QED BY <1>1, <1>2, <1>3, <1>4, <1>5, <1>8, <2>1 DEF Types, GoodSlot, Slot
<1>10. /\ io' \in [Fds -> GoodSlot] /\ io'[fd] = r
       /\ \A x \in Fds : x # fd => io'[x] = io[x]
    BY <1>9, SlotStep
<1>11. UNCHANGED <<pool, epoll, at, wire, peer, sent, got, conns, handled, overtaken, failed>>
    BY DEF OutputFails, sides
<1>12. Types'
    BY <1>10, <1>11 DEF Types
<1>13. pool' + InUse' = pool + InUse
    <2>1. PICK d \in Int : d = 0
        OBVIOUS
    <2>2. pool' = pool - d
        BY <1>11, <2>1 DEF Types
    <2>3. \A p \in Nat, q \in Nat : p + q = p + q + 0
        OBVIOUS
    <2>4. r.in = s.in /\ r.out = out
        BY <1>8 DEF GoodSlot, Slot
    <2>5. Len(r.in) + Len(r.out) = Len(io[fd].in) + Len(io[fd].out) + d
        BY <1>1, <1>2, <1>3, <1>5, <1>7, <2>1, <2>3, <2>4
    <2> QED BY <1>9, <2>2, <2>5, Recount
<1> QED
    BY <1>1, <1>8, <1>10, <1>12, <1>13

\* One more command is handled.
LEMMA HandledTypes ==
    ASSUME Types, NEW fd \in Fds, NEW n \in 0..Len(sent[fd]), UNCHANGED sent,
           handled' = [handled EXCEPT ![fd] = Append(@, ReadAs(fd, n))]
    PROVE  /\ handled' \in [Fds -> Seq(Nat)]
           /\ \A x \in Fds : handled'[x] \in Seq(0..Len(sent'[x]))
           /\ handled'[fd] = Append(handled[fd], ReadAs(fd, n))
           /\ \A x \in Fds : x # fd => handled'[x] = handled[x]
<1>1. PICK l \in Nat : l = Len(sent[fd])
    <2>1. sent[fd] \in Seq(Commands)
        BY DEF Types
    <2> QED BY <2>1, LenProperties
<1>2. PICK m \in 0..l : m = ReadAs(fd, n)
    BY <1>1 DEF ReadAs
<1>3. PICK hs \in Seq(0..l) : hs = handled[fd]
    BY <1>1 DEF Types
<1>4. PICK new \in Seq(0..l) : new = Append(hs, m)
    BY AppendProperties
<1>5. new \in Seq(Nat)
    <2>1. \A i \in 1..Len(new) : new[i] \in Nat
        <3>1. \A i \in 1..Len(new) : new[i] \in 0..l
            BY ElementOfSeq
        <3> QED BY <3>1
    <2> QED BY <2>1, SeqMonotonic
<1>6. handled' = [handled EXCEPT ![fd] = new]
    BY <1>2, <1>3, <1>4
<1>7. /\ handled' \in [Fds -> Seq(Nat)] /\ handled'[fd] = new
      /\ \A x \in Fds : x # fd => handled'[x] = handled[x]
    BY <1>5, <1>6 DEF Types
<1>8. \A x \in Fds : handled'[x] \in Seq(0..Len(sent'[x]))
    BY <1>1, <1>7 DEF Types
<1> QED
    BY <1>2, <1>3, <1>4, <1>7, <1>8

\* What an answer makes of the slot and of the worker.
Answers1(fd, n, rest) ==
    /\ \E out \in Seq(Seq(Byte)) :
          /\ Proper(out) /\ Bytes(out) = Bytes(io[fd].out) \o Reply(fd, n)
          /\ io'[fd] = Fixed([io[fd] EXCEPT !.in = rest, !.out = out])
    /\ handled'[fd] = Append(handled[fd], ReadAs(fd, n))
    /\ \A x \in Fds : x # fd => handled'[x] = handled[x]
    /\ at' \in [pc : {"input"}, fd : {fd}, armed : BOOLEAN]
    /\ UNCHANGED <<epoll, sides, got, overtaken, failed>>

LEMMA AnswerTypes ==
    ASSUME Types, NEW fd \in Fds, Serving(fd, "measured"), NEW n \in 0..Len(sent[fd]),
           NEW rest \in Seq(Seq(Byte)), Filled(rest, Unit),
           NEW freed \in Nat, Len(io[fd].in) = Len(rest) + freed, Answer(fd, n, rest, freed)
    PROVE  /\ Types' /\ pool' + InUse' = pool + InUse
           /\ \A x \in Fds : x # fd => io'[x] = io[x]
           /\ Fail("alloc_buf") \/ Answers1(fd, n, rest)
<1>1. PICK s \in GoodSlot : s = io[fd]
    BY DEF Types
<1>2. /\ s.out \in Seq(Seq(Byte)) /\ Proper(s.out) /\ Len(s.in) \in Nat /\ Len(s.out) \in Nat
      /\ s.inLen \in Nat
    BY SlotIs
<1>3. PICK reply \in Seq(Byte) : reply = Reply(fd, n)
    <2>1. PICK k \in Nat : k = IF n = 0 THEN 1 ELSE sent[fd][n].reply
        <3>1. CASE n = 0
            BY <3>1
        <3>2. CASE n # 0
            <4>1. PICK cs \in Seq(Commands) : cs = sent[fd]
                BY DEF Types
            <4>2. Len(cs) \in Nat
                BY LenProperties
            <4>3. n \in 1..Len(cs)
                BY <3>2, <4>1, <4>2
            <4>4. PICK c \in Commands : c = cs[n]
                BY <4>3, ElementOfSeq
            <4>5. c.reply \in Nat
                BY CommandsAssumption DEF Command
            <4> QED BY <3>2, <4>1, <4>4, <4>5
        <3> QED BY <3>1, <3>2
    <2>2. PICK l \in Nat : l = Len(handled[fd]) + 1
        <3>1. handled[fd] \in Seq(Nat)
            BY DEF Types
        <3>2. Len(handled[fd]) \in Nat
            BY <3>1, LenProperties
        <3> QED BY <3>2
    <2>3. [i \in 1..k |-> <<l, i>>] \in [1..k -> Byte]
        BY DEF Byte
    <2>4. PICK t \in [1..k -> Byte] : t = [i \in 1..k |-> <<l, i>>]
        BY <2>3
    <2>5. t \in Seq(Byte)
        BY FcnSeq
    <2>6. t = Reply(fd, n)
        BY <2>1, <2>2, <2>4 DEF Reply
    <2> QED BY <2>5, <2>6
<1>4. PICK out \in Seq(Seq(Byte)) :
         /\ out = Extended(s.out, reply) /\ Proper(out) /\ Bytes(out) = Bytes(s.out) \o reply
         /\ Len(s.out) <= Len(out) /\ Len(out) \in Nat
    <2>1. /\ Extended(s.out, reply) \in Seq(Seq(Byte)) /\ Proper(Extended(s.out, reply))
          /\ Bytes(Extended(s.out, reply)) = Bytes(s.out) \o reply
          /\ Len(s.out) <= Len(Extended(s.out, reply))
        BY <1>2, ExtendedIs
    <2>2. Len(Extended(s.out, reply)) \in Nat
        BY <2>1, LenProperties
    <2> QED BY <2>1, <2>2
<1>5. PICK new \in Nat : new = Len(out) - Len(s.out)
    <2>1. Len(out) - Len(s.out) \in Nat
        BY <1>2, <1>4
    <2> QED BY <2>1
<1>6. CASE CanAlloc(new, pool + freed)
    <2>1. /\ io' = [io EXCEPT ![fd] = Fixed([@ EXCEPT !.in = rest, !.out = out])]
          /\ pool' = pool + freed - new
          /\ handled' = [handled EXCEPT ![fd] = Append(@, ReadAs(fd, n))]
          /\ at' = [at EXCEPT !.pc = "input", !.armed = @ \/ out # << >>]
          /\ UNCHANGED <<epoll, sides, got, conns, overtaken, failed>>
        BY <1>1, <1>3, <1>4, <1>5, <1>6 DEF Answer
    <2>2. PICK q \in GoodSlot : q = [s EXCEPT !.in = rest, !.out = out] /\ q.in = rest /\ q.out = out
        <3>1. [s EXCEPT !.in = rest, !.out = out] \in GoodSlot
            BY <1>2, <1>4, SlotWith
        <3>2. s \in Slot
            BY DEF GoodSlot
        <3> QED BY <3>1, <3>2 DEF Slot
    <2>3. PICK d \in Int : d = q.hlen + q.blen + IF q.write THEN 4 ELSE 2
        <3>1. q.hlen \in Nat /\ q.blen \in Int
            BY SlotIs, SizesAssumption
        <3>2. PICK k \in Int : k = IF q.write THEN 4 ELSE 2
            OBVIOUS
        <3>3. q.hlen + q.blen + k \in Int
            BY <3>1
        <3> QED BY <3>2, <3>3
    <2>4. PICK r \in GoodSlot : r = Fixed(q) /\ r.in = rest /\ r.out = out
        <3>1. Fixed(q) \in GoodSlot /\ Fixed(q).in = q.in /\ Fixed(q).out = q.out
            BY <2>3, FixedIs
        <3> QED BY <2>2, <3>1
    <2>5. io' = [io EXCEPT ![fd] = r]
        BY <1>1, <2>1, <2>2, <2>4
    <2>6. /\ io' \in [Fds -> GoodSlot] /\ io'[fd] = r
          /\ \A x \in Fds : x # fd => io'[x] = io[x]
        BY <2>5, SlotStep
    <2>7. /\ handled' \in [Fds -> Seq(Nat)]
          /\ \A x \in Fds : handled'[x] \in Seq(0..Len(sent'[x]))
          /\ handled'[fd] = Append(handled[fd], ReadAs(fd, n))
          /\ \A x \in Fds : x # fd => handled'[x] = handled[x]
        <3>1. UNCHANGED sent
            BY <2>1 DEF sides
        <3> QED BY <2>1, <3>1, HandledTypes
    <2>8. pool' \in Nat /\ pool' > 0
        <3>1. pool \in Nat /\ pool > 0
            BY DEF Types
        <3>2. new = 0 \/ new < pool + freed
            BY <1>6 DEF CanAlloc
        <3> QED BY <2>1, <3>1, <3>2
    <2>9. at' \in [pc : {"input"}, fd : {fd}, armed : BOOLEAN]
        BY <2>1 DEF Types, Worker, Serving
    <2>10. at' \in Worker
        BY <2>9 DEF Worker
    <2>11. UNCHANGED <<epoll, wire, peer, sent, got, conns, overtaken, failed>>
        BY <2>1 DEF sides
    <2>12. Types'
        BY <2>6, <2>7, <2>8, <2>10, <2>11 DEF Types
    <2>13. pool' + InUse' = pool + InUse
        <3>1. PICK e \in Int : e = new - freed
            OBVIOUS
        <3>2. pool' = pool - e
            BY <2>1, <3>1 DEF Types
        <3>3. PICK a \in Nat, b \in Nat, u \in Nat, v \in Nat :
                 a = Len(s.in) /\ b = Len(s.out) /\ u = Len(rest) /\ v = Len(out)
            BY <1>2, <1>4, LenProperties
        <3>4. u + v = a + b + e
            <4>1. Len(s.in) = Len(rest) + freed
                BY <1>1
            <4>2. a = u + freed
                BY <3>3, <4>1
            <4>3. new = v - b
                BY <1>5, <3>3
            <4>4. b <= v
                BY <1>4, <3>3
            <4> QED BY <3>1, <4>2, <4>3, <4>4
        <3>5. Len(r.in) + Len(r.out) = Len(io[fd].in) + Len(io[fd].out) + e
            BY <1>1, <2>4, <3>3, <3>4
        <3> QED BY <2>5, <3>2, <3>5, Recount
    <2>14. io'[fd] = Fixed([io[fd] EXCEPT !.in = rest, !.out = out])
        BY <1>1, <2>2, <2>4, <2>6
    <2>15. Answers1(fd, n, rest)
        BY <1>1, <1>3, <1>4, <2>1, <2>7, <2>9, <2>14 DEF Answers1
    <2> QED BY <2>6, <2>12, <2>13, <2>15
<1>7. CASE ~CanAlloc(new, pool + freed)
    <2>1. Fail("alloc_buf")
        BY <1>1, <1>3, <1>4, <1>5, <1>7 DEF Answer
    <2>2. Types' /\ pool' + InUse' = pool + InUse
        BY <2>1, FailTypes
    <2> QED BY <2>1, <2>2 DEF Fail
<1> QED
    BY <1>6, <1>7

LEMMA QuitTypes ==
    ASSUME Types, NEW fd \in Fds, Serving(fd, "measured"), NEW n \in 0..Len(sent[fd]),
           NEW rest \in Seq(Seq(Byte)), Filled(rest, Unit),
           NEW freed \in Nat, Len(io[fd].in) = Len(rest) + freed,
           AnswerQuit(fd, n, rest, freed)
    PROVE  /\ Types' /\ pool' + InUse' = pool + InUse
           /\ \A x \in Fds : x # fd => io'[x] = io[x] /\ handled'[x] = handled[x]
           /\ io'[fd] = [io[fd] EXCEPT !.in = rest]
           /\ handled'[fd] = Append(handled[fd], ReadAs(fd, n))
<1>1. PICK s \in GoodSlot : s = io[fd]
    BY DEF Types
<1>2. /\ s.out \in Seq(Seq(Byte)) /\ Proper(s.out) /\ Len(s.in) \in Nat /\ Len(s.out) \in Nat
      /\ 0 \in Nat
    BY SlotIs
<1>3. PICK r \in GoodSlot : r = [s EXCEPT !.in = rest] /\ r.in = rest /\ r.out = s.out
    <2>1. [s EXCEPT !.in = rest] \in GoodSlot
        BY <1>2, SlotWith
    <2>2. s \in Slot
        BY DEF GoodSlot
    <2> QED BY <2>1, <2>2 DEF Slot
<1>4. io' = [io EXCEPT ![fd] = r]
    BY <1>1, <1>3 DEF AnswerQuit, Types
<1>5. /\ io' \in [Fds -> GoodSlot] /\ io'[fd] = r
      /\ \A x \in Fds : x # fd => io'[x] = io[x]
    BY <1>4, SlotStep
<1>6. /\ handled' \in [Fds -> Seq(Nat)]
      /\ \A x \in Fds : handled'[x] \in Seq(0..Len(sent'[x]))
      /\ handled'[fd] = Append(handled[fd], ReadAs(fd, n))
      /\ \A x \in Fds : x # fd => handled'[x] = handled[x]
    <2>1. UNCHANGED sent /\ handled' = [handled EXCEPT ![fd] = Append(@, ReadAs(fd, n))]
        BY DEF AnswerQuit, sides
    <2> QED BY <2>1, HandledTypes
<1>7. pool' = pool + freed /\ pool' \in Nat /\ pool' > 0
    BY DEF AnswerQuit, Types
<1>8. at' \in Worker /\ epoll' \in [Fds -> {"none", "in", "inout"}]
    BY DEF AnswerQuit, Close, Worker, Serving, Types
<1>9. UNCHANGED <<wire, peer, sent, got, conns, overtaken, failed>>
    BY DEF AnswerQuit, sides
<1>10. Types'
    BY <1>5, <1>6, <1>7, <1>8, <1>9 DEF Types
<1>11. pool' + InUse' = pool + InUse
    <2>1. PICK e \in Int : e = -freed
        OBVIOUS
    <2>2. pool' = pool - e
        BY <1>7, <2>1 DEF Types
    <2>3. PICK a \in Nat, b \in Nat, u \in Nat :
             a = Len(s.in) /\ b = Len(s.out) /\ u = Len(rest)
        BY <1>2, LenProperties
    <2>4. u + b = a + b + e
        <3>1. Len(s.in) = Len(rest) + freed
            BY <1>1
        <3>2. a = u + freed
            BY <2>3, <3>1
        <3> QED BY <2>1, <3>2
    <2>5. Len(r.in) + Len(r.out) = Len(io[fd].in) + Len(io[fd].out) + e
        BY <1>1, <1>3, <2>3, <2>4
    <2> QED BY <1>4, <2>2, <2>5, Recount
<1> QED
    BY <1>1, <1>3, <1>5, <1>6, <1>10, <1>11

-----------------------------------------------------------------------------
(* The steps keep the connections sound.                                   *)

\* A connection that a step is not about.
LEMMA Elsewhere ==
    ASSUME NEW x \in Fds, Sound(x), io'[x] = io[x], wire'[x] = wire[x], sent'[x] = sent[x],
           got'[x] = got[x], handled'[x] = handled[x], peer'[x] = peer[x], epoll'[x] = epoll[x],
           Served(at, x) => Served(at', x), AtCommand(at', x) => AtCommand(at, x),
           Emptying(at, x) <=> Emptying(at', x), Emptying(at', x) => at'.quit = at.quit
    PROVE  Sound(x)'
BY DEF Sound, Connected

\* The worker at another connection.
LEMMA Apart ==
    ASSUME NEW x, NEW fd, x # fd, NEW a, a.pc = "wait" \/ a.fd = fd
    PROVE  ~Served(a, x) /\ ~AtCommand(a, x) /\ ~Emptying(a, x)
BY DEF Served, AtCommand, Emptying

\* What a connection has, by name.
LEMMA NamesOf ==
    ASSUME Types, NEW fd \in Fds
    PROVE  /\ io[fd] \in GoodSlot /\ wire[fd] \in Seq(Byte) /\ got[fd] \in Seq(Byte)
           /\ sent[fd] \in Seq(Commands) /\ Len(sent[fd]) \in Nat
           /\ handled[fd] \in Seq(Nat) /\ Len(handled[fd]) \in Nat
<1>1. /\ io[fd] \in GoodSlot /\ wire[fd] \in Seq(Byte) /\ got[fd] \in Seq(Byte)
      /\ sent[fd] \in Seq(Commands) /\ handled[fd] \in Seq(Nat)
    BY DEF Types
<1> QED
    BY <1>1, LenProperties

LEMMA ConnInit == ASSUME Init PROVE ConnInv
<1>1. Fresh \in GoodSlot
    <2>1. [Fresh EXCEPT !.inLen = 0] \in GoodSlot
        BY FreshIs
    <2>2. [Fresh EXCEPT !.inLen = 0] = Fresh
        BY DEF Fresh
    <2> QED BY <2>1, <2>2
<1>2. << >> \in Seq(Byte) /\ << >> \in Seq(Commands) /\ << >> \in Seq(Nat)
      /\ (\A n : << >> \in Seq(0..n)) /\ Len(<< >>) = 0
    BY EmptySeq
<1>3. Types
    <2>1. pool \in Nat /\ pool > 0 /\ conns \in 0..MaxConns
        BY SizesAssumption DEF Init
    <2>2. /\ io \in [Fds -> GoodSlot] /\ epoll \in [Fds -> {"none", "in", "inout"}] /\ at \in Worker
          /\ wire \in [Fds -> Seq(Byte)] /\ got \in [Fds -> Seq(Byte)]
          /\ peer \in [Fds -> {"up", "fin", "rst"}]
          /\ sent \in [Fds -> Seq(Commands)] /\ handled \in [Fds -> Seq(Nat)]
          /\ overtaken \in BOOLEAN /\ failed \in {"none", "alloc_buf", "read_body"}
        BY <1>1, <1>2 DEF Init, Worker
    <2>3. \A fd \in Fds : handled[fd] \in Seq(0..Len(sent[fd]))
        BY <1>2 DEF Init
    <2> QED BY <2>1, <2>2, <2>3 DEF Types
<1>4. pool + InUse = PoolSize
    <2>1. Held = [fd \in Fds |-> 0]
        BY <1>2 DEF Held, Init, Fresh
    <2>2. PICK zero \in [Fds -> {0}] : zero = [fd \in Fds |-> 0]
        OBVIOUS
    <2>3. SumFunction(zero) = 0
        BY DescriptorsAssumption, SumZero
    <2>4. InUse = 0
        BY <2>1, <2>2, <2>3 DEF InUse
    <2> QED BY <2>4, SizesAssumption DEF Init
<1>5. ASSUME NEW fd \in Fds PROVE Sound(fd)
    <2>1. /\ handled[fd] = << >> /\ sent[fd] = << >> /\ ~Connected(fd) /\ io[fd] = Fresh
          /\ ~AtCommand(at, fd) /\ ~Emptying(at, fd)
        BY DEF Init, Connected, AtCommand, Emptying
    <2>2. InOrder(handled[fd], sent[fd]) /\ Empty(io[fd])
        BY <1>2, <2>1 DEF InOrder, Empty, Fresh
    <2> QED BY <2>1, <2>2 DEF Sound
<1>6. failed # "read_body" /\ ~overtaken
    BY DEF Init
<1>7. pool + InUse <= PoolSize
    BY <1>4, SizesAssumption
<1> QED
    BY <1>3, <1>4, <1>5, <1>6, <1>7 DEF ConnInv

LEMMA AcceptSound ==
    ASSUME Types, NEW fd \in Fds, Accept(fd), ~overtaken', \A x \in Fds : Sound(x)
    PROVE  /\ \A x \in Fds : Sound(x)'
           /\ InUse' = InUse
<1>1. /\ io'[fd] = Allocated(io[fd]) /\ \A x \in Fds : x # fd => io'[x] = io[x]
      /\ InUse' = InUse - (Len(io[fd].in) + Len(io[fd].out))
    BY AcceptTypes
<1>2. /\ wire' = [wire EXCEPT ![fd] = << >>] /\ sent' = [sent EXCEPT ![fd] = << >>]
      /\ got' = [got EXCEPT ![fd] = << >>] /\ handled' = [handled EXCEPT ![fd] = << >>]
      /\ peer' = [peer EXCEPT ![fd] = "up"] /\ epoll' = [epoll EXCEPT ![fd] = "in"]
      /\ at' = at
    BY DEF Accept
<1>3. ~Connected(fd) /\ ~Emptying(at, fd)
    BY DEF Accept, Connected, Emptying
<1>4. Empty(io[fd]) /\ ~AtCommand(at, fd)
    BY <1>3 DEF Sound
<1>5. InUse' = InUse
    <2>1. Len(io[fd].in) = 0 /\ Len(io[fd].out) = 0
        BY <1>4, EmptySeq DEF Empty
    <2>2. InUse' = InUse - (0 + 0)
        BY <1>1, <2>1
    <2>3. \A u \in Nat : u - (0 + 0) = u
        OBVIOUS
    <2> QED BY <2>2, <2>3, InUseIs
<1>6. ASSUME NEW x \in Fds, x # fd PROVE Sound(x)'
    <2>1. /\ io'[x] = io[x] /\ wire'[x] = wire[x] /\ sent'[x] = sent[x] /\ got'[x] = got[x]
          /\ handled'[x] = handled[x] /\ peer'[x] = peer[x] /\ epoll'[x] = epoll[x]
        BY <1>1, <1>2, <1>6 DEF Types
    <2> QED BY <1>2, <2>1, Elsewhere
<1>7. PICK r : r = io'[fd]
    OBVIOUS
<1>8. r.in = << >> /\ r.out = << >> /\ r.inLen = 0 /\ r.hlen = 0 /\ r.blen = -1
    BY <1>1, <1>4, <1>7 DEF Allocated, Fresh, Empty
<1>9. << >> \in Seq(Byte) /\ << >> \in Seq(Commands) /\ Len(<< >>) = 0 /\ Bytes(<< >>) = << >>
      /\ << >> \o << >> = << >>
    BY EmptySeq, FlattenNil, ConcatEmptySeq DEF Bytes
<1>10. Stream(0, << >>) = << >> /\ Answers(0, << >>) = << >>
    <2>1. PICK cs \in Seq(Commands) : cs = << >>
        BY <1>9
    <2>2. Stream(Len(cs), cs) = << >> /\ Answers(0, cs) = << >>
        BY StreamEnd, AnswersNone
    <2> QED BY <1>9, <2>1, <2>2
<1>11. Unlost(r, << >>, << >>, << >>) /\ Answered(r, << >>, << >>, << >>)
    BY <1>8, <1>9, <1>10 DEF Unlost, Answered, Unknown
<1>12. Partial(r, << >>, << >>) /\ InOrder(<< >>, << >>)
    BY <1>9 DEF Partial, InOrder
<1>13. /\ wire'[fd] = << >> /\ sent'[fd] = << >> /\ got'[fd] = << >> /\ handled'[fd] = << >>
       /\ Connected(fd)'
    BY <1>2 DEF Types, Connected
<1>14. Sound(fd)'
    BY <1>2, <1>3, <1>4, <1>7, <1>11, <1>12, <1>13 DEF Sound
<1> QED
    BY <1>5, <1>6, <1>14

LEMMA SendSound ==
    ASSUME Types, NEW fd \in Fds, NEW c \in Commands, Send(fd, c), \A x \in Fds : Sound(x)
    PROVE  \A x \in Fds : Sound(x)'
<1>1. PICK s \in GoodSlot, w \in Seq(Byte), g \in Seq(Byte), cs \in Seq(Commands), hs \in Seq(Nat) :
         s = io[fd] /\ w = wire[fd] /\ g = got[fd] /\ cs = sent[fd] /\ hs = handled[fd]
    BY NamesOf
<1>2. PICK l \in Nat, n \in Nat : l = Len(cs) /\ n = Len(hs)
    BY LenProperties
<1>3. PICK ds \in Seq(Commands) : /\ ds = Append(cs, c) /\ Len(ds) = l + 1 /\ ds[l + 1] = c
                                  /\ \A i \in 1..l : ds[i] = cs[i]
    <2>1. /\ Append(cs, c) \in Seq(Commands) /\ Len(Append(cs, c)) = Len(cs) + 1
          /\ Append(cs, c)[Len(cs) + 1] = c /\ \A i \in 1..Len(cs) : Append(cs, c)[i] = cs[i]
        BY AppendProperties
    <2> QED BY <1>2, <2>1
<1>4. sent' = [sent EXCEPT ![fd] = ds] /\ sent'[fd] = ds
    BY <1>1, <1>3 DEF Send, Types
<1>5. PICK t \in Seq(Byte) : t = Text(l + 1, c)
    <2>1. l + 1 \in Nat
        OBVIOUS
    <2> QED BY <2>1, TextIs
<1>6. wire' = [wire EXCEPT ![fd] = w \o t] /\ wire'[fd] = w \o t
    BY <1>1, <1>3, <1>4, <1>5 DEF Send, Types
<1>7. UNCHANGED <<pool, io, epoll, at, peer, got, conns, handled, overtaken, failed>>
    BY DEF Send
<1>8. ASSUME NEW x \in Fds, x # fd PROVE Sound(x)'
    <2>1. wire'[x] = wire[x] /\ sent'[x] = sent[x]
        BY <1>4, <1>6, <1>8 DEF Types
    <2> QED BY <1>7, <2>1, Elsewhere
<1>9. Connected(fd) /\ Sound(fd)
    BY DEF Send, Connected
<1>10. InOrder(hs, cs) /\ Unlost(s, w, hs, cs) /\ n <= l
    BY <1>1, <1>2, <1>9 DEF Sound, InOrder
<1>11. InOrder(hs, ds)
    BY <1>2, <1>3, <1>10 DEF InOrder
<1>12. PICK b \in Seq(Byte) : b = Bytes(s.in) /\ Len(b) \in Nat
    BY SlotIs
<1>13. n + 1 <= l => ds[n + 1] = cs[n + 1]
    BY <1>2, <1>3
<1>14. Known(s, hs, cs) => Known(s, hs, ds)
    BY <1>2, <1>3, <1>13 DEF Known
<1>15. Unlost(s, w \o t, hs, ds)
    <2>1. b \o w = Stream(n, cs)
        BY <1>2, <1>10, <1>12 DEF Unlost
    <2>2. Stream(n, ds) = Stream(n, cs) \o t
        BY <1>2, <1>3, <1>5, <1>10, StreamSend
    <2>3. Associate(b, w, t)
        BY Associates
    <2>4. b \o (w \o t) = Stream(n, ds)
        BY <2>1, <2>2, <2>3 DEF Associate
    <2> QED BY <1>2, <1>10, <1>12, <1>14, <2>4 DEF Unlost
<1>16. Answered(s, g, hs, cs) => Answered(s, g, hs, ds)
    BY <1>2, <1>3, <1>10, AnswersSend DEF Answered
<1>17. Partial(s, hs, cs) => Partial(s, hs, ds)
    <2>1. CASE n + 1 <= l
        BY <1>2, <1>3, <1>13, <2>1 DEF Partial
    <2>2. CASE ~(n + 1 <= l)
        <3>1. n = l
            BY <1>10, <2>2
        <3>2. b \o w = << >>
            BY <1>2, <1>10, <1>12, <3>1, StreamEnd DEF Unlost
        <3>3. Len(b \o w) = Len(b) + Len(w) /\ Len(w) \in Nat /\ Len(<< >>) = 0
            BY ConcatProperties, LenProperties, EmptySeq
        <3>4. Len(b) = 0
            BY <1>12, <3>2, <3>3
        <3>5. Length(c) \in Nat /\ Length(c) > 0
            <4>1. Length(c) \in Nat /\ c.head + 2 <= Length(c) /\ c.head > 0 /\ c.head \in Nat
                BY <1>2, TextIs DEF Command
            <4> QED BY <4>1
        <3> QED BY <1>2, <1>3, <1>12, <3>1, <3>4, <3>5 DEF Partial
    <2> QED BY <2>1, <2>2
<1>18. Sound(fd)'
    BY <1>1, <1>4, <1>6, <1>7, <1>9, <1>11, <1>14, <1>15, <1>16, <1>17 DEF Sound, Connected
<1> QED
    BY <1>8, <1>18

LEMMA LeaveSound ==
    ASSUME Types, NEW fd \in Fds, NEW how \in {"fin", "rst"}, Leave(fd, how),
           \A x \in Fds : Sound(x)
    PROVE  \A x \in Fds : Sound(x)'
<1>1. peer' = [peer EXCEPT ![fd] = how] /\ peer[fd] = "up"
    BY DEF Leave
<1>2. UNCHANGED <<pool, io, epoll, at, wire, sent, got, conns, handled, overtaken, failed>>
    BY DEF Leave
<1>3. ASSUME NEW x \in Fds PROVE Sound(x)'
    <2>1. peer'[x] # "rst" => peer[x] # "rst"
        BY <1>1 DEF Types
    <2>2. Sound(x)
        OBVIOUS
    <2> QED BY <1>2, <2>1, <2>2 DEF Sound, Connected
<1> QED
    BY <1>3

\* What is received moves from the wire to the receive list.
LEMMA InputSound ==
    ASSUME Types, NEW fd \in Fds, Input(fd), \A x \in Fds : Sound(x)
    PROVE  \A x \in Fds : Sound(x)'
<1>1. PICK s \in GoodSlot, w \in Seq(Byte), g \in Seq(Byte), cs \in Seq(Commands), hs \in Seq(Nat) :
         s = io[fd] /\ w = wire[fd] /\ g = got[fd] /\ cs = sent[fd] /\ hs = handled[fd]
    BY NamesOf
<1>2. \A x \in Fds : x # fd => io'[x] = io[x] /\ wire'[x] = wire[x]
    BY InputTypes
<1>3. PICK buf \in Seq(Byte), rest \in Seq(Byte) :
         /\ Len(buf) > 0 /\ w = buf \o rest /\ wire'[fd] = rest
         /\ io'[fd] = [s EXCEPT !.in = Append(@, buf), !.inLen = @ + Len(buf)]
    BY <1>1, InputTypes
<1>4. /\ at.pc = "wait" /\ Connected(fd) /\ at' = [pc |-> "input", fd |-> fd, armed |-> FALSE]
      /\ UNCHANGED <<epoll, peer, sent, got, conns, handled, overtaken, failed>>
    BY DEF Input, Waiting, Connected
<1>5. ASSUME NEW x \in Fds, x # fd PROVE Sound(x)'
    <2>1. /\ ~Served(at, x) /\ ~AtCommand(at', x) /\ ~Emptying(at, x) /\ ~Emptying(at', x)
        BY <1>4, <1>5 DEF Served, AtCommand, Emptying
    <2> QED BY <1>2, <1>4, <1>5, <2>1, Elsewhere
<1>6. PICK r : r = io'[fd]
    OBVIOUS
<1>7. /\ r.in = Append(s.in, buf) /\ r.inLen = s.inLen + Len(buf)
      /\ r.out = s.out /\ r.hlen = s.hlen /\ r.blen = s.blen /\ r.write = s.write
    BY <1>3, <1>6 DEF GoodSlot, Slot
<1>8. PICK b \in Seq(Byte) : b = Bytes(s.in) /\ Len(b) \in Nat /\ s.inLen \in Nat
    BY SlotIs
<1>9. PICK rb \in Seq(Byte) : /\ rb = Bytes(r.in) /\ rb = b \o buf /\ Len(rb) = Len(b) + Len(buf)
    <2>1. s.in \in Seq(Seq(Byte))
        BY SlotIs
    <2>2. Bytes(Append(s.in, buf)) = b \o buf
        BY <1>8, <2>1, FlattenAppend DEF Bytes
    <2>3. b \o buf \in Seq(Byte) /\ Len(b \o buf) = Len(b) + Len(buf)
        BY ConcatProperties
    <2> QED BY <1>7, <2>2, <2>3
<1>10. Unlost(s, w, hs, cs) /\ InOrder(hs, cs)
    BY <1>1, <1>4 DEF Sound
<1>11. Len(buf) \in Nat
    BY LenProperties
<1>12. Known(s, hs, cs) => Known(r, hs, cs)
    <2>1. ASSUME Known(s, hs, cs) PROVE Known(r, hs, cs)
        <3>1. PICK n \in Nat : n = Len(hs) /\ n + 1 <= Len(cs)
            BY <2>1, LenProperties DEF Known
        <3>2. PICK c \in Commands : c = cs[n + 1]
            <4>1. Len(cs) \in Nat
                BY LenProperties
            <4>2. n + 1 \in 1..Len(cs)
                BY <3>1, <4>1
            <4> QED BY <4>2, ElementOfSeq
        <3>3. c.head \in Nat
            BY CommandsAssumption DEF Command
        <3>4. c.head + 2 <= Len(b)
            BY <1>8, <2>1, <3>1, <3>2 DEF Known
        <3>5. c.head + 2 <= Len(rb)
            BY <1>8, <1>9, <1>11, <3>3, <3>4
        <3> QED BY <1>7, <1>9, <2>1, <3>1, <3>2, <3>5 DEF Known
    <2> QED BY <2>1
<1>13. Unlost(r, rest, hs, cs)
    <2>1. b \o (buf \o rest) = Stream(Len(hs), cs) /\ s.inLen = Len(b)
        BY <1>3, <1>8, <1>10 DEF Unlost
    <2>2. Associate(b, buf, rest)
        BY Associates
    <2>3. rb \o rest = Stream(Len(hs), cs)
        BY <1>9, <2>1, <2>2 DEF Associate
    <2>4. r.inLen = Len(rb)
        BY <1>7, <1>9, <2>1
    <2>5. Known(r, hs, cs) \/ Unknown(r)
        BY <1>7, <1>10, <1>12 DEF Unlost, Unknown
    <2> QED BY <1>9, <2>3, <2>4, <2>5 DEF Unlost
<1>14. Answered(s, g, hs, cs) => Answered(r, g, hs, cs)
    BY <1>7 DEF Answered
<1>15. Served(at', fd) /\ ~AtCommand(at', fd) /\ ~Emptying(at', fd)
    BY <1>4 DEF Served, AtCommand, Emptying
<1>16. Sound(fd)'
    BY <1>1, <1>3, <1>4, <1>6, <1>10, <1>13, <1>14, <1>15 DEF Sound, Connected
<1> QED
    BY <1>5, <1>16

\* A connection that is over.
LEMMA CloseSound ==
    ASSUME NEW fd \in Fds, NEW quit \in BOOLEAN, NEW armed, Types, \A x \in Fds : Sound(x),
           at.pc = "wait" \/ at.fd = fd, Close(fd, quit, armed),
           \A x \in Fds : x # fd => io'[x] = io[x] /\ handled'[x] = handled[x],
           UNCHANGED <<wire, peer, sent, got>>,
           InOrder(handled'[fd], sent[fd]), Ending(io'[fd], quit)
    PROVE  \A x \in Fds : Sound(x)'
<1>1. /\ epoll' = [epoll EXCEPT ![fd] = "none"]
      /\ at' = [pc |-> "closing", fd |-> fd, quit |-> quit, armed |-> armed]
    BY DEF Close
<1>2. ASSUME NEW x \in Fds, x # fd PROVE Sound(x)'
    <2>1. /\ ~Served(at, x) /\ ~AtCommand(at', x) /\ ~Emptying(at, x) /\ ~Emptying(at', x)
        BY <1>1, <1>2 DEF Served, AtCommand, Emptying
    <2>2. epoll'[x] = epoll[x]
        BY <1>1, <1>2 DEF Types
    <2> QED BY <1>2, <2>1, <2>2, Elsewhere
<1>3. ~Connected(fd)' /\ Emptying(at', fd) /\ ~AtCommand(at', fd) /\ at'.quit = quit
    BY <1>1 DEF Types, Connected, Emptying, AtCommand
<1>4. Sound(fd)'
    BY <1>3 DEF Sound
<1> QED
    BY <1>2, <1>4

LEMMA EndOfInputSound ==
    ASSUME Types, NEW fd \in Fds, EndOfInput(fd), \A x \in Fds : Sound(x)
    PROVE  \A x \in Fds : Sound(x)'
<1>1. (\A x \in Fds : x # fd => io'[x] = io[x]) /\ io'[fd].in # << >>
    BY EndOfInputTypes
<1>2. /\ Close(fd, FALSE, FALSE) /\ at.pc = "wait"
      /\ UNCHANGED <<wire, peer, sent, got, handled>>
    BY DEF EndOfInput, sides, Waiting
<1>3. InOrder(handled'[fd], sent[fd])
    BY <1>2 DEF Sound
<1>4. Ending(io'[fd], FALSE)
    BY <1>1 DEF Ending
<1> QED
    BY <1>1, <1>2, <1>3, <1>4, CloseSound

LEMMA HangUpSound ==
    ASSUME Types, NEW fd \in Fds, HangUp(fd), \A x \in Fds : Sound(x)
    PROVE  \A x \in Fds : Sound(x)'
<1>1. /\ Close(fd, FALSE, FALSE) /\ at.pc = "wait" /\ Connected(fd)
      /\ UNCHANGED <<io, wire, peer, sent, got, handled>>
    BY DEF HangUp, sides, Waiting, Connected
<1>2. InOrder(handled'[fd], sent[fd])
    BY <1>1 DEF Sound
<1>3. Ending(io'[fd], FALSE)
    <2>1. io[fd].inLen = Len(Bytes(io[fd].in))
        BY <1>1 DEF Sound, Unlost
    <2>2. io[fd].in = << >> => io[fd].inLen = 0
        BY <2>1, FlattenNil, EmptySeq DEF Bytes
    <2> QED BY <1>1, <2>2 DEF Ending
<1> QED
    BY <1>1, <1>2, <1>3, CloseSound

\* A header that is found is that of the first command not handled: what is
\* remembered of it, now or since an earlier part of it was served, is true.
LEMMA MeasuredKnown ==
    ASSUME Types, NEW fd \in Fds, HasHeader(fd), InOrder(handled[fd], sent[fd]),
           Unlost(io[fd], wire[fd], handled[fd], sent[fd])
    PROVE  Known(Measured(fd, HeaderLen(fd), Parsed(fd, HeaderLen(fd))), handled[fd], sent[fd])
<1>1. PICK s \in GoodSlot, w \in Seq(Byte), cs \in Seq(Commands), hs \in Seq(Nat) :
         s = io[fd] /\ w = wire[fd] /\ cs = sent[fd] /\ hs = handled[fd]
    BY NamesOf
<1>2. PICK b \in Seq(Byte) : b = Bytes(s.in) /\ Len(b) \in Nat
    BY SlotIs
<1>3. PICK n \in Nat, l \in Nat : n = Len(hs) /\ l = Len(cs) /\ n <= l
    BY <1>1, LenProperties DEF InOrder
<1>4. b \o w = Stream(n, cs)
    BY <1>1, <1>2, <1>3 DEF Unlost
<1>5. s.in # << >> /\ (s.hlen > 0 \/ Newlines(fd, b) # {})
    BY <1>1, <1>2 DEF HasHeader
<1>6. s.hlen \in Nat /\ s.blen \in -1..ValueLimit /\ ValueLimit \in Nat
    BY SlotIs, SizesAssumption
<1>7. PICK h, k : h = HeaderLen(fd) /\ k = Parsed(fd, h)
    OBVIOUS
<1>8. h = IF s.hlen > 0 THEN s.hlen ELSE Max({0, Min(Newlines(fd, b)) - 2})
    BY <1>1, <1>2, <1>7 DEF HeaderLen
<1>9. PICK r : r = Measured(fd, h, k)
    OBVIOUS
<1>10. r = IF s.blen >= 0 THEN [s EXCEPT !.hlen = h]
           ELSE [s EXCEPT !.hlen = h, !.blen = BodyLen(fd, k), !.write = k # 0 /\ cs[k].write]
    BY <1>1, <1>9 DEF Measured
<1>11. r.in = s.in /\ r.hlen = h
    BY <1>10 DEF GoodSlot, Slot
<1>12. CASE Known(s, hs, cs)
    <2>1. PICK c \in Commands : c = cs[n + 1]
        <3>1. n + 1 \in 1..l
            BY <1>3, <1>12 DEF Known
        <3> QED BY <1>3, <3>1, ElementOfSeq
    <2>2. c.head \in Nat /\ c.head > 0 /\ c.body \in Nat
        BY CommandsAssumption DEF Command
    <2>3. s.hlen = c.head /\ s.blen = c.body
        BY <1>3, <1>12, <2>1 DEF Known
    <2>4. h = s.hlen /\ s.blen >= 0
        BY <1>8, <2>2, <2>3
    <2>5. r.hlen = s.hlen /\ r.blen = s.blen /\ r.write = s.write
        BY <1>10, <2>4 DEF GoodSlot, Slot
    <2>6. Known(r, hs, cs)
        BY <1>11, <1>12, <2>5 DEF Known
    <2> QED BY <1>1, <1>7, <1>9, <2>6
<1>13. CASE Unknown(s)
    <2>1. s.hlen = 0 /\ s.blen = -1
        BY <1>13 DEF Unknown
    <2>2. Newlines(fd, b) # {}
        BY <1>5, <2>1
    <2>3. n + 1 <= l
        <3>1. CASE n = l
            <4>1. b \o w = << >>
                BY <1>3, <1>4, <3>1, StreamEnd
            <4>2. Len(b \o w) = Len(b) + Len(w) /\ Len(w) \in Nat /\ Len(<< >>) = 0
                BY ConcatProperties, LenProperties, EmptySeq
            <4>3. Len(b) = 0
                BY <1>2, <4>1, <4>2
            <4>4. Newlines(fd, b) = {}
                BY <4>3 DEF Newlines
            <4> QED BY <2>2, <4>4
        <3>2. CASE n # l
            BY <1>3, <3>2
        <3> QED BY <3>1, <3>2
    <2>4. PICK c \in Commands : c = cs[n + 1]
        <3>1. n + 1 \in 1..l
            BY <2>3
        <3> QED BY <1>3, <3>1, ElementOfSeq
    <2>5. c.head \in Nat /\ c.head > 0 /\ c.body \in Nat /\ c.body <= ValueLimit
        BY CommandsAssumption DEF Command
    <2>6. Min(Newlines(fd, b)) = c.head + 2 /\ c.head + 2 <= Len(b)
        BY <1>1, <1>3, <1>4, <2>2, <2>3, <2>4, FirstLine, ZenonT(60)
    <2>7. h = c.head
        <3>1. PICK z \in Int, e \in Int : z = 0 /\ e = c.head
            BY <2>5
        <3>2. Max({z, e}) \in {z, e} /\ Max({z, e}) >= e
            BY MaxOfTwo
        <3>3. (e + 2) - 2 = e
            OBVIOUS
        <3>4. h = Max({z, e})
            <4>1. h = Max({0, Min(Newlines(fd, b)) - 2})
                BY <1>8, <2>1
            <4>2. Min(Newlines(fd, b)) - 2 = e
                BY <2>6, <3>1, <3>3
            <4> QED BY <3>1, <4>1, <4>2
        <3> QED BY <2>5, <3>1, <3>2, <3>4
    <2>8. k = n + 1
        <3>1. c.head <= Len(b)
            BY <1>2, <2>5, <2>6
        <3>2. cs[n + 1].head <= Len(b) /\ n + 1 <= Len(cs)
            BY <1>3, <2>3, <2>4, <3>1
        <3>3. cs = sent[fd] /\ b = Bytes(io[fd].in)
            BY <1>1, <1>2
        <3>4. Parsed(fd, cs[n + 1].head) = n + 1
            BY <1>4, <3>2, <3>3, ParsedIs
        <3> QED BY <1>7, <2>4, <2>7, <3>4
    <2>9. k # 0 /\ cs[k] = c
        BY <2>4, <2>8
    <2>10. BodyLen(fd, k) = c.body
        <3>1. BodyLen(fd, k) = Min({c.body, ValueLimit})
            BY <1>1, <2>9 DEF BodyLen
        <3>2. PICK v \in Int, d \in Int : v = ValueLimit /\ d = c.body
            BY <1>6, <2>5
        <3>3. Min({d, v}) \in {d, v} /\ Min({d, v}) <= d /\ Min({d, v}) <= v
            BY MinOfTwo
        <3> QED BY <2>5, <3>1, <3>2, <3>3
    <2>11. c.write \in BOOLEAN
        BY CommandsAssumption DEF Command
    <2>12. r.blen = c.body /\ r.write = c.write
        BY <1>10, <2>1, <2>9, <2>10, <2>11 DEF GoodSlot, Slot
    <2>13. Known(r, hs, cs)
        BY <1>2, <1>3, <1>11, <2>3, <2>4, <2>6, <2>7, <2>12 DEF Known
    <2> QED BY <1>1, <1>7, <1>9, <2>13
<1> QED
    BY <1>1, <1>12, <1>13 DEF Unlost

LEMMA MeasureSound ==
    ASSUME Types, NEW fd \in Fds, Measure(fd), \A x \in Fds : Sound(x)
    PROVE  \A x \in Fds : Sound(x)'
<1>1. PICK s \in GoodSlot, w \in Seq(Byte), g \in Seq(Byte), cs \in Seq(Commands), hs \in Seq(Nat) :
         s = io[fd] /\ w = wire[fd] /\ g = got[fd] /\ cs = sent[fd] /\ hs = handled[fd]
    BY NamesOf
<1>2. /\ at.pc = "input" /\ at.fd = fd /\ HasHeader(fd) /\ at' = [at EXCEPT !.pc = "measured"]
      /\ UNCHANGED <<epoll, wire, peer, sent, got, handled>>
    BY DEF Measure, Serving, sides
<1>3. at'.pc = "measured" /\ at'.fd = fd
    BY <1>2 DEF Types, Worker
<1>4. /\ \A x \in Fds : x # fd => io'[x] = io[x]
      /\ io'[fd] = Measured(fd, HeaderLen(fd), Parsed(fd, HeaderLen(fd)))
      /\ io'[fd].in = s.in /\ io'[fd].out = s.out /\ io'[fd].inLen = s.inLen
    BY <1>1, MeasureTypes
<1>5. ASSUME NEW x \in Fds, x # fd PROVE Sound(x)'
    <2>1. ~Served(at, x) /\ ~AtCommand(at', x) /\ ~Emptying(at, x) /\ ~Emptying(at', x)
        BY <1>2, <1>3, <1>5 DEF Served, AtCommand, Emptying
    <2> QED BY <1>2, <1>4, <1>5, <2>1, Elsewhere
<1>6. Sound(fd) /\ ~Emptying(at, fd) /\ s.in # << >>
    BY <1>1, <1>2 DEF Emptying, HasHeader
<1>7. Connected(fd) /\ InOrder(hs, cs) /\ Unlost(s, w, hs, cs)
    BY <1>1, <1>6 DEF Sound, Empty
<1>8. Known(io'[fd], hs, cs)
    BY <1>1, <1>2, <1>4, <1>7, MeasuredKnown
<1>9. Unlost(io'[fd], w, hs, cs)
    BY <1>4, <1>7, <1>8 DEF Unlost
<1>10. Answered(s, g, hs, cs) => Answered(io'[fd], g, hs, cs)
    BY <1>4 DEF Answered
<1>11. Served(at', fd) /\ ~Emptying(at', fd)
    BY <1>3 DEF Served, Emptying
<1>12. Sound(fd)'
    BY <1>1, <1>2, <1>6, <1>7, <1>8, <1>9, <1>10, <1>11 DEF Sound, Connected
<1> QED
    BY <1>5, <1>12

\* The rest of the rest of a sequence.
LEMMA RestOfRest ==
    ASSUME NEW S, NEW s \in Seq(S), NEW j \in Nat, NEW k \in Nat, j + k <= Len(s)
    PROVE  /\ SubSeq(s, j + 1, Len(s)) \in Seq(S) /\ Len(SubSeq(s, j + 1, Len(s))) = Len(s) - j
           /\ SubSeq(SubSeq(s, j + 1, Len(s)), k + 1, Len(s) - j) = SubSeq(s, j + k + 1, Len(s))
<1>1. Len(s) \in Nat
    BY LenProperties
<1>2. j \in 0..Len(s)
    BY <1>1
<1>3. PICK p \in Seq(S), t \in Seq(S) :
         /\ p = SubSeq(s, 1, j) /\ t = SubSeq(s, j + 1, Len(s))
         /\ Len(p) = j /\ Len(t) = Len(s) - j /\ p \o t = s
    <2>1. /\ SubSeq(s, 1, j) \in Seq(S) /\ Len(SubSeq(s, 1, j)) = j
          /\ SubSeq(s, j + 1, Len(s)) \in Seq(S) /\ Len(SubSeq(s, j + 1, Len(s))) = Len(s) - j
          /\ SubSeq(s, 1, j) \o SubSeq(s, j + 1, Len(s)) = s
        BY <1>2, Split
    <2> QED BY <2>1
<1>4. k \in 0..Len(t)
    BY <1>1, <1>3
<1>5. SubSeq(p \o t, Len(p) + k + 1, Len(p \o t)) = SubSeq(t, k + 1, Len(t))
    BY <1>4, RestOfSecond
<1> QED
    BY <1>3, <1>5

\* Once the lengths say so, the first command not handled has arrived whole;
\* it is recognised, and taking its header and body out of the list leaves
\* those behind it.
LEMMA WholeIs ==
    ASSUME Types, NEW fd \in Fds, NEW n \in Nat, n = Len(handled[fd]),
           Known(io[fd], handled[fd], sent[fd]),
           Unlost(io[fd], wire[fd], handled[fd], sent[fd]), IsWhole(fd)
    PROVE  /\ n + 1 <= Len(sent[fd]) /\ sent[fd][n + 1] \in Commands
           /\ Parsed(fd, io[fd].hlen) = n + 1 /\ ReadAs(fd, n + 1) = n + 1
           /\ io[fd].write = sent[fd][n + 1].write
           /\ Length(sent[fd][n + 1]) = io[fd].hlen + io[fd].blen + IF io[fd].write THEN 4 ELSE 2
           /\ Length(sent[fd][n + 1]) <= io[fd].inLen
           /\ Len(Bytes(AfterCommand(io[fd]))) = io[fd].inLen - Length(sent[fd][n + 1])
           /\ Bytes(AfterCommand(io[fd])) \o wire[fd] = Stream(n + 1, sent[fd])
           /\ io[fd].write => AfterHeader(io[fd]) # << >>
<1>1. PICK s \in GoodSlot, w \in Seq(Byte), cs \in Seq(Commands) :
         s = io[fd] /\ w = wire[fd] /\ cs = sent[fd]
    BY NamesOf
<1>2. PICK b \in Seq(Byte) : b = Bytes(s.in) /\ Len(b) \in Nat /\ s.inLen = Len(b)
    BY <1>1, SlotIs DEF Unlost
<1>3. PICK l \in Nat : l = Len(cs) /\ n + 1 <= l
    BY <1>1, LenProperties DEF Known
<1>4. b \o w = Stream(n, cs)
    BY <1>1, <1>2 DEF Unlost
<1>5. PICK c \in Commands : c = cs[n + 1]
    <2>1. n + 1 \in 1..l
        BY <1>3
    <2> QED BY <1>3, <2>1, ElementOfSeq
<1>6. PICK hd \in Nat, bd \in Nat : hd = c.head /\ bd = c.body
    BY CommandsAssumption DEF Command
<1>7. s.hlen = hd /\ s.blen = bd /\ s.write = c.write /\ hd + 2 <= Len(b) /\ c.write \in BOOLEAN
    BY <1>1, <1>2, <1>5, <1>6, CommandsAssumption DEF Known, Command
<1>8. PICK k \in Nat : k = Length(c)
    BY TextIs
<1>9. (c.write => k = hd + bd + 4) /\ (~c.write => k = hd + 2 /\ bd = 0)
    <2>1. (c.write => k = hd + 2 + bd + 2) /\ (~c.write => k = hd + 2 /\ bd = 0)
        BY <1>6, <1>8, TextIs
    <2>2. hd + 2 + bd + 2 = hd + bd + 4
        OBVIOUS
    <2> QED BY <2>1, <2>2
<1>10. k <= Len(b)
    <2>1. CASE c.write
        <3>1. s.inLen >= s.hlen + 4 + s.blen
            BY <1>1, <1>7, <2>1 DEF IsWhole, HasBody
        <3> QED BY <1>2, <1>7, <1>9, <2>1, <3>1
    <2>2. CASE ~c.write
        BY <1>7, <1>9, <2>2
    <2> QED BY <2>1, <2>2
<1>11. Parsed(fd, hd) = n + 1
    <2>1. cs[n + 1].head <= Len(b) /\ n + 1 <= Len(cs) /\ cs[n + 1].head = hd
        BY <1>2, <1>3, <1>5, <1>6, <1>7
    <2>2. cs = sent[fd] /\ b = Bytes(io[fd].in)
        BY <1>1, <1>2
    <2>3. Parsed(fd, cs[n + 1].head) = n + 1
        BY <1>4, <2>1, <2>2, ParsedIs, ZenonT(60)
    <2> QED BY <2>1, <2>3
<1>12. ReadAs(fd, n + 1) = n + 1
    <2>1. IsPrefix(SubSeq(Text(n + 1, cs[n + 1]), 1, Length(cs[n + 1]) - 2), b)
        BY <1>3, <1>4, <1>5, <1>8, <1>10, PrefixIs
    <2>2. io[fd].blen = sent[fd][n + 1].body /\ n + 1 # 0
        BY <1>1, <1>5, <1>6, <1>7
    <2> QED BY <1>1, <1>2, <2>1, <2>2 DEF ReadAs
<1>13. PICK ah : /\ ah = AfterHeader(s) /\ ah \in Seq(Seq(Byte))
                 /\ Bytes(ah) = SubSeq(b, hd + 2 + 1, Len(b))
    <2>1. s.in \in Seq(Seq(Byte))
        BY SlotIs
    <2>2. PICK j \in Nat : j = hd + 2
        OBVIOUS
    <2>3. /\ Drop(s.in, j) \in Seq(Seq(Byte))
          /\ j <= Len(b) => Bytes(Drop(s.in, j)) = SubSeq(b, j + 1, Len(b))
        BY <1>2, <2>1, DropIs
    <2> QED BY <1>7, <2>2, <2>3 DEF AfterHeader
<1>14. Bytes(AfterCommand(s)) = SubSeq(b, k + 1, Len(b))
    <2>1. CASE c.write
        <3>1. PICK i \in Nat, j \in Nat : i = hd + 2 /\ j = bd + 2
            OBVIOUS
        <3>2. i + j = k
            BY <1>9, <2>1, <3>1
        <3>3. Bytes(ah) = SubSeq(b, i + 1, Len(b))
            BY <1>13, <3>1
        <3>4. /\ Len(Bytes(ah)) = Len(b) - i
              /\ SubSeq(Bytes(ah), j + 1, Len(b) - i) = SubSeq(b, i + j + 1, Len(b))
            <4>1. i + j <= Len(b)
                BY <1>10, <3>2
            <4>2. /\ Len(SubSeq(b, i + 1, Len(b))) = Len(b) - i
                  /\ SubSeq(SubSeq(b, i + 1, Len(b)), j + 1, Len(b) - i)
                        = SubSeq(b, i + j + 1, Len(b))
                BY <4>1, RestOfRest, ZenonT(60)
            <4> QED BY <3>3, <4>2
        <3>5. j <= Len(Bytes(ah))
            BY <1>2, <1>10, <3>2, <3>4
        <3>6. Bytes(Drop(ah, j)) = SubSeq(Bytes(ah), j + 1, Len(Bytes(ah)))
            BY <1>13, <3>5, DropIs
        <3>7. AfterCommand(s) = Drop(ah, j)
            BY <1>7, <1>13, <2>1, <3>1 DEF AfterCommand
        <3> QED BY <3>2, <3>4, <3>6, <3>7
    <2>2. CASE ~c.write
        BY <1>7, <1>9, <1>13, <2>2 DEF AfterCommand
    <2> QED BY <2>1, <2>2
<1>15. Len(Bytes(AfterCommand(s))) = Len(b) - k
    <2>1. k \in 0..Len(b)
        BY <1>2, <1>10
    <2>2. Len(SubSeq(b, k + 1, Len(b))) = Len(b) - k
        BY <2>1, Split
    <2> QED BY <1>14, <2>2
<1>16. Bytes(AfterCommand(s)) \o w = Stream(n + 1, cs)
    <2>1. Length(cs[n + 1]) <= Len(b) =>
             SubSeq(b, Length(cs[n + 1]) + 1, Len(b)) \o w = Stream(n + 1, cs)
        BY <1>3, <1>4, FirstBytes
    <2> QED BY <1>5, <1>8, <1>10, <1>14, <2>1
<1>17. c.write => ah # << >>
    <2>1. SUFFICES ASSUME c.write, ah = << >> PROVE FALSE
        OBVIOUS
    <2>2. Bytes(ah) = << >>
        BY <2>1, FlattenNil DEF Bytes
    <2>3. PICK i \in Nat : i = hd + 2 /\ i \in 0..Len(b)
        BY <1>2, <1>7
    <2>4. Len(SubSeq(b, i + 1, Len(b))) = Len(b) - i
        BY <2>3, Split
    <2>5. Len(b) - i = 0
        BY <1>13, <2>2, <2>3, <2>4, EmptySeq
    <2> QED BY <1>2, <1>9, <1>10, <2>1, <2>3, <2>5
<1>18. k = hd + bd + IF c.write THEN 4 ELSE 2
    BY <1>9
<1> QED
    BY <1>1, <1>2, <1>3, <1>5, <1>7, <1>8, <1>10, <1>11, <1>12, <1>13, <1>15, <1>16, <1>17, <1>18

\* What quitting makes of the slot and of the worker.
Quits1(fd, n, rest) ==
    /\ io'[fd] = [io[fd] EXCEPT !.in = rest]
    /\ handled'[fd] = Append(handled[fd], ReadAs(fd, n))
    /\ \A x \in Fds : x # fd => handled'[x] = handled[x]
    /\ Close(fd, TRUE, at.armed)
    /\ UNCHANGED <<sides, got, overtaken, failed>>

IsQuit(fd, n) == n # 0 /\ sent[fd][n].quit

LEMMA ServeTypes ==
    ASSUME Types, NEW fd \in Fds, Serve(fd)
    PROVE  /\ Types' /\ pool' + InUse' = pool + InUse
           /\ \A x \in Fds : x # fd => io'[x] = io[x]
           /\ \E n \in {Parsed(fd, io[fd].hlen)}, rest \in {AfterCommand(io[fd])} :
                 \/ Fail("alloc_buf")
                 \/ ~IsQuit(fd, n) /\ Answers1(fd, n, rest)
                 \/ IsQuit(fd, n) /\ Quits1(fd, n, rest)
<1>1. PICK n, rest, freed :
         /\ n = Parsed(fd, io[fd].hlen) /\ rest = AfterCommand(io[fd])
         /\ freed = Len(io[fd].in) - Len(rest)
         /\ IF IsQuit(fd, n) THEN AnswerQuit(fd, n, rest, freed) ELSE Answer(fd, n, rest, freed)
    BY DEF Serve, IsQuit
<1>2. Serving(fd, "measured")
    BY DEF Serve
<1>3. n \in 0..Len(sent[fd])
    <2>1. PICK cs \in Seq(Commands) : cs = sent[fd]
        BY NamesOf
    <2> QED BY <1>1, <2>1, ParsedType
<1>4. /\ rest \in Seq(Seq(Byte)) /\ Filled(rest, Unit)
      /\ freed \in Nat /\ Len(io[fd].in) = Len(rest) + freed
    <2>1. io[fd] \in GoodSlot
        BY NamesOf
    <2>2. /\ rest \in Seq(Seq(Byte)) /\ Filled(rest, Unit)
          /\ Len(rest) \in Nat /\ Len(rest) <= Len(io[fd].in)
        BY <1>1, <2>1, AfterIs
    <2>3. Len(io[fd].in) \in Nat
        BY <2>1, SlotIs
    <2> QED BY <1>1, <2>2, <2>3
<1>5. CASE IsQuit(fd, n)
    <2>1. AnswerQuit(fd, n, rest, freed)
        BY <1>1, <1>5
    <2>2. /\ Types' /\ pool' + InUse' = pool + InUse
          /\ \A x \in Fds : x # fd => io'[x] = io[x] /\ handled'[x] = handled[x]
          /\ io'[fd] = [io[fd] EXCEPT !.in = rest]
          /\ handled'[fd] = Append(handled[fd], ReadAs(fd, n))
        BY <1>2, <1>3, <1>4, <2>1, QuitTypes
    <2>3. Close(fd, TRUE, at.armed) /\ UNCHANGED <<sides, got, overtaken, failed>>
        BY <2>1 DEF AnswerQuit
    <2> QED BY <1>1, <1>5, <2>2, <2>3 DEF Quits1
<1>6. CASE ~IsQuit(fd, n)
    <2>1. Answer(fd, n, rest, freed)
        BY <1>1, <1>6
    <2>2. /\ Types' /\ pool' + InUse' = pool + InUse
          /\ \A x \in Fds : x # fd => io'[x] = io[x]
          /\ Fail("alloc_buf") \/ Answers1(fd, n, rest)
        BY <1>2, <1>3, <1>4, <2>1, AnswerTypes
    <2> QED BY <1>1, <1>6, <2>2
<1> QED
    BY <1>5, <1>6

\* The process stops, and nothing else.
LEMMA FailSound ==
    ASSUME NEW what, Fail(what), \A x \in Fds : Sound(x)
    PROVE  \A x \in Fds : Sound(x)'
<1>1. UNCHANGED <<io, epoll, at, wire, peer, sent, got, handled>>
    BY DEF Fail, sides
<1> QED
    BY <1>1 DEF Sound, Connected

\* The command that has arrived whole is handled, and the next one is first.
LEMMA ServeSound ==
    ASSUME Types, NEW fd \in Fds, Serve(fd), \A x \in Fds : Sound(x)
    PROVE  \A x \in Fds : Sound(x)'
<1>1. PICK s \in GoodSlot, w \in Seq(Byte), g \in Seq(Byte), cs \in Seq(Commands), hs \in Seq(Nat) :
         s = io[fd] /\ w = wire[fd] /\ g = got[fd] /\ cs = sent[fd] /\ hs = handled[fd]
    BY NamesOf
<1>2. at.pc = "measured" /\ at.fd = fd /\ IsWhole(fd)
    BY DEF Serve, Serving
<1>3. /\ Connected(fd) /\ InOrder(hs, cs) /\ Known(s, hs, cs) /\ Unlost(s, w, hs, cs)
      /\ peer[fd] # "rst" => Answered(s, g, hs, cs)
    BY <1>1, <1>2 DEF Sound, AtCommand
<1>4. PICK m \in Nat, n \in Nat : m = Len(hs) /\ n = m + 1
    BY LenProperties
<1>5. PICK c \in Commands, k \in Nat, b \in Seq(Byte), left \in Nat :
         /\ n <= Len(cs) /\ c = cs[n] /\ k = Length(c) /\ b = Bytes(AfterCommand(s))
         /\ Parsed(fd, s.hlen) = n /\ ReadAs(fd, n) = n /\ s.write = c.write
         /\ k = s.hlen + s.blen + IF s.write THEN 4 ELSE 2
         /\ s.inLen = k + left /\ Len(b) = left /\ b \o w = Stream(n, cs)
    <2>1. /\ n <= Len(cs) /\ cs[n] \in Commands
          /\ Parsed(fd, s.hlen) = n /\ ReadAs(fd, n) = n
          /\ s.write = cs[n].write
          /\ Length(cs[n]) = s.hlen + s.blen + IF s.write THEN 4 ELSE 2
          /\ Length(cs[n]) <= s.inLen
          /\ Len(Bytes(AfterCommand(s))) = s.inLen - Length(cs[n])
          /\ Bytes(AfterCommand(s)) \o w = Stream(n, cs)
        BY <1>1, <1>2, <1>3, <1>4, WholeIs
    <2>2. Length(cs[n]) \in Nat /\ s.inLen \in Nat
        BY <2>1, SlotIs, TextIs
    <2>3. Bytes(AfterCommand(s)) \in Seq(Byte)
        <3>1. AfterCommand(s) \in Seq(Seq(Byte))
            BY AfterIs
        <3> QED BY <3>1, FlattenType DEF Bytes
    <2>4. s.inLen - Length(cs[n]) \in Nat /\ s.inLen = Length(cs[n]) + (s.inLen - Length(cs[n]))
        BY <2>1, <2>2
    <2> QED BY <2>1, <2>2, <2>3, <2>4
<1>6. PICK hs1 \in Seq(Nat) : /\ hs1 = Append(hs, n) /\ Len(hs1) = n /\ InOrder(hs1, cs)
    <2>1. /\ Append(hs, n) \in Seq(Nat) /\ Len(Append(hs, n)) = m + 1
          /\ Append(hs, n)[m + 1] = n /\ \A j \in 1..m : Append(hs, n)[j] = hs[j]
        BY <1>4, AppendProperties
    <2>2. \A j \in 1..n : j = m + 1 \/ j \in 1..m
        BY <1>4
    <2> QED BY <1>3, <1>4, <1>5, <2>1, <2>2 DEF InOrder
<1>7. PICK rest : rest = AfterCommand(s) /\ Bytes(rest) = b
    BY <1>5
<1>8. /\ \A x \in Fds : x # fd => io'[x] = io[x]
      /\ \/ Fail("alloc_buf")
         \/ ~IsQuit(fd, n) /\ Answers1(fd, n, rest)
         \/ IsQuit(fd, n) /\ Quits1(fd, n, rest)
    BY <1>1, <1>5, <1>7, ServeTypes
<1>9. CASE Fail("alloc_buf")
    BY <1>9, FailSound
<1>10. CASE ~IsQuit(fd, n) /\ Answers1(fd, n, rest)
    <2>0. PICK out \in Seq(Seq(Byte)) :
             /\ Proper(out) /\ Bytes(out) = Bytes(s.out) \o Reply(fd, n)
             /\ io'[fd] = Fixed([s EXCEPT !.in = rest, !.out = out])
        BY <1>1, <1>10 DEF Answers1
    <2>1. PICK t, r : /\ Proper(out) /\ Bytes(out) = Bytes(s.out) \o Reply(fd, n)
                      /\ t = [s EXCEPT !.in = rest, !.out = out] /\ io'[fd] = r /\ r = Fixed(t)
        BY <2>0
    <2>2. t \in GoodSlot /\ t.in = rest /\ t.out = out /\ t.inLen = s.inLen
          /\ t.hlen = s.hlen /\ t.blen = s.blen /\ t.write = s.write
        <3>1. rest \in Seq(Seq(Byte)) /\ Filled(rest, Unit)
            BY <1>7, AfterIs
        <3>2. t \in GoodSlot
            BY <2>1, <3>1, SlotIs, SlotWith
        <3> QED BY <2>1, <3>2 DEF GoodSlot, Slot
    <2>3. k = t.hlen + t.blen + IF t.write THEN 4 ELSE 2
        BY <1>5, <2>2
    <2>4. /\ r.in = t.in /\ r.out = t.out /\ Unknown(r)
          /\ r.inLen = IF k <= t.inLen THEN t.inLen - k ELSE 0
        <3>1. t \in GoodSlot /\ k \in Int
            BY <2>2
        <3>2. /\ Fixed(t).in = t.in /\ Fixed(t).out = t.out /\ Unknown(Fixed(t))
              /\ Fixed(t).inLen = IF k <= t.inLen THEN t.inLen - k ELSE 0
            BY <2>3, <3>1, FixedIs
        <3> QED BY <2>1, <3>2
    <2>5. r.in = rest /\ r.out = out /\ r.inLen = left
        BY <1>5, <2>2, <2>4
    <2>6. /\ handled'[fd] = hs1
          /\ \A x \in Fds : x # fd => handled'[x] = handled[x]
          /\ at'.pc = "input" /\ at'.fd = fd
          /\ UNCHANGED <<epoll, wire, peer, sent, got>>
        BY <1>1, <1>5, <1>6, <1>10 DEF Answers1, sides
    <2>7. Unlost(r, w, hs1, cs)
        BY <1>5, <1>6, <1>7, <2>4, <2>5 DEF Unlost
    <2>8. Answered(s, g, hs, cs) => Answered(r, g, hs1, cs)
        <3>1. Reply(fd, n) = ReplyTo(n, c)
            BY <1>1, <1>4, <1>5 DEF Reply, ReplyTo
        <3>2. PICK p \in Seq(Byte), o \in Seq(Byte) : p = ReplyTo(n, c) /\ o = Bytes(s.out)
            BY ReplyIs, SlotIs
        <3>3. Answers(n, cs) = Answers(m, cs) \o p
            BY <1>4, <1>5, <3>2, AnswersNext
        <3>4. Associate(g, o, p)
            BY Associates
        <3>5. Bytes(r.out) = o \o p
            BY <2>1, <2>5, <3>1, <3>2
        <3>6. ASSUME g \o o = Answers(m, cs) PROVE g \o (o \o p) = Answers(n, cs)
            BY <3>3, <3>4, <3>6 DEF Associate
        <3> QED BY <1>4, <1>6, <3>2, <3>5, <3>6 DEF Answered
    <2>9. ASSUME NEW x \in Fds, x # fd PROVE Sound(x)'
        <3>1. ~Served(at, x) /\ ~AtCommand(at', x) /\ ~Emptying(at, x) /\ ~Emptying(at', x)
            BY <1>2, <2>6, <2>9 DEF Served, AtCommand, Emptying
        <3> QED BY <1>8, <2>6, <2>9, <3>1, Elsewhere
    <2>10. Served(at', fd) /\ ~AtCommand(at', fd) /\ ~Emptying(at', fd)
        BY <2>6 DEF Served, AtCommand, Emptying
    <2>11. Sound(fd)'
        BY <1>1, <1>3, <1>6, <2>1, <2>6, <2>7, <2>8, <2>10 DEF Sound, Connected
    <2> QED BY <2>9, <2>11
<1>11. CASE IsQuit(fd, n) /\ Quits1(fd, n, rest)
    <2>1. /\ io'[fd] = [s EXCEPT !.in = rest] /\ handled'[fd] = hs1
          /\ \A x \in Fds : x # fd => io'[x] = io[x] /\ handled'[x] = handled[x]
          /\ Close(fd, TRUE, at.armed) /\ UNCHANGED <<wire, peer, sent, got>>
        BY <1>1, <1>5, <1>6, <1>8, <1>11 DEF Quits1, sides
    <2>2. c.quit /\ ~c.write /\ c.body = 0
        BY <1>1, <1>5, <1>11, CommandsAssumption DEF IsQuit
    <2>3. s.blen = 0 /\ ~s.write
        BY <1>3, <1>4, <1>5, <2>2 DEF Known
    <2>4. rest = << >> => s.inLen = s.hlen + s.blen + 2
        <3>1. ASSUME rest = << >> PROVE left = 0
            BY <1>5, <1>7, <3>1, FlattenNil, EmptySeq DEF Bytes
        <3> QED BY <1>5, <2>3, <3>1
    <2>5. /\ io'[fd].in = rest /\ io'[fd].inLen = s.inLen /\ io'[fd].hlen = s.hlen
          /\ io'[fd].blen = s.blen /\ io'[fd].write = s.write
        BY <2>1 DEF GoodSlot, Slot
    <2>6. Ending(io'[fd], TRUE)
        BY <2>3, <2>4, <2>5 DEF Ending
    <2> QED BY <1>1, <1>2, <1>6, <2>1, <2>6, CloseSound
<1> QED
    BY <1>8, <1>9, <1>10, <1>11

\* read_body finds the body: the assertion does not fail.
LEMMA BodyArrived ==
    ASSUME Types, NEW fd \in Fds, NoBody(fd), \A x \in Fds : Sound(x)
    PROVE  FALSE
<1>1. /\ at.pc = "measured" /\ at.fd = fd /\ io[fd].write /\ HasBody(io[fd])
      /\ AfterHeader(io[fd]) = << >>
    BY DEF NoBody, Serving
<1>2. /\ Known(io[fd], handled[fd], sent[fd])
      /\ Unlost(io[fd], wire[fd], handled[fd], sent[fd])
    BY <1>1 DEF Sound, AtCommand
<1>3. PICK n \in Nat : n = Len(handled[fd])
    BY NamesOf
<1>4. IsWhole(fd)
    BY <1>1 DEF IsWhole
<1> QED
    BY <1>1, <1>2, <1>3, <1>4, WholeIs

\* The worker goes back to epoll_wait only when what is in the receive list is
\* less than a command.
LEMMA EndInputSound ==
    ASSUME Types, NEW fd \in Fds, EndInput(fd), \A x \in Fds : Sound(x)
    PROVE  \A x \in Fds : Sound(x)'
<1>1. PICK s \in GoodSlot, w \in Seq(Byte), cs \in Seq(Commands), hs \in Seq(Nat) :
         s = io[fd] /\ w = wire[fd] /\ cs = sent[fd] /\ hs = handled[fd]
    BY NamesOf
<1>2. /\ at.pc \in {"input", "measured"} /\ at.fd = fd /\ at' = [pc |-> "wait"]
      /\ UNCHANGED <<io, wire, peer, sent, got, handled>>
      /\ at.pc = "input" => ~HasHeader(fd)
      /\ at.pc = "measured" => ~IsWhole(fd)
    BY DEF EndInput, Serving, sides
<1>3. /\ \A x \in Fds : x # fd => epoll'[x] = epoll[x]
      /\ Connected(fd)' <=> Connected(fd)
    BY DEF EndInput, Armed, Types, Connected
<1>4. /\ \A x : ~Served(at', x) /\ ~AtCommand(at', x) /\ ~Emptying(at', x)
      /\ \A x : x # fd => ~Served(at, x)
      /\ \A x : ~Emptying(at, x)
    BY <1>2 DEF Served, AtCommand, Emptying
<1>5. ASSUME NEW x \in Fds, x # fd PROVE Sound(x)'
    BY <1>2, <1>3, <1>4, <1>5, Elsewhere
<1>6. Sound(fd)
    OBVIOUS
<1>7. ASSUME Connected(fd), Len(hs) + 1 <= Len(cs) PROVE Len(Bytes(s.in)) < Length(cs[Len(hs) + 1])
    <2>1. Unlost(s, w, hs, cs)
        BY <1>1, <1>6, <1>7 DEF Sound
    <2>2. PICK n \in Nat, l \in Nat : n = Len(hs) /\ l = Len(cs) /\ n + 1 <= l
        BY <1>7, LenProperties
    <2>3. PICK b \in Seq(Byte) : b = Bytes(s.in) /\ Len(b) \in Nat /\ s.inLen = Len(b)
        BY <2>1, SlotIs DEF Unlost
    <2>4. b \o w = Stream(n, cs)
        BY <2>1, <2>2, <2>3 DEF Unlost
    <2>5. PICK c \in Commands : c = cs[n + 1]
        <3>1. n + 1 \in 1..l
            BY <2>2
        <3> QED BY <2>2, <3>1, ElementOfSeq
    <2>6. PICK hd \in Nat, bd \in Nat, k \in Nat :
             /\ hd = c.head /\ bd = c.body /\ k = Length(c) /\ hd > 0 /\ hd + 2 <= k
             /\ c.write => k = hd + 2 + bd + 2
        <3>1. c.head \in Nat /\ c.body \in Nat
            BY CommandsAssumption DEF Command
        <3>2. /\ Length(c) \in Nat /\ c.head > 0 /\ c.head + 2 <= Length(c)
              /\ c.write => Length(c) = c.head + 2 + c.body + 2
            BY <2>2, TextIs
        <3> QED BY <3>1, <3>2
    <2>7. CASE at.pc = "input"
        <3>1. s.in = << >> \/ (~(s.hlen > 0) /\ Newlines(fd, b) = {})
            BY <1>1, <1>2, <2>3, <2>7 DEF HasHeader
        <3>2. Newlines(fd, b) = {}
            <4>1. ASSUME s.in = << >> PROVE Newlines(fd, b) = {}
                <5>1. Len(b) = 0
                    BY <2>3, <4>1, FlattenNil, EmptySeq DEF Bytes
                <5> QED BY <5>1 DEF Newlines
            <4> QED BY <3>1, <4>1
        <3>3. cs = sent[fd] /\ n + 1 <= Len(cs)
            BY <1>1, <2>2
        <3>4. Newlines(fd, b) = {} => Len(b) < cs[n + 1].head + 2
            BY <2>4, <3>3, FirstLine
        <3>5. Len(b) < hd + 2
            BY <2>5, <2>6, <3>2, <3>4
        <3>6. Len(b) < k
            BY <2>3, <2>6, <3>5
        <3> QED BY <2>2, <2>3, <2>5, <2>6, <3>6
    <2>8. CASE at.pc = "measured"
        <3>1. s.write /\ ~HasBody(s)
            BY <1>1, <1>2, <2>8 DEF IsWhole
        <3>2. s.hlen = hd /\ s.blen = bd /\ s.write = c.write
            BY <1>1, <1>2, <1>6, <2>2, <2>5, <2>6, <2>8 DEF Sound, AtCommand, Known
        <3>3. s.inLen < hd + 4 + bd
            BY <2>3, <3>1, <3>2 DEF HasBody
        <3>4. k = hd + 2 + bd + 2
            BY <2>6, <3>1, <3>2
        <3>5. \A x \in Nat : x < hd + 4 + bd => x < hd + 2 + bd + 2
            OBVIOUS
        <3>6. Len(b) < k
            BY <2>3, <3>3, <3>4, <3>5
        <3> QED BY <2>2, <2>3, <2>5, <2>6, <3>6
    <2> QED BY <1>2, <2>7, <2>8
<1>8. Connected(fd) => Partial(s, hs, cs)
    BY <1>7 DEF Partial
<1>9. Sound(fd)'
    <2>1. /\ InOrder(handled[fd], sent[fd])'
          /\ (Connected(fd) => Unlost(io[fd], wire[fd], handled[fd], sent[fd]))'
          /\ (Connected(fd) /\ peer[fd] # "rst" => Answered(io[fd], got[fd], handled[fd], sent[fd]))'
        BY <1>2, <1>3, <1>6 DEF Sound
    <2>2. (Connected(fd) => Partial(io[fd], handled[fd], sent[fd]))'
        BY <1>1, <1>2, <1>3, <1>8
    <2>3. ~Connected(fd)' => Empty(io'[fd])
        BY <1>2, <1>3, <1>4, <1>6 DEF Sound
    <2> QED BY <1>4, <2>1, <2>2, <2>3 DEF Sound
<1> QED
    BY <1>5, <1>9

\* destroy_io_data leaves the slot as it was before its first connection.
LEMMA ReleaseSound ==
    ASSUME Types, NEW fd \in Fds, Release(fd), \A x \in Fds : Sound(x)
    PROVE  \A x \in Fds : Sound(x)'
<1>1. PICK s \in GoodSlot : s = io[fd]
    BY NamesOf
<1>2. PICK e \in GoodSlot :
         /\ e = Emptied(s) /\ e.in = << >> /\ e.out = << >>
         /\ e.inLen = IF s.in = << >> THEN s.inLen ELSE 0
         /\ e.hlen = s.hlen /\ e.blen = s.blen /\ e.write = s.write
    BY EmptiedIs
<1>3. /\ at.pc = "closing" /\ at.fd = fd
      /\ at' = IF at.quit THEN [pc |-> "input", fd |-> fd, armed |-> at.armed] ELSE [pc |-> "wait"]
      /\ UNCHANGED <<epoll, wire, peer, sent, got, handled>>
    BY DEF Release, sides
<1>4. /\ \A x \in Fds : x # fd => io'[x] = io[x]
      /\ io'[fd] = IF at.quit THEN Fixed(e) ELSE e
      /\ io'[fd].in = << >> /\ io'[fd].out = << >>
    BY <1>1, <1>2, ReleaseTypes
<1>5. /\ \A x : ~AtCommand(at', x) /\ ~Emptying(at', x) /\ ~Served(at, x)
      /\ \A x : x # fd => ~Emptying(at, x)
    BY <1>3 DEF Served, AtCommand, Emptying
<1>6. ASSUME NEW x \in Fds, x # fd PROVE Sound(x)'
    BY <1>3, <1>4, <1>5, <1>6, Elsewhere
<1>7. ~Connected(fd) /\ Ending(s, at.quit) /\ InOrder(handled[fd], sent[fd])
    BY <1>1, <1>3 DEF Sound, Emptying
<1>8. s.inLen \in Nat /\ s.hlen \in Nat /\ s.blen \in Int /\ s.blen >= -1 /\ s.write \in BOOLEAN
    BY SlotIs, SizesAssumption
<1>9. io'[fd].inLen = 0
    <2>1. CASE at.quit
        <3>1. PICK n \in Int : n = e.hlen + e.blen + IF e.write THEN 4 ELSE 2
            BY <1>2, <1>8
        <3>2. Fixed(e).inLen = IF n <= e.inLen THEN e.inLen - n ELSE 0
            BY <3>1, FixedIs
        <3>3. n > 0
            BY <1>2, <1>8, <3>1
        <3>4. CASE s.in # << >>
            BY <1>2, <1>4, <2>1, <3>2, <3>3, <3>4
        <3>5. CASE s.in = << >>
            <4>1. ~s.write /\ s.inLen = s.hlen + s.blen + 2
                BY <1>7, <2>1, <3>5 DEF Ending
            <4>2. n = e.inLen
                BY <1>2, <1>8, <3>1, <3>5, <4>1
            <4> QED BY <1>4, <1>8, <1>2, <2>1, <3>2, <3>5, <4>2
        <3> QED BY <3>4, <3>5
    <2>2. CASE ~at.quit
        BY <1>2, <1>4, <1>7, <2>2 DEF Ending
    <2> QED BY <2>1, <2>2
<1>10. Empty(io'[fd])
    BY <1>4, <1>9 DEF Empty
<1>11. Sound(fd)'
    BY <1>3, <1>5, <1>7, <1>10 DEF Sound, Connected
<1> QED
    BY <1>6, <1>11

\* A step that changes nothing of the receive side of a connection.
LEMMA SameReceived ==
    ASSUME NEW s \in GoodSlot, NEW out, NEW w, NEW hs, NEW cs, NEW r, r = [s EXCEPT !.out = out]
    PROVE  /\ r.out = out
           /\ Unlost(s, w, hs, cs) => Unlost(r, w, hs, cs)
           /\ Partial(s, hs, cs) => Partial(r, hs, cs)
<1>1. /\ r.in = s.in /\ r.inLen = s.inLen /\ r.hlen = s.hlen /\ r.blen = s.blen
      /\ r.write = s.write /\ r.out = out
    BY DEF GoodSlot, Slot
<1> QED
    BY <1>1 DEF Unlost, Partial, Known, Unknown

\* What is handed to the socket was first in the send list.
LEMMA OutputSound ==
    ASSUME Types, NEW fd \in Fds, Output(fd), \A x \in Fds : Sound(x)
    PROVE  \A x \in Fds : Sound(x)'
<1>1. PICK s \in GoodSlot, w \in Seq(Byte), g \in Seq(Byte), cs \in Seq(Commands), hs \in Seq(Nat) :
         s = io[fd] /\ w = wire[fd] /\ g = got[fd] /\ cs = sent[fd] /\ hs = handled[fd]
    BY NamesOf
<1>2. at.pc = "wait" /\ UNCHANGED <<at, wire, peer, sent, handled>>
    BY DEF Output, Writable, Waiting, sides
<1>3. /\ \A x \in Fds : x # fd => io'[x] = io[x] /\ got'[x] = got[x] /\ epoll'[x] = epoll[x]
      /\ Connected(fd) /\ Connected(fd)'
    BY OutputTypes DEF Connected
<1>4. PICK out \in Seq(Seq(Byte)), part \in Seq(Byte), r \in {io'[fd]} :
         /\ r = [s EXCEPT !.out = out] /\ io'[fd] = r
         /\ got'[fd] = g \o part /\ Bytes(s.out) = part \o Bytes(out)
    BY <1>1, OutputTypes
<1>5. \A x : ~Served(at, x) /\ ~AtCommand(at, x) /\ ~Emptying(at, x)
    BY <1>2 DEF Served, AtCommand, Emptying
<1>6. ASSUME NEW x \in Fds, x # fd PROVE Sound(x)'
    BY <1>2, <1>3, <1>5, <1>6, Elsewhere
<1>7. /\ InOrder(hs, cs) /\ Unlost(s, w, hs, cs) /\ Partial(s, hs, cs)
      /\ peer[fd] # "rst" => Answered(s, g, hs, cs)
    BY <1>1, <1>3, <1>5 DEF Sound
<1>8. r.out = out /\ Unlost(r, w, hs, cs) /\ Partial(r, hs, cs)
    BY <1>4, <1>7, SameReceived
<1>9. Answered(s, g, hs, cs) => Answered(r, g \o part, hs, cs)
    <2>1. PICK o \in Seq(Byte) : o = Bytes(out)
        BY FlattenType DEF Bytes
    <2>2. Associate(g, part, o)
        BY Associates
    <2>3. Bytes(s.out) = part \o o /\ Bytes(r.out) = o
        BY <1>4, <1>8, <2>1
    <2> QED BY <2>2, <2>3 DEF Answered, Associate
<1>10. Sound(fd)'
    BY <1>1, <1>2, <1>3, <1>4, <1>5, <1>7, <1>8, <1>9 DEF Sound
<1> QED
    BY <1>6, <1>10

\* send has failed: nothing is owed to that client any more.
LEMMA OutputFailsSound ==
    ASSUME Types, NEW fd \in Fds, OutputFails(fd), \A x \in Fds : Sound(x)
    PROVE  \A x \in Fds : Sound(x)'
<1>1. PICK s \in GoodSlot, w \in Seq(Byte), cs \in Seq(Commands), hs \in Seq(Nat) :
         s = io[fd] /\ w = wire[fd] /\ cs = sent[fd] /\ hs = handled[fd]
    BY NamesOf
<1>2. /\ at.pc = "wait" /\ Connected(fd) /\ peer[fd] = "rst"
      /\ UNCHANGED <<epoll, at, wire, peer, sent, got, handled>>
    BY DEF OutputFails, Writable, Waiting, sides, Connected
<1>3. PICK out \in Seq(Seq(Byte)), r \in {io'[fd]} : r = [s EXCEPT !.out = out] /\ io'[fd] = r
    BY <1>1, OutputFailsTypes
<1>4. \A x : ~Served(at, x) /\ ~AtCommand(at, x) /\ ~Emptying(at, x)
    BY <1>2 DEF Served, AtCommand, Emptying
<1>5. ASSUME NEW x \in Fds, x # fd PROVE Sound(x)'
    <2>1. io'[x] = io[x]
        BY <1>5, OutputFailsTypes
    <2> QED BY <1>2, <1>4, <2>1, Elsewhere
<1>6. InOrder(hs, cs) /\ Unlost(s, w, hs, cs) /\ Partial(s, hs, cs)
    BY <1>1, <1>2, <1>4 DEF Sound
<1>7. Unlost(r, w, hs, cs) /\ Partial(r, hs, cs)
    BY <1>3, <1>6, SameReceived
<1>8. Sound(fd)'
    BY <1>1, <1>2, <1>3, <1>4, <1>6, <1>7 DEF Sound, Connected
<1> QED
    BY <1>5, <1>8

-----------------------------------------------------------------------------
(* Every step keeps the invariant.                                         *)

\* What all steps have in common but those that accept a connection or fail
\* to find a body.
Keeps ==
    /\ Types' /\ pool' + InUse' = pool + InUse
    /\ overtaken' = overtaken /\ failed' \in {failed, "alloc_buf"}
    /\ (\A x \in Fds : Sound(x)) => \A x \in Fds : Sound(x)'

LEMMA KeepsInv ==
    ASSUME ConnInv, Keeps
    PROVE  ConnInv'
<1>1. failed' = "read_body" => failed = "read_body"
    BY DEF Keeps
<1> QED
    BY <1>1 DEF ConnInv, Keeps

LEMMA ClientKeeps ==
    ASSUME Types, NEW fd \in Fds, Client(fd)
    PROVE  Keeps
<1>1. ASSUME NEW c \in Commands, Send(fd, c) PROVE Keeps
    <2>1. UNCHANGED <<overtaken, failed>>
        BY <1>1 DEF Send
    <2>2. Types' /\ pool' + InUse' = pool + InUse
        BY <1>1, SendTypes
    <2>3. (\A x \in Fds : Sound(x)) => \A x \in Fds : Sound(x)'
        BY <1>1, SendSound
    <2> QED BY <2>1, <2>2, <2>3 DEF Keeps
<1>2. ASSUME NEW how \in {"fin", "rst"}, Leave(fd, how) PROVE Keeps
    <2>1. UNCHANGED <<overtaken, failed>>
        BY <1>2 DEF Leave
    <2>2. Types' /\ pool' + InUse' = pool + InUse
        BY <1>2, LeaveTypes
    <2>3. (\A x \in Fds : Sound(x)) => \A x \in Fds : Sound(x)'
        BY <1>2, LeaveSound
    <2> QED BY <2>1, <2>2, <2>3 DEF Keeps
<1> QED
    BY <1>1, <1>2 DEF Client

LEMMA ReceiveKeeps ==
    ASSUME Types, NEW fd \in Fds, Receive(fd)
    PROVE  Keeps
<1>1. CASE Input(fd)
    <2>1. UNCHANGED <<overtaken, failed>>
        BY <1>1 DEF Input
    <2>2. Types' /\ pool' + InUse' = pool + InUse
        BY <1>1, InputTypes
    <2>3. (\A x \in Fds : Sound(x)) => \A x \in Fds : Sound(x)'
        BY <1>1, InputSound
    <2> QED BY <2>1, <2>2, <2>3 DEF Keeps
<1>2. CASE EndOfInput(fd)
    <2>1. UNCHANGED <<overtaken, failed>>
        BY <1>2 DEF EndOfInput
    <2>2. Types' /\ pool' + InUse' = pool + InUse
        BY <1>2, EndOfInputTypes
    <2>3. (\A x \in Fds : Sound(x)) => \A x \in Fds : Sound(x)'
        BY <1>2, EndOfInputSound
    <2> QED BY <2>1, <2>2, <2>3 DEF Keeps
<1>3. CASE NoBuffer(fd)
    <2>1. Fail("alloc_buf")
        BY <1>3 DEF NoBuffer
    <2>2. overtaken' = overtaken /\ failed' = "alloc_buf"
        BY <2>1 DEF Fail
    <2>3. Types' /\ pool' + InUse' = pool + InUse
        BY <2>1, FailTypes
    <2>4. (\A x \in Fds : Sound(x)) => \A x \in Fds : Sound(x)'
        BY <2>1, FailSound
    <2> QED BY <2>2, <2>3, <2>4 DEF Keeps
<1> QED
    BY <1>1, <1>2, <1>3 DEF Receive

LEMMA MeasureKeeps ==
    ASSUME Types, NEW fd \in Fds, Measure(fd)
    PROVE  Keeps
<1>1. UNCHANGED <<overtaken, failed>>
    BY DEF Measure
<1>2. Types' /\ pool' + InUse' = pool + InUse
    BY MeasureTypes
<1>3. (\A x \in Fds : Sound(x)) => \A x \in Fds : Sound(x)'
    BY MeasureSound
<1> QED
    BY <1>1, <1>2, <1>3 DEF Keeps

LEMMA ServeKeeps ==
    ASSUME Types, NEW fd \in Fds, Serve(fd)
    PROVE  Keeps
<1>1. overtaken' = overtaken /\ failed' \in {failed, "alloc_buf"}
    BY ServeTypes DEF Fail, Answers1, Quits1
<1>2. Types' /\ pool' + InUse' = pool + InUse
    BY ServeTypes
<1>3. (\A x \in Fds : Sound(x)) => \A x \in Fds : Sound(x)'
    BY ServeSound
<1> QED
    BY <1>1, <1>2, <1>3 DEF Keeps

\* The end of a batch of commands, and of a connection.
LEMMA EndsKeep ==
    ASSUME Types, NEW fd \in Fds, EndInput(fd) \/ Release(fd) \/ HangUp(fd)
    PROVE  Keeps
<1>1. UNCHANGED <<overtaken, failed>>
    BY DEF EndInput, Release, HangUp
<1>2. Types' /\ pool' + InUse' = pool + InUse
    BY EndInputTypes, ReleaseTypes, HangUpTypes
<1>3. (\A x \in Fds : Sound(x)) => \A x \in Fds : Sound(x)'
    BY EndInputSound, ReleaseSound, HangUpSound
<1> QED
    BY <1>1, <1>2, <1>3 DEF Keeps

LEMMA OutputKeeps ==
    ASSUME Types, NEW fd \in Fds, Output(fd) \/ OutputFails(fd)
    PROVE  Keeps
<1>1. UNCHANGED <<overtaken, failed>>
    BY DEF Output, OutputFails
<1>2. Types' /\ pool' + InUse' = pool + InUse
    BY OutputTypes, OutputFailsTypes
<1>3. (\A x \in Fds : Sound(x)) => \A x \in Fds : Sound(x)'
    BY OutputSound, OutputFailsSound
<1> QED
    BY <1>1, <1>2, <1>3 DEF Keeps

LEMMA StillKeeps ==
    ASSUME Types, UNCHANGED vars
    PROVE  Keeps
<1>1. UNCHANGED <<pool, io, epoll, at, wire, peer, sent, got, conns, handled, overtaken, failed>>
    BY DEF vars
<1>2. Types' /\ pool' + InUse' = pool + InUse
    BY <1>1, SameSlots DEF Types
<1>3. (\A x \in Fds : Sound(x)) => \A x \in Fds : Sound(x)'
    BY <1>1 DEF Sound, Connected
<1> QED
    BY <1>1, <1>2, <1>3 DEF Keeps

\* A new connection takes over a slot that nobody uses, or one that has been
\* given away before it was emptied.
LEMMA AcceptInv ==
    ASSUME ConnInv, NEW fd \in Fds, Accept(fd)
    PROVE  ConnInv'
<1>1. Types /\ pool + InUse <= PoolSize
    BY DEF ConnInv
<1>2. failed' = failed /\ failed = "none" /\ (overtaken => overtaken') /\ overtaken' \in BOOLEAN
    BY <1>1 DEF Accept, Types
<1>3. /\ Types' /\ pool' = pool /\ InUse' = InUse - (Len(io[fd].in) + Len(io[fd].out))
    BY <1>1, AcceptTypes
<1>4. pool' + InUse' <= PoolSize
    <2>1. PICK a \in Nat, b \in Nat : a = Len(io[fd].in) /\ b = Len(io[fd].out)
        BY <1>1, NamesOf, SlotIs
    <2>2. InUse \in Nat /\ pool \in Nat /\ PoolSize \in Nat
        BY <1>1, InUseIs, SizesAssumption DEF Types
    <2>3. PICK i \in Nat, p \in Nat, z \in Nat : i = InUse /\ p = pool /\ z = PoolSize
        BY <2>2
    <2>4. pool' + InUse' = p + (i - (a + b))
        BY <1>3, <2>1, <2>3
    <2>5. p + i <= z
        BY <1>1, <2>3
    <2>6. p + (i - (a + b)) <= z
        BY <2>5
    <2> QED BY <2>3, <2>4, <2>6
<1>5. ~overtaken' => pool' + InUse' = PoolSize /\ \A x \in Fds : Sound(x)'
    <2>1. SUFFICES ASSUME ~overtaken' PROVE pool' + InUse' = PoolSize /\ \A x \in Fds : Sound(x)'
        OBVIOUS
    <2>2. pool + InUse = PoolSize /\ \A x \in Fds : Sound(x)
        BY <1>2, <2>1 DEF ConnInv
    <2>3. (\A x \in Fds : Sound(x)') /\ InUse' = InUse
        BY <1>1, <2>1, <2>2, AcceptSound
    <2> QED BY <1>3, <2>2, <2>3
<1> QED
    BY <1>2, <1>3, <1>4, <1>5 DEF ConnInv

LEMMA NoBodyInv ==
    ASSUME ConnInv, NEW fd \in Fds, NoBody(fd)
    PROVE  ConnInv'
<1>1. Types /\ Fail("read_body")
    BY DEF ConnInv, NoBody
<1>2. overtaken /\ overtaken' = overtaken
    <2>1. ~overtaken => FALSE
        BY <1>1, BodyArrived DEF ConnInv
    <2> QED BY <1>1, <2>1 DEF Fail
<1>3. Types' /\ pool' + InUse' = pool + InUse
    BY <1>1, FailTypes
<1> QED
    BY <1>2, <1>3 DEF ConnInv

LEMMA ConnNext ==
    ASSUME ConnInv, [Next]_vars
    PROVE  ConnInv'
<1>1. Types
    BY DEF ConnInv
<1>2. ASSUME NEW fd \in Fds, Accept(fd) PROVE ConnInv'
    BY <1>2, AcceptInv
<1>3. ASSUME NEW fd \in Fds, Client(fd) \/ Receive(fd) PROVE ConnInv'
    BY <1>1, <1>3, ClientKeeps, ReceiveKeeps, KeepsInv
<1>4. ASSUME NEW fd \in Fds, Loop(fd) PROVE ConnInv'
    <2>1. CASE Measure(fd)
        BY <1>1, <2>1, MeasureKeeps, KeepsInv
    <2>2. CASE Serve(fd)
        BY <1>1, <2>2, ServeKeeps, KeepsInv
    <2>3. CASE NoBody(fd)
        BY <2>3, NoBodyInv
    <2>4. CASE EndInput(fd) \/ Release(fd)
        BY <1>1, <2>4, EndsKeep, KeepsInv
    <2> QED BY <1>4, <2>1, <2>2, <2>3, <2>4 DEF Loop
<1>5. ASSUME NEW fd \in Fds, Output(fd) \/ OutputFails(fd) PROVE ConnInv'
    BY <1>1, <1>5, OutputKeeps, KeepsInv
<1>6. ASSUME NEW fd \in Fds, HangUp(fd) PROVE ConnInv'
    BY <1>1, <1>6, EndsKeep, KeepsInv
<1>7. CASE Rest \/ UNCHANGED vars
    BY <1>1, <1>7, StillKeeps, KeepsInv DEF Rest
<1> QED
    BY <1>2, <1>3, <1>4, <1>5, <1>6, <1>7 DEF Next

-----------------------------------------------------------------------------
(* What the worker guarantees.                                             *)

\* As long as no slot is given away before it is emptied, what is sent on a
\* connection and not handled is in its receive list and on its wire, whole
\* and in order; the lengths of its slot are those of the first such command;
\* and every buffer is on the free list or in a list of a slot
\* (append_recv_data, handle_input, fix_buf_len, destroy_io_data).
THEOREM ConnInvariant == Spec => []ConnInv
<1>1. Init => ConnInv
    BY ConnInit
<1>2. ConnInv /\ [Next]_vars => ConnInv'
    BY ConnNext
<1> QED
    BY <1>1, <1>2, PTL DEF Spec

\* The commands handled on a connection are those sent, in order, each with
\* its own header and body, however recv cuts them up, whatever arrives
\* together and whatever the bodies contain (has_header, get_body_len,
\* has_body, read_header, read_body).
THEOREM CommandsFramed == Spec => []FramedExactly
<1>1. ConnInv => FramedExactly
    BY DEF ConnInv, Sound, InOrder, FramedExactly
<1> QED
    BY <1>1, ConnInvariant, PTL

\* What the client has received and what waits in the send list are together
\* the replies to the commands handled, in order, through partial sends
\* (append_send_data, handle_output).
THEOREM RepliesOrdered == Spec => []RepliesInOrder
<1>1. ConnInv => RepliesInOrder
    <2>1. SUFFICES ASSUME ConnInv, ~overtaken, NEW fd \in Fds, Connected(fd), peer[fd] # "rst"
                   PROVE  got[fd] \o Bytes(io[fd].out) = Owed(fd)
        BY DEF RepliesInOrder
    <2>2. PICK n \in Nat, hs \in Seq(Nat), cs \in Seq(Commands) :
             hs = handled[fd] /\ cs = sent[fd] /\ n = Len(hs)
        BY <2>1, NamesOf DEF ConnInv
    <2>3. InOrder(hs, cs) /\ Answered(io[fd], got[fd], hs, cs)
        BY <2>1, <2>2 DEF ConnInv, Sound
    <2>4. \A j \in 1..n : [i \in 1..cs[hs[j]].reply |-> <<j, i>>] = [i \in 1..cs[j].reply |-> <<j, i>>]
        BY <2>2, <2>3 DEF InOrder
    <2>5. [j \in 1..n |-> [i \in 1..cs[hs[j]].reply |-> <<j, i>>]]
              = [j \in 1..n |-> [i \in 1..cs[j].reply |-> <<j, i>>]]
        BY <2>4
    <2>6. Owed(fd) = Answers(n, cs)
        BY <2>2, <2>5 DEF Owed, Answers
    <2> QED BY <2>2, <2>3, <2>6 DEF Answered
<1> QED
    BY <1>1, ConnInvariant, PTL

\* No buffer is lost, and none is in two places, while connections come and
\* go (alloc_buf, free_buf, destroy_io_data).
THEOREM BuffersAccounted == Spec => []PoolAccounted
<1>1. ConnInv => PoolAccounted
    BY DEF ConnInv, PoolAccounted, InUse, Held
<1> QED
    BY <1>1, ConnInvariant, PTL

\* in_buf_len is what the receive list holds, also when a slot is used again,
\* no whole command waits while the worker is in epoll_wait, no buffer is
\* overfull and the pool never gives its last one away (fix_buf_len,
\* append_recv_data, handle_input's loop).
THEOREM SlotsAreSound == Spec => []SlotsSound
<1>1. ConnInv => TypeOK
    <2>1. SUFFICES ASSUME ConnInv PROVE TypeOK
        OBVIOUS
    <2>2. Types /\ pool + InUse <= PoolSize
        BY <2>1 DEF ConnInv
    <2>3. pool \in 1..PoolSize
        BY <2>2, InUseIs, SizesAssumption DEF Types
    <2>4. ASSUME NEW list \in Seq(Seq(Byte)) PROVE IsList(list)
        <3>1. ASSUME NEW i \in 1..Len(list), NEW j \in 1..Len(list[i]) PROVE list[i][j] \in Byte
            <4>1. list[i] \in Seq(Byte)
                BY <2>4, ElementOfSeq
            <4> QED BY <4>1, ElementOfSeq
        <3> QED BY <3>1 DEF IsList, IsByte, Byte
    <2>5. ASSUME NEW fd \in Fds
          PROVE  /\ IsList(io[fd].in) /\ IsList(io[fd].out)
                 /\ \A i \in 1..Len(io[fd].in) : Len(io[fd].in[i]) <= Unit
                 /\ \A i \in 1..Len(io[fd].out) : Len(io[fd].out[i]) \in 1..Unit
                 /\ io[fd].inLen \in Nat /\ io[fd].hlen \in Nat /\ io[fd].write \in BOOLEAN
                 /\ io[fd].blen \in -1..ValueLimit
        <3>1. io[fd] \in GoodSlot
            BY <2>2, NamesOf
        <3>2. /\ io[fd].in \in Seq(Seq(Byte)) /\ io[fd].out \in Seq(Seq(Byte))
              /\ Filled(io[fd].in, Unit) /\ Proper(io[fd].out)
              /\ io[fd].inLen \in Nat /\ io[fd].hlen \in Nat /\ io[fd].blen \in -1..ValueLimit
              /\ io[fd].write \in BOOLEAN
            BY <3>1, SlotIs
        <3> QED BY <2>4, <3>2 DEF Filled, Proper
    <2>6. ASSUME NEW fd \in Fds PROVE IsList(<<wire[fd], got[fd]>>)
        <3>1. wire[fd] \in Seq(Byte) /\ got[fd] \in Seq(Byte)
            BY <2>2, NamesOf
        <3>2. <<wire[fd], got[fd]>> \in Seq(Seq(Byte))
            BY <3>1
        <3> QED BY <2>4, <3>2
    <2> QED BY <2>2, <2>3, <2>5, <2>6 DEF TypeOK, Types, Worker
<1>2. ConnInv => LengthsAgree
    <2>1. SUFFICES ASSUME ConnInv, ~overtaken, NEW fd \in Fds, at.pc = "closing" => at.fd # fd,
                          at.pc \in {"input", "measured"} => Connected(fd)
                   PROVE  io[fd].inLen = Len(Bytes(io[fd].in))
        BY DEF LengthsAgree
    <2>2. Sound(fd) /\ ~Emptying(at, fd)
        BY <2>1 DEF ConnInv, Emptying
    <2>3. CASE Connected(fd)
        BY <2>2, <2>3 DEF Sound, Unlost
    <2>4. CASE ~Connected(fd)
        BY <2>2, <2>4, FlattenNil, EmptySeq DEF Sound, Empty, Bytes
    <2> QED BY <2>3, <2>4
<1>3. ConnInv => NothingLeftBehind
    <2>1. SUFFICES ASSUME ConnInv, ~overtaken, at.pc = "wait", NEW fd \in Fds, Connected(fd),
                          Len(handled[fd]) + 1 <= Len(sent[fd])
                   PROVE  Len(Bytes(io[fd].in)) < Length(sent[fd][Len(handled[fd]) + 1])
        BY DEF NothingLeftBehind
    <2>2. Sound(fd) /\ ~Served(at, fd)
        BY <2>1 DEF ConnInv, Served
    <2> QED BY <2>1, <2>2 DEF Sound, Partial
<1>4. ConnInv => SlotsSound
    BY <1>1, <1>2, <1>3 DEF SlotsSound
<1> QED
    BY <1>4, ConnInvariant, PTL

\* read_body's assertion can only fail after a slot was given away between
\* close and destroy_io_data: this is the only way the code can break it
\* (read_body, destroy_fd).
BodyThereUnlessOvertaken == failed = "read_body" => overtaken

THEOREM BodyFound == Spec => []BodyThereUnlessOvertaken
<1>1. ConnInv => BodyThereUnlessOvertaken
    BY DEF ConnInv, BodyThereUnlessOvertaken
<1> QED
    BY <1>1, ConnInvariant, PTL

=============================================================================
