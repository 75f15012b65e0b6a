---------------------------- MODULE V1StoreProofs ----------------------------
(***************************************************************************)
(* Proofs about version 1's store, for any keys and numbers of commands    *)
(* and stops: the tree finds for each key what the key's last put gave it, *)
(* and the two files say what the tree says, through any stop.             *)
(***************************************************************************)
EXTENDS V1Store, SequenceTheorems, WellFoundedInduction, TLAPS

-----------------------------------------------------------------------------
(* Numbers, and functions that are defined by recursion.                   *)

\* A set of naturals that has 0 and with each number the next one has all.
LEMMA Induction ==
    ASSUME NEW T, 0 \in T, \A n \in Nat : n \in T => n + 1 \in T
    PROVE  \A n \in Nat : n \in T
<1>1. SUFFICES ASSUME NEW n \in Nat \ T PROVE FALSE
    OBVIOUS
<1>2. PICK m \in Nat \ T : \A y \in Nat \ T : ~ (<<y, m>> \in OpToRel(<, Nat))
    <2>1. Nat \ T # {} /\ Nat \ T \subseteq Nat
        BY <1>1
    <2> QED BY <2>1, NatLessThanWellFounded, WFMin
<1>3. \A y \in Nat \ T : ~ (y < m)
    BY <1>2 DEF OpToRel
<1>4. m \in Nat /\ m # 0 /\ m \notin T
    BY <1>2
<1>5. m - 1 \in Nat /\ m - 1 < m /\ m - 1 + 1 = m
    BY <1>4
<1> QED
    BY <1>3, <1>4, <1>5

\* A number above all those of a set of naturals can be counted down from.
LEMMA CountDown ==
    ASSUME NEW T, NEW b \in Nat, \A x \in 0..b : (\A y \in 0..b : y < x => y \in T) => x \in T
    PROVE  0..b \subseteq T
<1> DEFINE U == {n \in Nat : \A x \in 0..b : x <= n => x \in T}
<1>1. 0 \in U
    <2>1. ASSUME NEW x \in 0..b, x <= 0 PROVE x \in T
        <3>1. \A y \in 0..b : ~ (y < x)
            BY <2>1
        <3> QED BY <3>1
    <2> QED BY <2>1
<1>2. ASSUME NEW n \in Nat, n \in U PROVE n + 1 \in U
    <2>1. ASSUME NEW x \in 0..b, x <= n + 1 PROVE x \in T
        <3>1. ASSUME NEW y \in 0..b, y < x PROVE y \in T
            BY <1>2, <2>1, <3>1
        <3> QED BY <3>1
    <2> QED BY <2>1
<1>3. \A n \in Nat : n \in U
    <2> HIDE DEF U
    <2> QED BY <1>1, <1>2, Induction
<1> QED
    BY <1>3

\* A function whose value at a number is got from the one before exists.
Counts(f, s, step, n) == f = [j \in 0..n |-> IF j = 0 THEN s ELSE step[j][f[j - 1]]]

LEMMA CountedExists ==
    ASSUME NEW S, NEW s \in S, NEW n \in Nat, NEW step \in [Nat -> [S -> S]]
    PROVE  \E f \in [0..n -> S] : Counts(f, s, step, n)
<1> DEFINE T == {m \in Nat : \E f \in [0..n -> S] : \A j \in 0..n :
                    j <= m => f[j] = IF j = 0 THEN s ELSE step[j][f[j - 1]]}
<1>1. 0 \in T
    <2>1. PICK f : f = [j \in 0..n |-> s]
        OBVIOUS
    <2>2. f \in [0..n -> S]
        BY <2>1
    <2>3. \A j \in 0..n : j <= 0 => f[j] = IF j = 0 THEN s ELSE step[j][f[j - 1]]
        BY <2>1
    <2> QED BY <2>2, <2>3
<1>2. ASSUME NEW m \in Nat, m \in T PROVE m + 1 \in T
    <2>1. PICK f \in [0..n -> S] : \A j \in 0..n :
             j <= m => f[j] = IF j = 0 THEN s ELSE step[j][f[j - 1]]
        BY <1>2
    <2>2. PICK g : g = [j \in 0..n |-> IF j = 0 THEN s ELSE step[j][f[j - 1]]]
        OBVIOUS
    <2>3. g \in [0..n -> S]
        <3>1. ASSUME NEW j \in 0..n, j # 0 PROVE step[j][f[j - 1]] \in S
            <4>1. j - 1 \in 0..n /\ j \in Nat
                BY <3>1
            <4>2. f[j - 1] \in S
                BY <2>1, <4>1
            <4> QED BY <4>1, <4>2
        <3> QED BY <2>2, <3>1
    <2>4. ASSUME NEW j \in 0..n, j <= m PROVE g[j] = f[j]
        BY <2>1, <2>2, <2>4
    <2>5. ASSUME NEW j \in 0..n, j <= m + 1
          PROVE  g[j] = IF j = 0 THEN s ELSE step[j][g[j - 1]]
        <3>1. CASE j = 0
            BY <2>2, <3>1
        <3>2. CASE j # 0
            <4>1. j - 1 \in 0..n /\ j - 1 <= m
                BY <2>5, <3>2
            <4>2. g[j - 1] = f[j - 1]
                BY <2>4, <4>1
            <4> QED BY <2>2, <3>2, <4>2
        <3> QED BY <3>1, <3>2
    <2> QED BY <2>3, <2>5
<1>3. n \in T
    <2> HIDE DEF T
    <2> QED BY <1>1, <1>2, Induction
<1>4. PICK f \in [0..n -> S] : \A j \in 0..n :
         j <= n => f[j] = IF j = 0 THEN s ELSE step[j][f[j - 1]]
    BY <1>3
<1>5. \A j \in 0..n : f[j] = IF j = 0 THEN s ELSE step[j][f[j - 1]]
    BY <1>4
<1>6. f = [j \in 0..n |-> f[j]]
    BY <1>4
<1> QED
    BY <1>4, <1>5, <1>6 DEF Counts

\* A walk by steps, each of which brings a rank down, until a step leads
\* nowhere: the function that says where each walk ends exists.
LEMMA WalkExists ==
    ASSUME NEW C, NEW step \in [C -> C], NEW b \in Nat, NEW rank \in [C -> 0..b],
           \A p \in C : step[p] # p => rank[step[p]] < rank[p]
    PROVE  \E f : f = [p \in C |-> IF step[p] = p THEN p ELSE f[step[p]]]
<1> DEFINE T == {m \in Nat : \E f \in [C -> C] : \A p \in C :
                    rank[p] <= m => f[p] = IF step[p] = p THEN p ELSE f[step[p]]}
<1>1. 0 \in T
    <2>1. PICK f : f = [p \in C |-> p]
        OBVIOUS
    <2>2. ASSUME NEW p \in C, rank[p] <= 0 PROVE step[p] = p
        <3>1. rank[p] \in 0..b /\ rank[step[p]] \in 0..b
            OBVIOUS
        <3>2. ~ (rank[step[p]] < rank[p])
            BY <2>2, <3>1
        <3> QED BY <3>2
    <2>3. f \in [C -> C]
        BY <2>1
    <2> QED BY <2>1, <2>2, <2>3
<1>2. ASSUME NEW m \in Nat, m \in T PROVE m + 1 \in T
    <2>1. PICK f \in [C -> C] : \A p \in C :
             rank[p] <= m => f[p] = IF step[p] = p THEN p ELSE f[step[p]]
        BY <1>2
    <2>2. PICK g : g = [p \in C |-> IF step[p] = p THEN p ELSE f[step[p]]]
        OBVIOUS
    <2>3. g \in [C -> C]
        BY <2>1, <2>2
    <2>4. ASSUME NEW p \in C, rank[p] <= m PROVE g[p] = f[p]
        BY <2>1, <2>2, <2>4
    <2>5. ASSUME NEW p \in C, rank[p] <= m + 1
          PROVE  g[p] = IF step[p] = p THEN p ELSE g[step[p]]
        <3>1. CASE step[p] = p
            BY <2>2, <3>1
        <3>2. CASE step[p] # p
            <4>1. rank[p] \in 0..b /\ rank[step[p]] \in 0..b /\ rank[step[p]] < rank[p]
                BY <3>2
            <4>2. rank[step[p]] <= m
                BY <2>5, <4>1
            <4>3. step[p] \in C
                OBVIOUS
            <4>4. g[step[p]] = f[step[p]]
                BY <2>4, <4>2, <4>3
            <4> QED BY <2>2, <3>2, <4>4
        <3> QED BY <3>1, <3>2
    <2> QED BY <2>3, <2>5
<1>3. b \in T
    <2> HIDE DEF T
    <2> QED BY <1>1, <1>2, Induction
<1>4. PICK f \in [C -> C] : \A p \in C :
         rank[p] <= b => f[p] = IF step[p] = p THEN p ELSE f[step[p]]
    BY <1>3
<1>5. \A p \in C : f[p] = IF step[p] = p THEN p ELSE f[step[p]]
    BY <1>4
<1>6. f = [p \in C |-> f[p]]
    BY <1>4
<1> QED
    BY <1>5, <1>6

\* A walk ends in every set that has its beginning and that no step leaves,
\* where no step leads on.
LEMMA WalkEnds ==
    ASSUME NEW C, NEW step \in [C -> C], NEW b \in Nat, NEW rank \in [C -> 0..b],
           \A p \in C : step[p] # p => rank[step[p]] < rank[p],
           NEW f, f = [p \in C |-> IF step[p] = p THEN p ELSE f[step[p]]],
           NEW S, S \subseteq C, \A p \in S : step[p] \in S
    PROVE  \A p \in S : f[p] \in S /\ step[f[p]] = f[p]
<1> DEFINE T == {m \in 0..b : \A p \in S : rank[p] = m => f[p] \in S /\ step[f[p]] = f[p]}
<1>1. ASSUME NEW m \in 0..b, \A y \in 0..b : y < m => y \in T
      PROVE  m \in T
    <2>1. ASSUME NEW p \in S, rank[p] = m PROVE f[p] \in S /\ step[f[p]] = f[p]
        <3>0. p \in C
            OBVIOUS
        <3>1. CASE step[p] = p
            BY <3>0, <3>1
        <3>2. CASE step[p] # p
            <4>1. f[p] = f[step[p]] /\ step[p] \in S
                BY <3>0, <3>2
            <4>2. rank[step[p]] \in 0..b /\ rank[step[p]] < m
                BY <2>1, <3>0, <3>2
            <4>3. rank[step[p]] \in T
                BY <1>1, <4>2
            <4> QED BY <4>1, <4>3
        <3> QED BY <3>1, <3>2
    <2> QED BY <2>1
<1>2. 0..b \subseteq T
    <2> HIDE DEF T
    <2> QED BY <1>1, CountDown
<1> QED
    <2>1. ASSUME NEW p \in S PROVE rank[p] \in T
        <3>1. rank[p] \in 0..b
            OBVIOUS
        <3> QED BY <1>2, <3>1
    <2> QED BY <2>1

-----------------------------------------------------------------------------
(* Walks in the tree.                                                      *)

Key == Seq(Int) \ {<< >>}

Node == [c : Int, link : [Ways -> Nat], value : Int, small : Nat]

\* Links lead on in the array.
Sound(t) ==
    /\ t \in [root : Nat, cap : Nat, node : Seq(Node)]
    /\ Size(t) < t.cap
    /\ t.root \in 0..Size(t)
    /\ t.root = 0 => Size(t) = 0
    /\ \A x \in 1..Size(t), way \in Ways :
          t.node[x].link[way] # 0 => t.node[x].link[way] \in (x + 1)..Size(t)

Step(t, k) ==
    [p \in Calls(t, k) |-> IF Onward(t, k, p).at = 0 THEN p ELSE Onward(t, k, p)]

LEMMA WayIs ==
    ASSUME NEW n \in Node, NEW k \in Key, NEW i \in 1..Len(k)
    PROVE  /\ Way(n, k, i) \in Ways \cup {"value"}
           /\ Way(n, k, i) = "mid" => i < Len(k)
           /\ Way(n, k, i) \in {"mid", "value"} => k[i] = n.c
           /\ Way(n, k, i) = "value" => i = Len(k)
<1>1. k[i] \in Int /\ n.c \in Int /\ Len(k) \in Nat
    BY DEF Key, Node
<1>2. k[i] < n.c \/ k[i] > n.c \/ k[i] = n.c
    BY <1>1
<1> QED
    BY <1>1, <1>2 DEF Way, Ways

LEMMA SizeIs ==
    ASSUME NEW t, Sound(t)
    PROVE  /\ Size(t) \in Nat /\ t.node \in Seq(Node)
           /\ \A x \in 1..Size(t) : /\ t.node[x] \in Node
                                    /\ t.node[x].c \in Int
                                    /\ \A way \in Ways : t.node[x].link[way] \in 0..Size(t)
<1>1. t.node \in Seq(Node)
    BY DEF Sound
<1>2. Size(t) \in Nat /\ \A x \in 1..Size(t) : t.node[x] \in Node
    BY <1>1 DEF Size
<1>3. \A x \in 1..Size(t), way \in Ways : t.node[x].link[way] \in Nat
    BY <1>2 DEF Node
<1>4. ASSUME NEW x \in 1..Size(t), NEW way \in Ways PROVE t.node[x].link[way] \in 0..Size(t)
    BY <1>2, <1>3 DEF Sound
<1> QED
    BY <1>1, <1>2, <1>4 DEF Node

\* A call's next one is further on in the array, and at the same character or
\* the next.
LEMMA OnwardIs ==
    ASSUME NEW t, Sound(t), NEW k \in Key, NEW p \in Calls(t, k)
    PROVE  /\ t.node[p.at] \in Node /\ p.at \in 1..Size(t) /\ p.i \in 1..Len(k)
           /\ Way(t.node[p.at], k, p.i) \in Ways \cup {"value"}
           /\ Onward(t, k, p).at \in 0..Size(t)
           /\ Onward(t, k, p).i \in 1..Len(k)
           /\ Onward(t, k, p).at # 0 =>
                 /\ Onward(t, k, p) \in Calls(t, k) /\ Onward(t, k, p).at > p.at
                 /\ Way(t.node[p.at], k, p.i) \in Ways
                 /\ Onward(t, k, p).at = t.node[p.at].link[Way(t.node[p.at], k, p.i)]
<1>1. p.at \in 1..Size(t) /\ p.i \in 1..Len(k) /\ Len(k) \in Nat
    BY DEF Calls, Key
<1>2. /\ Size(t) \in Nat /\ t.node[p.at] \in Node
      /\ \A way \in Ways : t.node[p.at].link[way] \in 0..Size(t)
    BY <1>1, SizeIs
<1>3. PICK way : way = Way(t.node[p.at], k, p.i)
    OBVIOUS
<1>4. way \in Ways \cup {"value"} /\ (way = "mid" => p.i < Len(k))
    BY <1>1, <1>2, <1>3, WayIs
<1>5. PICK a \in {IF way = "value" THEN 0 ELSE t.node[p.at].link[way]} : TRUE
    OBVIOUS
<1>6. PICK i \in {IF way = "mid" THEN p.i + 1 ELSE p.i} : TRUE
    OBVIOUS
<1>7. Onward(t, k, p) = [at |-> a, i |-> i]
    BY <1>3, <1>5, <1>6 DEF Onward
<1>8. i \in 1..Len(k)
    BY <1>1, <1>4, <1>6
<1>9. a \in 0..Size(t)
    BY <1>2, <1>4, <1>5
<1>10. ASSUME a # 0
       PROVE  /\ way \in Ways /\ a = t.node[p.at].link[way] /\ a > p.at
              /\ [at |-> a, i |-> i] \in Calls(t, k)
    <2>1. way \in Ways /\ a = t.node[p.at].link[way]
        BY <1>4, <1>5, <1>10
    <2>2. a \in (p.at + 1)..Size(t)
        BY <1>1, <1>10, <2>1 DEF Sound
    <2>3. a \in 1..Size(t) /\ a > p.at
        BY <1>1, <1>2, <2>2
    <2> QED BY <1>8, <2>1, <2>3 DEF Calls
<1> QED
    BY <1>1, <1>2, <1>3, <1>4, <1>7, <1>8, <1>9, <1>10

LEMMA StepIs ==
    ASSUME NEW t, Sound(t), NEW k \in Key
    PROVE  /\ Step(t, k) \in [Calls(t, k) -> Calls(t, k)]
           /\ \A p \in Calls(t, k) :
                 /\ Onward(t, k, p).at = 0 => Step(t, k)[p] = p
                 /\ Onward(t, k, p).at # 0 => Step(t, k)[p] = Onward(t, k, p)
                 /\ Step(t, k)[p] = p <=> Onward(t, k, p).at = 0
<1>1. \A p \in Calls(t, k) : Onward(t, k, p).at # 0 =>
         Onward(t, k, p) \in Calls(t, k) /\ Onward(t, k, p) # p
    <2>1. ASSUME NEW p \in Calls(t, k), Onward(t, k, p).at # 0
          PROVE  Onward(t, k, p) \in Calls(t, k) /\ Onward(t, k, p) # p
        <3>1. p.at \in 1..Size(t) /\ Size(t) \in Nat
            BY SizeIs DEF Calls
        <3>2. Onward(t, k, p) \in Calls(t, k) /\ Onward(t, k, p).at > p.at
            BY <2>1, OnwardIs
        <3> QED BY <3>1, <3>2
    <2> QED BY <2>1
<1> QED
    BY <1>1 DEF Step

\* What a walk's steps bring down: how far from the end of the array it is.
LEMMA StepRank ==
    ASSUME NEW t, Sound(t), NEW k \in Key
    PROVE  \E rank \in [Calls(t, k) -> 0..Size(t)] :
              \A p \in Calls(t, k) : Step(t, k)[p] # p => rank[Step(t, k)[p]] < rank[p]
<1>1. Size(t) \in Nat
    BY SizeIs
<1>2. PICK rank : rank = [p \in Calls(t, k) |-> Size(t) - p.at]
    OBVIOUS
<1>3. ASSUME NEW p \in Calls(t, k) PROVE Size(t) - p.at \in 0..Size(t) /\ p.at \in 1..Size(t)
    <2>1. p.at \in 1..Size(t)
        BY DEF Calls
    <2> QED BY <1>1, <2>1
<1>4. rank \in [Calls(t, k) -> 0..Size(t)]
    BY <1>2, <1>3
<1>5. ASSUME NEW p \in Calls(t, k), Step(t, k)[p] # p PROVE rank[Step(t, k)[p]] < rank[p]
    <2>1. Step(t, k)[p] = Onward(t, k, p) /\ Onward(t, k, p).at # 0
        BY <1>5, StepIs
    <2>2. Onward(t, k, p) \in Calls(t, k) /\ Onward(t, k, p).at > p.at
        BY <2>1, OnwardIs
    <2>3. /\ rank[Step(t, k)[p]] = Size(t) - Onward(t, k, p).at
          /\ rank[p] = Size(t) - p.at
        BY <1>2, <2>1, <2>2
    <2> QED BY <1>1, <1>3, <2>2, <2>3
<1> QED
    BY <1>4, <1>5

\* LastCall is where a walk from the root ends.
LEMMA LastCallIs ==
    ASSUME NEW t, Sound(t), NEW k \in Key
    PROVE  \E f : /\ f = [p \in Calls(t, k) |->
                            IF Step(t, k)[p] = p THEN p ELSE f[Step(t, k)[p]]]
                  /\ LastCall(t, k) = f[Start(t)]
<1> DEFINE Is(f) == f = [p \in Calls(t, k) |->
                           IF Onward(t, k, p).at = 0 THEN p ELSE f[Onward(t, k, p)]]
           Walks(f) == f = [p \in Calls(t, k) |->
                              IF Step(t, k)[p] = p THEN p ELSE f[Step(t, k)[p]]]
<1>1. \E f : Walks(f)
    <2>1. Size(t) \in Nat
        BY SizeIs
    <2>2. Step(t, k) \in [Calls(t, k) -> Calls(t, k)]
        BY StepIs
    <2>3. PICK rank \in [Calls(t, k) -> 0..Size(t)] :
             \A p \in Calls(t, k) : Step(t, k)[p] # p => rank[Step(t, k)[p]] < rank[p]
        BY StepRank
    <2> QED BY <2>1, <2>2, <2>3, WalkExists
<1>2. ASSUME NEW f PROVE Walks(f) <=> Is(f)
    <2>1. \A p \in Calls(t, k) :
             (IF Step(t, k)[p] = p THEN p ELSE f[Step(t, k)[p]])
              = (IF Onward(t, k, p).at = 0 THEN p ELSE f[Onward(t, k, p)])
        BY StepIs
    <2>2. [p \in Calls(t, k) |-> IF Step(t, k)[p] = p THEN p ELSE f[Step(t, k)[p]]]
           = [p \in Calls(t, k) |->
                IF Onward(t, k, p).at = 0 THEN p ELSE f[Onward(t, k, p)]]
        BY <2>1
    <2> QED BY <2>2
<1>3. LastCall(t, k) = (CHOOSE f : Is(f))[Start(t)]
    BY DEF LastCall
<1>4. Is(CHOOSE f : Is(f))
    <2>1. \E f : Is(f)
        BY <1>1, <1>2
    <2> HIDE DEF Is
    <2> QED BY <2>1
<1>5. PICK f : f = (CHOOSE f_1 : Is(f_1))
    OBVIOUS
<1>6. Is(f) /\ LastCall(t, k) = f[Start(t)]
    <2> HIDE DEF Is
    <2> QED BY <1>3, <1>4, <1>5
<1>7. Walks(f)
    BY <1>2, <1>6
<1> QED
    BY <1>6, <1>7

LEMMA StartIs ==
    ASSUME NEW t, Sound(t), t.root # 0, NEW k \in Key
    PROVE  Start(t) \in Calls(t, k)
<1>1. t.root \in 1..Size(t) /\ Size(t) \in Nat
    BY SizeIs DEF Sound
<1>2. Len(k) \in Nat /\ Len(k) # 0
    BY DEF Key
<1>3. 1 \in 1..Len(k)
    BY <1>2
<1> QED
    BY <1>1, <1>3 DEF Start, Calls

LEMMA EndsIn ==
    ASSUME NEW t, Sound(t), NEW k \in Key,
           NEW f, f = [p \in Calls(t, k) |->
                         IF Step(t, k)[p] = p THEN p ELSE f[Step(t, k)[p]]],
           NEW S, S \subseteq Calls(t, k), \A p \in S : Step(t, k)[p] \in S
    PROVE  \A p \in S : f[p] \in S /\ Step(t, k)[f[p]] = f[p]
<1>1. Size(t) \in Nat
    BY SizeIs
<1>2. Step(t, k) \in [Calls(t, k) -> Calls(t, k)]
    BY StepIs
<1>3. PICK rank \in [Calls(t, k) -> 0..Size(t)] :
         \A p \in Calls(t, k) : Step(t, k)[p] # p => rank[Step(t, k)[p]] < rank[p]
    BY StepRank
<1> QED
    BY <1>1, <1>2, <1>3, WalkEnds

\* The last call is in every set that no step from the root on leaves.
LEMMA LastCallReached ==
    ASSUME NEW t, Sound(t), t.root # 0, NEW k \in Key,
           NEW S, S \subseteq Calls(t, k), Start(t) \in S, \A p \in S : Step(t, k)[p] \in S
    PROVE  LastCall(t, k) \in S /\ Onward(t, k, LastCall(t, k)).at = 0
<1>1. PICK f : /\ f = [p \in Calls(t, k) |->
                         IF Step(t, k)[p] = p THEN p ELSE f[Step(t, k)[p]]]
               /\ LastCall(t, k) = f[Start(t)]
    BY LastCallIs
<1>5. \A p \in S : f[p] \in S /\ Step(t, k)[f[p]] = f[p]
    BY <1>1, EndsIn
<1>6. LastCall(t, k) \in S /\ Step(t, k)[LastCall(t, k)] = LastCall(t, k)
    BY <1>1, <1>5
<1> QED
    BY <1>6, StepIs

\* A tree that has another's nodes and links, and perhaps more: each walk goes
\* the same way to where it ended, and perhaps further.
Extends(t2, t) ==
    /\ t2.root = t.root
    /\ Size(t) <= Size(t2)
    /\ \A x \in 1..Size(t) :
          /\ t2.node[x].c = t.node[x].c
          /\ \A way \in Ways :
                t.node[x].link[way] # 0 => t2.node[x].link[way] = t.node[x].link[way]

LEMMA CallsGrow ==
    ASSUME NEW t, Sound(t), NEW t2, Sound(t2), Extends(t2, t), NEW k \in Key
    PROVE  Calls(t, k) \subseteq Calls(t2, k)
<1>1. Size(t) \in Nat /\ Size(t2) \in Nat /\ Size(t) <= Size(t2)
    BY SizeIs DEF Extends
<1>2. 1..Size(t) \subseteq 1..Size(t2)
    BY <1>1
<1> QED
    BY <1>2 DEF Calls

\* It takes the same way at each node, and the same link unless it had none.
LEMMA SameWay ==
    ASSUME NEW t, Sound(t), NEW t2, Sound(t2), Extends(t2, t), NEW k \in Key,
           NEW p \in Calls(t, k)
    PROVE  /\ Way(t2.node[p.at], k, p.i) = Way(t.node[p.at], k, p.i)
           /\ Onward(t2, k, p).i = Onward(t, k, p).i
           /\ Onward(t, k, p).at # 0 => Onward(t2, k, p) = Onward(t, k, p)
<1>1. p.at \in 1..Size(t) /\ p.i \in 1..Len(k)
    BY DEF Calls
<1>2. t2.node[p.at].c = t.node[p.at].c
    BY <1>1 DEF Extends
<1>3. Way(t2.node[p.at], k, p.i) = Way(t.node[p.at], k, p.i)
    BY <1>2 DEF Way
<1>4. ASSUME Onward(t, k, p).at # 0 PROVE Onward(t2, k, p).at = Onward(t, k, p).at
    <2>1. PICK way \in Ways : way = Way(t.node[p.at], k, p.i)
        BY <1>4, OnwardIs
    <2>2. way # "value"
        BY DEF Ways
    <2>3. /\ Onward(t, k, p).at = t.node[p.at].link[way]
          /\ Onward(t2, k, p).at = t2.node[p.at].link[way]
        BY <1>3, <2>1, <2>2 DEF Onward
    <2>4. t2.node[p.at].link[way] = t.node[p.at].link[way]
        BY <1>1, <1>4, <2>3 DEF Extends
    <2> QED BY <2>3, <2>4
<1>5. Onward(t2, k, p).i = Onward(t, k, p).i
    BY <1>3 DEF Onward
<1> QED
    BY <1>3, <1>4, <1>5 DEF Onward

LEMMA WalkGoesOn ==
    ASSUME NEW t, Sound(t), t.root # 0, NEW t2, Sound(t2), Extends(t2, t), NEW k \in Key
    PROVE  /\ LastCall(t, k) \in Calls(t, k) /\ Onward(t, k, LastCall(t, k)).at = 0
           /\ Onward(t2, k, LastCall(t, k)).at = 0 => LastCall(t2, k) = LastCall(t, k)
           /\ Onward(t2, k, LastCall(t, k)).at # 0 =>
                 \A S \in SUBSET Calls(t2, k) :
                    /\ Onward(t2, k, LastCall(t, k)) \in S
                    /\ \A p \in S : Step(t2, k)[p] \in S
                    => LastCall(t2, k) \in S /\ Onward(t2, k, LastCall(t2, k)).at = 0
<1>1. PICK f : /\ f = [p \in Calls(t2, k) |->
                         IF Step(t2, k)[p] = p THEN p ELSE f[Step(t2, k)[p]]]
               /\ LastCall(t2, k) = f[Start(t2)]
    BY LastCallIs
<1>2. Calls(t, k) \subseteq Calls(t2, k) /\ Start(t) \in Calls(t, k) /\ Start(t2) = Start(t)
    BY CallsGrow, StartIs DEF Extends, Start
<1>3. PICK last : last = LastCall(t, k)
    OBVIOUS
<1>4. last \in Calls(t, k) /\ f[last] = f[Start(t)] /\ Onward(t, k, last).at = 0
    <2> DEFINE S == {p \in Calls(t, k) : f[p] = f[Start(t)]}
    <2>1. Start(t) \in S /\ S \subseteq Calls(t, k)
        BY <1>2
    <2>2. ASSUME NEW p \in S PROVE Step(t, k)[p] \in S
        <3>0. p \in Calls(t, k) /\ f[p] = f[Start(t)]
            OBVIOUS
        <3>1. CASE Onward(t, k, p).at = 0
            <4>1. Step(t, k)[p] = p
                BY <3>0, <3>1, StepIs
            <4> QED BY <4>1
        <3>2. CASE Onward(t, k, p).at # 0
            <4>1. Step(t, k)[p] = Onward(t, k, p) /\ Step(t, k)[p] \in Calls(t, k)
                BY <3>0, <3>2, StepIs
            <4>2. Onward(t2, k, p) = Onward(t, k, p)
                BY <3>0, <3>2, SameWay
            <4>3. Step(t2, k)[p] = Onward(t, k, p) /\ Step(t2, k)[p] # p
                BY <1>2, <3>0, <3>2, <4>2, StepIs
            <4>4. f[p] = f[Step(t2, k)[p]]
                BY <1>1, <1>2, <3>0, <4>3
            <4> QED BY <3>0, <4>1, <4>3, <4>4
        <3> QED BY <3>1, <3>2
    <2>3. LastCall(t, k) \in S /\ Onward(t, k, LastCall(t, k)).at = 0
        <3> HIDE DEF S
        <3> QED BY <2>1, <2>2, LastCallReached
    <2> QED BY <1>3, <2>3
<1>5. LastCall(t2, k) = f[last] /\ last \in Calls(t2, k)
    BY <1>1, <1>2, <1>4
<1>6. ASSUME Onward(t2, k, last).at = 0 PROVE LastCall(t2, k) = last
    <2>1. Step(t2, k)[last] = last
        BY <1>5, <1>6, StepIs
    <2> QED BY <1>1, <1>5, <2>1
<1>7. ASSUME Onward(t2, k, last).at # 0,
             NEW S \in SUBSET Calls(t2, k), Onward(t2, k, last) \in S,
             \A p \in S : Step(t2, k)[p] \in S
      PROVE  LastCall(t2, k) \in S /\ Onward(t2, k, LastCall(t2, k)).at = 0
    <2>1. Step(t2, k)[last] = Onward(t2, k, last) /\ Step(t2, k)[last] # last
        BY <1>5, <1>7, StepIs
    <2>2. f[last] = f[Onward(t2, k, last)]
        BY <1>1, <1>5, <2>1
    <2>3. S \subseteq Calls(t2, k) /\ \A p \in S : Step(t2, k)[p] \in S
        BY <1>7
    <2>4. f = [p \in Calls(t2, k) |-> IF Step(t2, k)[p] = p THEN p ELSE f[Step(t2, k)[p]]]
        BY <1>1
    <2>5. \A p \in S : f[p] \in S /\ Step(t2, k)[f[p]] = f[p]
        BY <2>3, <2>4, EndsIn
    <2>6. LastCall(t2, k) \in S /\ Step(t2, k)[LastCall(t2, k)] = LastCall(t2, k)
        BY <1>5, <1>7, <2>2, <2>5
    <2> QED BY <2>6, StepIs
<1> QED
    BY <1>3, <1>4, <1>6, <1>7

-----------------------------------------------------------------------------
(* Labels: what a node stands for.                                         *)

Beginning(k, n) == [m \in 1..n |-> k[m]]

LEMMA BeginningIs ==
    ASSUME NEW k \in Key, NEW n \in 0..Len(k)
    PROVE  /\ Beginning(k, n) \in Seq(Int) /\ Len(Beginning(k, n)) = n
           /\ Beginning(k, 0) = << >>
           /\ Beginning(k, Len(k)) = k
           /\ n < Len(k) => Append(Beginning(k, n), k[n + 1]) = Beginning(k, n + 1)
<1>1. k \in Seq(Int) /\ Len(k) \in Nat /\ \A m \in 1..Len(k) : k[m] \in Int
    BY DEF Key
<1>2. Beginning(k, n) \in Seq(Int) /\ Len(Beginning(k, n)) = n
    BY <1>1 DEF Beginning
<1>3. Beginning(k, 0) = << >>
    BY DEF Beginning
<1>4. Beginning(k, Len(k)) = k
    BY <1>1 DEF Beginning
<1>5. ASSUME n < Len(k) PROVE Append(Beginning(k, n), k[n + 1]) = Beginning(k, n + 1)
    <2>1. k[n + 1] \in Int /\ n \in Nat
        BY <1>1, <1>5
    <2>2. PICK s : s = Append(Beginning(k, n), k[n + 1])
        OBVIOUS
    <2>3. s \in Seq(Int) /\ Len(s) = n + 1
        BY <1>2, <2>1, <2>2
    <2>4. \A m \in 1..(n + 1) : s[m] = IF m = n + 1 THEN k[n + 1] ELSE Beginning(k, n)[m]
        BY <1>2, <2>1, <2>2
    <2>5. ASSUME NEW m \in 1..(n + 1) PROVE s[m] = k[m]
        <3>1. CASE m = n + 1
            BY <2>4, <3>1
        <3>2. CASE m # n + 1
            <4>1. m \in 1..n
                BY <2>1, <3>2
            <4> QED BY <2>4, <3>2, <4>1 DEF Beginning
        <3> QED BY <3>1, <3>2
    <2>6. s = [m \in 1..(n + 1) |-> s[m]]
        BY <2>1, <2>3
    <2> QED BY <2>2, <2>5, <2>6 DEF Beginning
<1> QED
    BY <1>2, <1>3, <1>4, <1>5

\* A node's label is what a key must begin with to get there.
Labelled(t, P) ==
    /\ P \in [1..Size(t) -> Seq(Int)]
    /\ t.root # 0 => P[t.root] = << >>
    /\ \A x \in 1..Size(t), way \in Ways : t.node[x].link[way] # 0 =>
          P[t.node[x].link[way]] = IF way = "mid" THEN Append(P[x], t.node[x].c) ELSE P[x]

Tree(t) == Sound(t) /\ \E P : Labelled(t, P)

OnPath(t, P, k) == {p \in Calls(t, k) : P[p.at] = Beginning(k, p.i - 1)}

\* What a node where a key ends or goes on says of it.
LEMMA LabelGrows ==
    ASSUME NEW t, Sound(t), NEW P, NEW k \in Key, NEW p \in OnPath(t, P, k),
           Way(t.node[p.at], k, p.i) \in {"mid", "value"}
    PROVE  Append(P[p.at], t.node[p.at].c) = Beginning(k, p.i)
<1>1. p \in Calls(t, k) /\ P[p.at] = Beginning(k, p.i - 1)
    BY DEF OnPath
<1>2. t.node[p.at] \in Node /\ p.i \in 1..Len(k) /\ Len(k) \in Nat
    BY <1>1, OnwardIs DEF Key
<1>3. k[p.i] = t.node[p.at].c
    BY <1>2, WayIs
<1>4. PICK n \in 0..Len(k) : n = p.i - 1
    BY <1>2
<1>5. n < Len(k) /\ p.i = n + 1
    BY <1>2, <1>4
<1>6. Append(Beginning(k, n), k[n + 1]) = Beginning(k, n + 1)
    BY <1>5, BeginningIs
<1> QED
    BY <1>1, <1>3, <1>4, <1>5, <1>6

LEMMA StaysOnPath ==
    ASSUME NEW t, Sound(t), NEW P, Labelled(t, P), NEW k \in Key, NEW p \in OnPath(t, P, k)
    PROVE  Step(t, k)[p] \in OnPath(t, P, k)
<1>1. p \in Calls(t, k) /\ P[p.at] = Beginning(k, p.i - 1)
    BY DEF OnPath
<1>2. CASE Onward(t, k, p).at = 0
    <2>1. Step(t, k)[p] = p
        BY <1>1, <1>2, StepIs
    <2> QED BY <2>1
<1>3. CASE Onward(t, k, p).at # 0
    <2>1. PICK way \in Ways : way = Way(t.node[p.at], k, p.i)
        BY <1>1, <1>3, OnwardIs
    <2>2. PICK y : y = t.node[p.at].link[way]
        OBVIOUS
    <2>3. /\ Onward(t, k, p) \in Calls(t, k) /\ Onward(t, k, p).at = y
          /\ p.at \in 1..Size(t) /\ p.i \in 1..Len(k)
        BY <1>1, <1>3, <2>1, <2>2, OnwardIs
    <2>4. Onward(t, k, p).i = IF way = "mid" THEN p.i + 1 ELSE p.i
        BY <2>1 DEF Onward
    <2>5. P[y] = IF way = "mid" THEN Append(P[p.at], t.node[p.at].c) ELSE P[p.at]
        BY <1>3, <2>1, <2>2, <2>3 DEF Labelled
    <2>6. P[y] = Beginning(k, Onward(t, k, p).i - 1)
        <3>1. CASE way = "mid"
            <4>1. P[y] = Beginning(k, p.i)
                BY <2>1, <2>5, <3>1, LabelGrows
            <4>2. Onward(t, k, p).i - 1 = p.i
                BY <2>3, <2>4, <3>1
            <4> QED BY <4>1, <4>2
        <3>2. CASE way # "mid"
            BY <1>1, <2>4, <2>5, <3>2
        <3> QED BY <3>1, <3>2
    <2>7. Step(t, k)[p] = Onward(t, k, p)
        BY <1>1, <1>3, StepIs
    <2> QED BY <2>3, <2>6, <2>7 DEF OnPath
<1> QED
    BY <1>2, <1>3

LEMMA LastOnPath ==
    ASSUME NEW t, Sound(t), NEW P, Labelled(t, P), t.root # 0, NEW k \in Key
    PROVE  LastCall(t, k) \in OnPath(t, P, k) /\ Onward(t, k, LastCall(t, k)).at = 0
<1>1. Start(t) \in OnPath(t, P, k)
    <2>1. Start(t) \in Calls(t, k)
        BY StartIs
    <2>2. P[t.root] = << >>
        BY DEF Labelled
    <2>3. PICK n \in 0..Len(k) : n = 0
        BY DEF Key
    <2>4. Beginning(k, 0) = << >>
        BY <2>3, BeginningIs
    <2> QED BY <2>1, <2>2, <2>4 DEF OnPath, Start
<1>2. \A p \in OnPath(t, P, k) : Step(t, k)[p] \in OnPath(t, P, k)
    BY StaysOnPath
<1>3. OnPath(t, P, k) \subseteq Calls(t, k)
    BY DEF OnPath
<1> QED
    BY <1>1, <1>2, <1>3, LastCallReached

\* A search finds a node whose label and character are the key.
LEMMA SearchIs ==
    ASSUME NEW t, Sound(t), NEW P, Labelled(t, P), NEW k \in Key
    PROVE  /\ Search(t, k) # 0 =>
                 /\ Search(t, k) \in 1..Size(t) /\ t.root # 0
                 /\ Search(t, k) = LastCall(t, k).at
                 /\ Append(P[Search(t, k)], t.node[Search(t, k)].c) = k
           /\ t.root # 0 =>
                 IF Way(t.node[LastCall(t, k).at], k, LastCall(t, k).i) = "value"
                   THEN Search(t, k) = LastCall(t, k).at /\ Search(t, k) # 0
                   ELSE Search(t, k) = 0
<1>1. CASE t.root = 0
    BY <1>1 DEF Search
<1>2. CASE t.root # 0
    <2>1. PICK p \in OnPath(t, P, k) : p = LastCall(t, k)
        BY <1>2, LastOnPath
    <2>2. p \in Calls(t, k) /\ p.at \in 1..Size(t) /\ p.i \in 1..Len(k)
        BY DEF OnPath, Calls
    <2>3. CASE Way(t.node[p.at], k, p.i) = "value"
        <3>1. Search(t, k) = p.at /\ p.at # 0
            BY <1>2, <2>1, <2>2, <2>3 DEF Search
        <3>2. Append(P[p.at], t.node[p.at].c) = Beginning(k, p.i)
            BY <2>3, LabelGrows
        <3>3. t.node[p.at] \in Node
            BY <2>2, OnwardIs
        <3>4. p.i = Len(k)
            BY <2>2, <2>3, <3>3, WayIs
        <3>5. Beginning(k, Len(k)) = k
            <4>1. PICK n \in 0..Len(k) : n = 0
                BY DEF Key
            <4> QED BY <4>1, BeginningIs
        <3> QED BY <1>2, <2>1, <2>2, <2>3, <3>1, <3>2, <3>4, <3>5
    <2>4. CASE Way(t.node[p.at], k, p.i) # "value"
        BY <1>2, <2>1, <2>4 DEF Search
    <2> QED BY <2>3, <2>4
<1> QED
    BY <1>1, <1>2

-----------------------------------------------------------------------------
(* What a put adds to the array.                                           *)

\* However many nodes a key needs, the array has room for them and one more.
LEMMA CapacityIs ==
    ASSUME NEW t, Size(t) \in Nat, t.cap \in Nat, Size(t) < t.cap, NEW n \in Nat
    PROVE  Capacity(t, n) \in Nat /\ Size(t) + n < Capacity(t, n)
<1> DEFINE Next1(j, c) == c * (IF IsFull(Size(t) + j - 1, c) THEN 2 ELSE 1)
           Is(f) == f = [j \in 0..n |-> IF j = 0 THEN t.cap ELSE Next1(j, f[j - 1])]
<1>1. ASSUME NEW j \in Nat, j # 0, NEW c \in Nat, Size(t) + j - 1 < c
      PROVE  Next1(j, c) \in Nat /\ Size(t) + j < Next1(j, c)
    <2>1. CASE IsFull(Size(t) + j - 1, c)
        <3>1. Next1(j, c) = 2 * c /\ Size(t) + j - 1 = c - 1
            BY <1>1, <2>1 DEF IsFull
        <3>2. Size(t) + j - 1 \in Nat
            BY <1>1
        <3>3. c \in Nat /\ c > 0
            BY <1>1, <3>2
        <3> QED BY <1>1, <3>1, <3>3
    <2>2. CASE ~ IsFull(Size(t) + j - 1, c)
        <3>1. Next1(j, c) = c /\ ~ (Size(t) + j - 1 >= c - 1)
            BY <2>2 DEF IsFull
        <3> QED BY <3>1
    <2> QED BY <2>1, <2>2
<1>2. \E f : Is(f)
    <2>1. PICK step : step = [j \in Nat |-> [c \in Nat |-> Next1(j, c)]]
        OBVIOUS
    <2>2. step \in [Nat -> [Nat -> Nat]]
        <3>1. ASSUME NEW j \in Nat, NEW c \in Nat PROVE Next1(j, c) \in Nat
            BY 2 * c \in Nat, c * 2 = 2 * c, c * 1 = c
        <3> QED BY <2>1, <3>1
    <2>3. PICK f \in [0..n -> Nat] :
             f = [j \in 0..n |-> IF j = 0 THEN t.cap ELSE step[j][f[j - 1]]]
        <3>1. PICK S : S = Nat
            OBVIOUS
        <3>2. PICK s \in S : s = t.cap
            BY <3>1
        <3>3. step \in [Nat -> [S -> S]]
            BY <2>2, <3>1
        <3>4. \E f \in [0..n -> S] : Counts(f, s, step, n)
            BY <3>3, CountedExists
        <3> QED BY <3>1, <3>2, <3>4 DEF Counts
    <2>4. ASSUME NEW j \in 0..n, j # 0 PROVE step[j][f[j - 1]] = Next1(j, f[j - 1])
        <3>1. j \in Nat /\ f[j - 1] \in Nat
            <4>1. j - 1 \in 0..n
                BY <2>4
            <4> QED BY <2>3, <4>1
        <3> HIDE DEF Next1
        <3> QED BY <2>1, <3>1
    <2>5. [j \in 0..n |-> IF j = 0 THEN t.cap ELSE step[j][f[j - 1]]]
           = [j \in 0..n |-> IF j = 0 THEN t.cap ELSE Next1(j, f[j - 1])]
        BY <2>4
    <2> QED BY <2>3, <2>5
<1>3. PICK f : f = (CHOOSE f_1 : Is(f_1))
    OBVIOUS
<1>4. Is(f) /\ Capacity(t, n) = f[n]
    <2>1. Capacity(t, n) = (CHOOSE f_1 : Is(f_1))[n]
        BY DEF Capacity
    <2> HIDE DEF Is
    <2> QED BY <1>2, <1>3, <2>1
<1> DEFINE T == {j \in Nat : j <= n => f[j] \in Nat /\ Size(t) + j < f[j]}
<1>5. 0 \in T
    BY <1>4
<1>6. ASSUME NEW j \in Nat, j \in T PROVE j + 1 \in T
    <2>1. SUFFICES ASSUME j + 1 <= n
                   PROVE  f[j + 1] \in Nat /\ Size(t) + (j + 1) < f[j + 1]
        OBVIOUS
    <2>2. f[j] \in Nat /\ Size(t) + j < f[j]
        BY <1>6, <2>1
    <2>3. PICK m \in Nat : m = j + 1
        OBVIOUS
    <2>4. m \in 0..n /\ m # 0 /\ m - 1 = j
        BY <2>1, <2>3
    <2>5. f[m] = Next1(m, f[m - 1])
        <3> HIDE DEF Next1
        <3> QED BY <1>4, <2>4
    <2>6. Size(t) + m - 1 < f[m - 1]
        BY <2>2, <2>3, <2>4
    <2>7. Next1(m, f[m - 1]) \in Nat /\ Size(t) + m < Next1(m, f[m - 1])
        <3> HIDE DEF Next1
        <3> QED BY <1>1, <2>2, <2>4, <2>6
    <2> QED BY <2>3, <2>5, <2>7
<1>7. n \in T
    <2> HIDE DEF T
    <2> QED BY <1>5, <1>6, Induction
<1> QED
    BY <1>4, <1>7

\* The nodes b + 1 to b + m of an array are those of a key's rest from its
\* character i on.
HasChain(t, b, m, k, i, value, small) ==
    /\ m = Len(k) - i + 1 /\ Size(t) = b + m
    /\ \A j \in 1..m :
          LET n == t.node[b + j] IN
          /\ n.c = k[i + j - 1]
          /\ n.link = [way \in Ways |-> IF way = "mid" /\ j # m THEN b + j + 1 ELSE 0]
          /\ n.value = IF j = m THEN value ELSE -1
          /\ n.small = IF j = m THEN small ELSE 0

\* The nodes of a key's rest: each leads to the next, the last has the value.
LEMMA ExtendedIs ==
    ASSUME NEW t, Size(t) \in Nat, Size(t) < t.cap,
           t \in [root : Nat, cap : Nat, node : Seq(Node)],
           NEW k \in Key, NEW i \in 1..Len(k), NEW value \in Int, NEW small \in Nat,
           NEW t2, t2 = Extended(t, k, i, value, small),
           NEW m, m = Len(k) - i + 1
    PROVE  /\ t2 \in [root : Nat, cap : Nat, node : Seq(Node)]
           /\ m \in Nat /\ m >= 1
           /\ Size(t2) < t2.cap /\ t2.root = t.root
           /\ \A x \in 1..Size(t) : t2.node[x] = t.node[x]
           /\ HasChain(t2, Size(t), m, k, i, value, small)
<1>1. k \in Seq(Int) /\ Len(k) \in Nat /\ \A j \in 1..Len(k) : k[j] \in Int
    BY DEF Key
<1>2. m \in Nat /\ m >= 1
    BY <1>1
<1>3. PICK new : new = Chain(t, k, i, value, small)
    OBVIOUS
<1>4. ASSUME NEW j \in 1..m
      PROVE  /\ new[j] \in Node
             /\ new[j].c = k[i + j - 1]
             /\ new[j].link = [way \in Ways |-> IF way = "mid" /\ j # m THEN Size(t) + j + 1
                                                ELSE 0]
             /\ new[j].value = IF j = m THEN value ELSE -1
             /\ new[j].small = IF j = m THEN small ELSE 0
    <2>1. PICK c \in Int : c = k[i + j - 1]
        BY <1>1, <1>2
    <2>2. (i + j - 1 = Len(k)) <=> (j = m)
        BY <1>1, <1>2
    <2>3. j \in 1..(Len(k) - i + 1)
        OBVIOUS
    <2>4. new[j] = IF j = m
                     THEN [Blank(c) EXCEPT !.value = value, !.small = small]
                     ELSE [Blank(c) EXCEPT !.link["mid"] = Size(t) + j + 1]
        BY <1>3, <2>1, <2>2, <2>3 DEF Chain
    <2>5. Size(t) + j + 1 \in Nat
        BY <1>2
    <2>6. CASE j = m
        <3>1. new[j] = [c |-> c, link |-> [way \in Ways |-> 0], value |-> value, small |-> small]
            BY <2>4, <2>6 DEF Blank
        <3> QED BY <2>1, <2>6, <3>1 DEF Node
    <2>7. CASE j # m
        <3>1. new[j] = [c |-> c,
                        link |-> [[way \in Ways |-> 0] EXCEPT !["mid"] = Size(t) + j + 1],
                        value |-> -1, small |-> 0]
            BY <2>4, <2>7 DEF Blank
        <3>2. [[way \in Ways |-> 0] EXCEPT !["mid"] = Size(t) + j + 1]
               = [way \in Ways |-> IF way = "mid" /\ j # m THEN Size(t) + j + 1 ELSE 0]
            BY <2>7
        <3>3. PICK link : link = [way \in Ways |->
                             IF way = "mid" /\ j # m THEN Size(t) + j + 1 ELSE 0]
            OBVIOUS
        <3>4. link \in [Ways -> Nat]
            BY <2>5, <3>3
        <3>5. new[j] = [c |-> c, link |-> link, value |-> -1, small |-> 0]
            BY <3>1, <3>2, <3>3
        <3> QED BY <2>1, <2>7, <3>3, <3>4, <3>5 DEF Node
    <2> QED BY <2>6, <2>7
<1>5. new \in Seq(Node) /\ Len(new) = m
    <2>1. new = [j \in 1..m |-> new[j]]
        BY <1>3 DEF Chain
    <2>2. new \in [1..m -> Node]
        BY <1>4, <2>1
    <2> QED BY <1>2, <2>2, SMTT(40)
<1>6. PICK nodes : nodes = t.node \o new
    OBVIOUS
<1>7. t.node \in Seq(Node) /\ Size(t) = Len(t.node)
    BY DEF Size
<1>8. /\ nodes \in Seq(Node) /\ Len(nodes) = Size(t) + m
      /\ \A x \in 1..Size(t) : nodes[x] = t.node[x]
      /\ \A j \in 1..m : nodes[Size(t) + j] = new[j]
    <2>1. nodes \in Seq(Node) /\ Len(nodes) = Len(t.node) + Len(new)
        BY <1>5, <1>6, <1>7, ConcatProperties
    <2>2. \A x \in 1..Len(t.node) : nodes[x] = t.node[x]
        BY <1>5, <1>6, <1>7
    <2>3. ASSUME NEW j \in 1..m PROVE nodes[Size(t) + j] = new[j]
        <3>1. PICK x \in 1..(Len(t.node) + Len(new)) : x = Size(t) + j
            BY <1>2, <1>5, <1>7
        <3>2. x > Len(t.node) /\ x - Len(t.node) = j
            BY <1>2, <1>7, <3>1
        <3> QED BY <1>5, <1>6, <1>7, <3>1, <3>2
    <2> QED BY <1>5, <1>7, <2>1, <2>2, <2>3
<1>9. Capacity(t, m) \in Nat /\ Size(t) + m < Capacity(t, m)
    BY <1>2, CapacityIs
<1>10. t2 = [root |-> t.root, cap |-> Capacity(t, m), node |-> nodes]
    BY <1>3, <1>6 DEF Extended
<1>11. t2.node = nodes /\ t2.root = t.root /\ t2.cap = Capacity(t, m) /\ t.root \in Nat
    BY <1>10
<1>12. t2 \in [root : Nat, cap : Nat, node : Seq(Node)]
    BY <1>8, <1>9, <1>10, <1>11
<1>13. Size(t2) = Size(t) + m
    BY <1>8, <1>11 DEF Size
<1>14. ASSUME NEW j \in 1..m PROVE t2.node[Size(t) + j] = new[j]
    BY <1>8, <1>11
<1>15. Size(t2) < t2.cap
    BY <1>9, <1>11, <1>13
<1>16. \A x \in 1..Size(t) : t2.node[x] = t.node[x]
    BY <1>8, <1>11
<1>17. ASSUME NEW j \in 1..m
       PROVE  LET n == t2.node[Size(t) + j] IN
              /\ n.c = k[i + j - 1]
              /\ n.link = [way \in Ways |-> IF way = "mid" /\ j # m THEN Size(t) + j + 1
                                            ELSE 0]
              /\ n.value = IF j = m THEN value ELSE -1
              /\ n.small = IF j = m THEN small ELSE 0
    BY <1>4, <1>14, ZenonT(60)
<1>18. HasChain(t2, Size(t), m, k, i, value, small)
    BY <1>13, <1>17 DEF HasChain
<1> QED
    BY <1>2, <1>11, <1>12, <1>15, <1>16, <1>18

LEMMA ExtendedHasChain ==
    ASSUME NEW t, Size(t) \in Nat, Size(t) < t.cap,
           t \in [root : Nat, cap : Nat, node : Seq(Node)],
           NEW k \in Key, NEW i \in 1..Len(k), NEW value \in Int, NEW small \in Nat,
           NEW t2, t2 = Extended(t, k, i, value, small)
    PROVE  /\ t2 \in [root : Nat, cap : Nat, node : Seq(Node)]
           /\ Size(t2) < t2.cap /\ t2.root = t.root
           /\ \A x \in 1..Size(t) : t2.node[x] = t.node[x]
           /\ \E m \in Nat : m >= 1 /\ HasChain(t2, Size(t), m, k, i, value, small)
<1>1. PICK m : m = Len(k) - i + 1
    OBVIOUS
<1>2. /\ t2 \in [root : Nat, cap : Nat, node : Seq(Node)]
      /\ m \in Nat /\ m >= 1
      /\ Size(t2) < t2.cap /\ t2.root = t.root
      /\ \A x \in 1..Size(t) : t2.node[x] = t.node[x]
      /\ HasChain(t2, Size(t), m, k, i, value, small)
    BY <1>1, ExtendedIs
<1> QED
    BY <1>2

\* From the chain's first node on, the key's walk goes to its last one.
LEMMA ChainReached ==
    ASSUME NEW t, Sound(t), NEW b \in Nat, NEW m \in Nat, m >= 1, NEW k \in Key,
           NEW i \in 1..Len(k), NEW value, NEW small, HasChain(t, b, m, k, i, value, small)
    PROVE  \E S \in SUBSET Calls(t, k) :
              /\ [at |-> b + 1, i |-> i] \in S
              /\ \A p \in S : Step(t, k)[p] \in S
              /\ \A p \in S : Onward(t, k, p).at = 0 =>
                    p.at = b + m /\ Way(t.node[p.at], k, p.i) = "value"
<1> DEFINE S == {p \in Calls(t, k) : \E j \in 1..m : p = [at |-> b + j, i |-> i + j - 1]}
<1>1. Len(k) \in Nat /\ m = Len(k) - i + 1 /\ Size(t) = b + m
    BY DEF Key, HasChain
<1>2. ASSUME NEW j \in 1..m PROVE [at |-> b + j, i |-> i + j - 1] \in S
    <2>1. b + j \in 1..Size(t) /\ i + j - 1 \in 1..Len(k)
        BY <1>1
    <2> QED BY <2>1 DEF Calls
<1>3. [at |-> b + 1, i |-> i] \in S
    <2>1. PICK j \in 1..m : j = 1
        OBVIOUS
    <2>2. b + j = b + 1 /\ i + j - 1 = i
        BY <2>1
    <2> HIDE DEF S
    <2> QED BY <1>2, <2>2
<1>4. ASSUME NEW p \in S, NEW j \in 1..m, p = [at |-> b + j, i |-> i + j - 1]
      PROVE  /\ p \in Calls(t, k) /\ p.at = b + j /\ p.i = i + j - 1
             /\ j = m => Way(t.node[p.at], k, p.i) = "value"
             /\ j # m => Onward(t, k, p) = [at |-> b + (j + 1), i |-> i + (j + 1) - 1]
    <2>1. p \in Calls(t, k) /\ p.at = b + j /\ p.i = i + j - 1
        BY <1>4
    <2>2. /\ t.node[b + j].c = k[i + j - 1]
          /\ t.node[b + j].link = [way \in Ways |->
                IF way = "mid" /\ j # m THEN b + j + 1 ELSE 0]
        BY DEF HasChain
    <2>3. PICK n \in Node : n = t.node[p.at]
        BY <2>1, OnwardIs
    <2>4. PICK c \in 1..Len(k) : c = p.i
        BY <2>1, OnwardIs
    <2>5. k[c] = n.c /\ n.c \in Int
        BY <2>1, <2>2, <2>3, <2>4 DEF Node
    <2>6. (c < Len(k)) <=> (j # m)
        BY <1>1, <2>1, <2>4
    <2>7. Way(n, k, c) = IF j # m THEN "mid" ELSE "value"
        BY <2>5, <2>6 DEF Way
    <2>8. ASSUME j # m
          PROVE  Onward(t, k, p) = [at |-> b + (j + 1), i |-> i + (j + 1) - 1]
        <3>1. "mid" \in Ways
            BY DEF Ways
        <3>2. n.link["mid"] = b + j + 1
            BY <2>1, <2>2, <2>3, <2>8, <3>1
        <3>3. Onward(t, k, p) = [at |-> n.link["mid"], i |-> c + 1]
            BY <2>3, <2>4, <2>7, <2>8 DEF Onward
        <3>4. b + j + 1 = b + (j + 1) /\ c + 1 = i + (j + 1) - 1
            BY <2>1, <2>4
        <3> QED BY <3>2, <3>3, <3>4
    <2> QED BY <2>1, <2>3, <2>4, <2>7, <2>8
<1>5. ASSUME NEW p \in S
      PROVE  /\ Step(t, k)[p] \in S
             /\ Onward(t, k, p).at = 0 => p.at = b + m /\ Way(t.node[p.at], k, p.i) = "value"
    <2>1. PICK j \in 1..m : p = [at |-> b + j, i |-> i + j - 1]
        OBVIOUS
    <2>2. CASE j = m
        <3>1. p \in Calls(t, k) /\ p.at = b + m /\ Way(t.node[p.at], k, p.i) = "value"
            BY <1>4, <2>1, <2>2
        <3>2. Onward(t, k, p).at = 0
            BY <3>1 DEF Onward
        <3>3. Step(t, k)[p] = p
            BY <3>1, <3>2, StepIs
        <3> HIDE DEF S
        <3> QED BY <3>1, <3>3
    <2>3. CASE j # m
        <3>1. /\ p \in Calls(t, k)
              /\ Onward(t, k, p) = [at |-> b + (j + 1), i |-> i + (j + 1) - 1]
            BY <1>4, <2>1, <2>3
        <3>2. j + 1 \in 1..m /\ b + (j + 1) # 0
            BY <2>3
        <3>3. [at |-> b + (j + 1), i |-> i + (j + 1) - 1] \in S
            <4> HIDE DEF S
            <4> QED BY <1>2, <3>2
        <3>4. Onward(t, k, p).at # 0
            BY <3>1, <3>2
        <3>5. Step(t, k)[p] = Onward(t, k, p)
            BY <3>1, <3>4, StepIs
        <3> HIDE DEF S
        <3> QED BY <3>1, <3>3, <3>4, <3>5
    <2> QED BY <2>2, <2>3
<1>6. S \in SUBSET Calls(t, k)
    OBVIOUS
<1> QED
    <2> HIDE DEF S
    <2> QED BY <1>3, <1>5, <1>6

\* An array with a key's rest after another's nodes, which are as they were
\* but for links to the first of the new ones.
Joined(t2, t, P, k, i) ==
    /\ IF t.root = 0 THEN t2.root = 1 /\ i = 1 ELSE t2.root = t.root
    /\ \A x \in 1..Size(t) :
          /\ t2.node[x].c = t.node[x].c
          /\ t2.node[x].value = t.node[x].value /\ t2.node[x].small = t.node[x].small
          /\ \A way \in Ways :
                \/ t2.node[x].link[way] = t.node[x].link[way]
                \/ /\ t.node[x].link[way] = 0 /\ t2.node[x].link[way] = Size(t) + 1
                   /\ Beginning(k, i - 1) = IF way = "mid" THEN Append(P[x], t.node[x].c)
                                            ELSE P[x]

Labels(t, P, k, i, m) ==
    [x \in 1..(Size(t) + m) |->
        IF x <= Size(t) THEN P[x] ELSE Beginning(k, i - 2 + (x - Size(t)))]

LEMMA LabelsAre ==
    ASSUME NEW t, Sound(t), NEW P, Labelled(t, P), NEW k \in Key, NEW i \in 1..Len(k),
           NEW m \in Nat, i + m = Len(k) + 1,
           NEW L, L = Labels(t, P, k, i, m)
    PROVE  /\ L \in [1..(Size(t) + m) -> Seq(Int)]
           /\ \A x \in 1..Size(t) : L[x] = P[x]
           /\ \A j \in 1..m : L[Size(t) + j] = Beginning(k, i - 2 + j)
<1>1. Size(t) \in Nat /\ Len(k) \in Nat
    BY SizeIs DEF Key
<1>2. ASSUME NEW x \in 1..(Size(t) + m), ~ (x <= Size(t))
      PROVE  Beginning(k, i - 2 + (x - Size(t))) \in Seq(Int)
    <2>1. PICK n \in 0..Len(k) : n = i - 2 + (x - Size(t))
        BY <1>1, <1>2
    <2> QED BY <2>1, BeginningIs
<1>3. ASSUME NEW x \in 1..(Size(t) + m), x <= Size(t) PROVE P[x] \in Seq(Int)
    <2>1. x \in 1..Size(t)
        BY <1>1, <1>3
    <2> QED BY <2>1 DEF Labelled
<1>4. L \in [1..(Size(t) + m) -> Seq(Int)]
    BY <1>2, <1>3 DEF Labels
<1>5. ASSUME NEW x \in 1..Size(t) PROVE L[x] = P[x]
    <2>1. x \in 1..(Size(t) + m) /\ x <= Size(t)
        BY <1>1
    <2> QED BY <2>1 DEF Labels
<1>6. ASSUME NEW j \in 1..m PROVE L[Size(t) + j] = Beginning(k, i - 2 + j)
    <2>1. PICK x \in 1..(Size(t) + m) : x = Size(t) + j
        BY <1>1
    <2>2. ~ (x <= Size(t)) /\ x - Size(t) = j
        BY <1>1, <2>1
    <2> QED BY <2>1, <2>2 DEF Labels
<1> QED
    BY <1>4, <1>5, <1>6

LEMMA JoinedIsTree ==
    ASSUME NEW t, Sound(t), NEW P, Labelled(t, P), NEW k \in Key, NEW i \in 1..Len(k),
           NEW m \in Nat, m >= 1, NEW value, NEW small,
           NEW t2, t2 \in [root : Nat, cap : Nat, node : Seq(Node)], Size(t2) < t2.cap,
           HasChain(t2, Size(t), m, k, i, value, small), Joined(t2, t, P, k, i)
    PROVE  Sound(t2) /\ Labelled(t2, Labels(t, P, k, i, m))
<1>1. Size(t) \in Nat /\ Len(k) \in Nat /\ m = Len(k) - i + 1 /\ Size(t2) = Size(t) + m
    BY SizeIs DEF Key, HasChain
<1>2. PICK b \in Nat : b = Size(t)
    BY <1>1
<1>3. PICK L : L = Labels(t, P, k, i, m)
    OBVIOUS
<1>4. /\ L \in [1..Size(t2) -> Seq(Int)]
      /\ \A x \in 1..b : L[x] = P[x]
      /\ \A j \in 1..m : L[b + j] = Beginning(k, i - 2 + j)
    <2>1. /\ L \in [1..(Size(t) + m) -> Seq(Int)]
          /\ \A x \in 1..Size(t) : L[x] = P[x]
          /\ \A j \in 1..m : L[Size(t) + j] = Beginning(k, i - 2 + j)
        <3>1. i + m = Len(k) + 1
            BY <1>1
        <3> QED BY <1>3, <3>1, LabelsAre
    <2> QED BY <1>1, <1>2, <2>1
<1>5. /\ t2.root \in 1..Size(t2)
      /\ L[t2.root] = << >>
    <2>1. CASE t.root = 0
        <3>1. t2.root = 1 /\ i = 1 /\ b = 0
            BY <1>2, <2>1 DEF Joined, Sound
        <3>2. PICK j \in 1..m : j = 1
            OBVIOUS
        <3>3. b + j = 1 /\ i - 2 + j = 0
            BY <3>1, <3>2
        <3>4. L[1] = Beginning(k, 0)
            BY <1>4, <3>2, <3>3
        <3>5. PICK n \in 0..Len(k) : n = 0
            BY <1>1
        <3>6. Beginning(k, 0) = << >>
            BY <3>5, BeginningIs
        <3> QED BY <1>1, <1>2, <3>1, <3>4, <3>6
    <2>2. CASE t.root # 0
        <3>1. t2.root = t.root /\ t.root \in 1..b
            BY <1>2, <2>2 DEF Joined, Sound
        <3>2. P[t.root] = << >>
            BY <2>2 DEF Labelled
        <3> QED BY <1>1, <1>2, <1>4, <3>1, <3>2
    <2> QED BY <2>1, <2>2
<1>6. ASSUME NEW x \in 1..Size(t2), NEW way \in Ways,
             NEW y, y = t2.node[x].link[way], y # 0
      PROVE  /\ y \in (x + 1)..Size(t2)
             /\ L[y] = IF way = "mid" THEN Append(L[x], t2.node[x].c) ELSE L[x]
    <2>1. CASE x <= b
        <3>1. x \in 1..Size(t) /\ x \in 1..b
            BY <1>2, <2>1
        <3>2. L[x] = P[x] /\ t2.node[x].c = t.node[x].c
            BY <1>4, <3>1 DEF Joined
        <3>3. CASE y = t.node[x].link[way]
            <4>1. /\ y \in (x + 1)..b
                  /\ P[y] = IF way = "mid" THEN Append(P[x], t.node[x].c) ELSE P[x]
                BY <1>2, <1>6, <3>1, <3>3 DEF Sound, Labelled
            <4>2. y \in 1..b /\ y \in (x + 1)..Size(t2)
                BY <1>1, <1>2, <4>1
            <4>3. L[y] = P[y]
                BY <1>4, <4>2
            <4> QED BY <3>2, <4>1, <4>2, <4>3
        <3>4. CASE y # t.node[x].link[way]
            <4>1. /\ y = b + 1
                  /\ Beginning(k, i - 1) = IF way = "mid" THEN Append(P[x], t.node[x].c)
                                           ELSE P[x]
                BY <1>2, <1>6, <3>1, <3>4 DEF Joined
            <4>2. PICK j \in 1..m : j = 1
                OBVIOUS
            <4>3. y = b + j /\ i - 2 + j = i - 1
                BY <4>1, <4>2
            <4>4. L[y] = Beginning(k, i - 1)
                BY <1>4, <4>3
            <4>5. y \in (x + 1)..Size(t2)
                BY <1>1, <1>2, <2>1, <4>1
            <4> QED BY <3>2, <4>1, <4>4, <4>5
        <3> QED BY <3>3, <3>4
    <2>2. CASE ~ (x <= b)
        <3>1. PICK j \in 1..m : x = b + j
            <4>1. x - b \in 1..m /\ x = b + (x - b)
                BY <1>1, <1>2, <2>2
            <4> QED BY <4>1
        <3>2. /\ t2.node[b + j].c = k[i + j - 1]
              /\ t2.node[b + j].link = [w \in Ways |->
                    IF w = "mid" /\ j # m THEN b + j + 1 ELSE 0]
            BY <1>2 DEF HasChain
        <3>3. way = "mid" /\ j # m /\ y = b + j + 1
            BY <1>6, <3>1, <3>2
        <3>4. j + 1 \in 1..m /\ y = b + (j + 1) /\ i - 2 + (j + 1) = i + j - 1
            BY <3>3
        <3>5. L[y] = Beginning(k, i + j - 1) /\ L[x] = Beginning(k, i - 2 + j)
            BY <1>4, <3>1, <3>4
        <3>6. PICK n \in 0..Len(k) : n = i - 2 + j
            BY <1>1
        <3>7. n < Len(k) /\ n + 1 = i + j - 1
            BY <1>1, <3>3, <3>6
        <3>8. Append(Beginning(k, n), k[n + 1]) = Beginning(k, n + 1)
            BY <3>7, BeginningIs
        <3>9. y \in (x + 1)..Size(t2)
            <4>1. PICK z \in Nat : z = b + j + 1
                OBVIOUS
            <4>2. z \in (b + j + 1)..(b + m)
                BY <3>4, <4>1
            <4>3. Size(t2) = b + m
                BY <1>1, <1>2
            <4> QED BY <3>1, <3>3, <4>1, <4>2, <4>3
        <3> QED BY <3>1, <3>2, <3>3, <3>5, <3>6, <3>7, <3>8, <3>9
    <2> QED BY <2>1, <2>2
<1>7. Size(t2) \in Nat /\ t2.root # 0 /\ t2.root \in 0..Size(t2)
    BY <1>1, <1>5
<1>8. Sound(t2)
    BY <1>6, <1>7 DEF Sound
<1>9. Labelled(t2, L)
    BY <1>4, <1>5, <1>6, SMTT(40) DEF Labelled
<1> QED
    BY <1>3, <1>8, <1>9

-----------------------------------------------------------------------------
(* What a put changes of what each key finds.                              *)

None == [value |-> 0, small |-> -1]
Unset == [value |-> -1, small |-> 0]

\* What a key finds in the tree.
Entry(t, k) ==
    IF Search(t, k) = 0 THEN None
    ELSE [value |-> t.node[Search(t, k)].value, small |-> t.node[Search(t, k)].small]

\* A key that is the beginning of another.
Begins(k2, k) == \E n \in 1..(Len(k) - 1) : k2 = Beginning(k, n)

\* Another key finds what it found, but for one that ends where the put key
\* goes on, which now finds a node that has no value.
Keeps(t2, t, k, k2) ==
    \/ Entry(t2, k2) = Entry(t, k2)
    \/ Entry(t, k2) = None /\ Entry(t2, k2) = Unset /\ Begins(k2, k)

LEMMA InChain ==
    ASSUME NEW t, Sound(t), NEW P, Labelled(t, P), NEW b \in Nat, NEW m \in Nat, m >= 1,
           NEW k \in Key, NEW i \in 1..Len(k), NEW value, NEW small,
           HasChain(t, b, m, k, i, value, small),
           \A j \in 1..m : P[b + j] = Beginning(k, i - 2 + j),
           NEW k2 \in Key, k2 # k, LastCall(t, k2).at > b, t.root # 0
    PROVE  Entry(t, k2) = None \/ (Entry(t, k2) = Unset /\ Begins(k2, k))
<1>1. Len(k) \in Nat /\ i + m = Len(k) + 1 /\ Size(t) = b + m
    BY DEF Key, HasChain
<1>2. PICK x : x = Search(t, k2)
    OBVIOUS
<1>3. CASE x = 0
    BY <1>2, <1>3 DEF Entry
<1>4. CASE x # 0
    <2>1. x \in 1..Size(t) /\ x > b /\ Append(P[x], t.node[x].c) = k2
        BY <1>2, <1>4, SearchIs
    <2>2. PICK j \in 1..m : x = b + j
        <3>1. x - b \in 1..m /\ x = b + (x - b)
            BY <1>1, <2>1
        <3> QED BY <3>1
    <2>3. /\ t.node[b + j].c = k[i + j - 1]
          /\ t.node[b + j].value = IF j = m THEN value ELSE -1
          /\ t.node[b + j].small = IF j = m THEN small ELSE 0
        BY DEF HasChain
    <2>4. PICK n \in 0..Len(k) : n = i - 2 + j
        BY <1>1
    <2>5. n < Len(k) /\ n + 1 = i + j - 1
        BY <1>1, <2>4
    <2>6. Append(Beginning(k, n), k[n + 1]) = Beginning(k, n + 1) /\ Beginning(k, Len(k)) = k
        BY <2>5, BeginningIs
    <2>7. k2 = Beginning(k, n + 1)
        BY <2>1, <2>2, <2>3, <2>4, <2>5, <2>6
    <2>8. j # m
        <3>1. SUFFICES ASSUME j = m PROVE FALSE
            OBVIOUS
        <3>2. n + 1 = Len(k)
            BY <1>1, <2>5, <3>1
        <3> QED BY <2>6, <2>7, <3>2
    <2>9. n + 1 \in 1..(Len(k) - 1)
        BY <1>1, <2>4, <2>8
    <2>10. Entry(t, k2) = Unset
        BY <1>2, <1>4, <2>2, <2>3, <2>8 DEF Entry, Unset
    <2> QED BY <2>7, <2>9, <2>10 DEF Begins
<1> QED
    BY <1>3, <1>4

\* The key itself finds its value, when its walk comes to the chain.
LEMMA KeyInChain ==
    ASSUME NEW t, Sound(t), NEW P, Labelled(t, P), NEW b \in Nat, NEW m \in Nat, m >= 1,
           NEW k \in Key, NEW i \in 1..Len(k), NEW value, NEW small,
           HasChain(t, b, m, k, i, value, small), t.root # 0,
           LastCall(t, k).at = b + m,
           Way(t.node[LastCall(t, k).at], k, LastCall(t, k).i) = "value"
    PROVE  Entry(t, k) = [value |-> value, small |-> small]
<1>1. Search(t, k) = b + m /\ Search(t, k) # 0
    BY SearchIs
<1>2. PICK j \in 1..m : j = m
    OBVIOUS
<1>3. t.node[b + j].value = value /\ t.node[b + j].small = small
    BY <1>2 DEF HasChain
<1> QED
    BY <1>1, <1>2, <1>3 DEF Entry

\* A tree joined to a key's rest where the key's walk ended finds the key.
LEMMA JoinedFindsKey ==
    ASSUME NEW t, Sound(t), NEW P, Labelled(t, P), NEW k \in Key, NEW i \in 1..Len(k),
           NEW m \in Nat, m >= 1, NEW value, NEW small,
           NEW t2, Sound(t2), NEW P2, Labelled(t2, P2),
           HasChain(t2, Size(t), m, k, i, value, small), Joined(t2, t, P, k, i),
           t.root # 0 => Onward(t2, k, LastCall(t, k)) = [at |-> Size(t) + 1, i |-> i]
    PROVE  Entry(t2, k) = [value |-> value, small |-> small]
<1>1. Size(t) \in Nat /\ Size(t2) = Size(t) + m /\ Size(t2) \in Nat
    BY SizeIs DEF HasChain
<1>2. PICK b \in Nat : b = Size(t)
    BY <1>1
<1>3. HasChain(t2, b, m, k, i, value, small)
    BY <1>2
<1>4. PICK S \in SUBSET Calls(t2, k) :
         /\ [at |-> b + 1, i |-> i] \in S
         /\ \A p \in S : Step(t2, k)[p] \in S
         /\ \A p \in S : Onward(t2, k, p).at = 0 =>
               p.at = b + m /\ Way(t2.node[p.at], k, p.i) = "value"
    BY <1>3, ChainReached
<1>5. t2.root # 0
    BY DEF Joined
<1>6. LastCall(t2, k) \in S /\ Onward(t2, k, LastCall(t2, k)).at = 0
    <2>1. CASE t.root = 0
        <3>1. t2.root = 1 /\ i = 1 /\ b = 0
            BY <1>2, <2>1 DEF Joined, Sound
        <3>2. Start(t2) = [at |-> b + 1, i |-> i]
            BY <3>1 DEF Start
        <3>3. S \subseteq Calls(t2, k) /\ Start(t2) \in S /\ \A p \in S : Step(t2, k)[p] \in S
            BY <1>4, <3>2
        <3> QED BY <1>5, <3>3, LastCallReached
    <2>2. CASE t.root # 0
        <3>1. Extends(t2, t)
            BY <1>1, <2>2 DEF Joined, Extends
        <3>2. Onward(t2, k, LastCall(t, k)) = [at |-> b + 1, i |-> i]
            BY <1>2, <2>2
        <3>3. Onward(t2, k, LastCall(t, k)).at # 0 /\ Onward(t2, k, LastCall(t, k)) \in S
            BY <1>4, <3>2
        <3> QED BY <1>4, <2>2, <3>1, <3>3, WalkGoesOn
    <2> QED BY <2>1, <2>2
<1>7. LastCall(t2, k).at = b + m /\ Way(t2.node[LastCall(t2, k).at], k, LastCall(t2, k).i) = "value"
    BY <1>4, <1>6
<1> QED
    BY <1>3, <1>5, <1>7, KeyInChain

LEMMA JoinedKeeps ==
    ASSUME NEW t, Sound(t), NEW P, Labelled(t, P), NEW k \in Key, NEW i \in 1..Len(k),
           NEW m \in Nat, m >= 1, NEW value, NEW small,
           NEW t2, Sound(t2), Labelled(t2, Labels(t, P, k, i, m)),
           HasChain(t2, Size(t), m, k, i, value, small), Joined(t2, t, P, k, i),
           NEW k2 \in Key, k2 # k
    PROVE  Keeps(t2, t, k, k2)
<1>1. /\ Size(t) \in Nat /\ Size(t2) = Size(t) + m /\ Size(t2) \in Nat
      /\ Len(k) \in Nat /\ i + m = Len(k) + 1
    BY SizeIs DEF HasChain, Key
<1>2. PICK b \in Nat : b = Size(t)
    BY <1>1
<1>3. PICK L : L = Labels(t, P, k, i, m)
    OBVIOUS
<1>4. \A j \in 1..m : L[b + j] = Beginning(k, i - 2 + j)
    <2>1. \A j \in 1..m : L[Size(t) + j] = Beginning(k, i - 2 + j)
        BY <1>1, <1>3, LabelsAre
    <2> QED BY <1>2, <2>1
<1>5. t2.root # 0
    BY DEF Joined
<1>6. ASSUME LastCall(t2, k2).at > b
      PROVE  Entry(t2, k2) = None \/ (Entry(t2, k2) = Unset /\ Begins(k2, k))
    <2>1. HasChain(t2, b, m, k, i, value, small) /\ Labelled(t2, L)
        BY <1>2, <1>3
    <2> QED BY <1>4, <1>5, <1>6, <2>1, InChain
<1>7. CASE t.root = 0
    <2>1. Entry(t, k2) = None
        BY <1>7 DEF Entry, Search
    <2>2. b = 0
        BY <1>2, <1>7 DEF Sound
    <2>3. LastCall(t2, k2).at > b
        <3>1. LastCall(t2, k2) \in OnPath(t2, L, k2)
            BY <1>3, <1>5, LastOnPath
        <3>2. LastCall(t2, k2).at \in 1..Size(t2)
            BY <3>1 DEF OnPath, Calls
        <3> QED BY <2>2, <3>2
    <2> QED BY <1>6, <2>1, <2>3 DEF Keeps
<1>8. CASE t.root # 0
    <2>1. Extends(t2, t)
        BY <1>1, <1>8 DEF Joined, Extends
    <2>2. PICK p : p = LastCall(t, k2)
        OBVIOUS
    <2>3. p \in Calls(t, k2) /\ Onward(t, k2, p).at = 0
        BY <1>8, <2>1, <2>2, WalkGoesOn
    <2>4. p.at \in 1..Size(t) /\ Way(t2.node[p.at], k2, p.i) = Way(t.node[p.at], k2, p.i)
        BY <2>1, <2>3, SameWay DEF Calls
    <2>5. CASE Onward(t2, k2, p).at = 0
        <3>1. LastCall(t2, k2) = p
            BY <1>8, <2>1, <2>2, <2>5, WalkGoesOn
        <3>2. Search(t2, k2) = Search(t, k2) /\ Search(t, k2) \in {0, p.at}
            BY <1>5, <1>8, <2>2, <2>4, <3>1 DEF Search
        <3>3. t2.node[p.at].value = t.node[p.at].value /\ t2.node[p.at].small = t.node[p.at].small
            BY <2>4 DEF Joined
        <3>4. Entry(t2, k2) = Entry(t, k2)
            BY <3>2, <3>3 DEF Entry
        <3> QED BY <3>4 DEF Keeps
    <2>6. CASE Onward(t2, k2, p).at # 0
        <3>1. PICK way \in Ways : way = Way(t2.node[p.at], k2, p.i)
            <4>1. p \in Calls(t2, k2)
                BY <2>1, <2>3, CallsGrow
            <4> QED BY <2>6, <4>1, OnwardIs
        <3>2. way # "value" /\ way = Way(t.node[p.at], k2, p.i)
            BY <2>4, <3>1 DEF Ways
        <3>3. /\ Onward(t2, k2, p).at = t2.node[p.at].link[way]
              /\ Onward(t, k2, p).at = t.node[p.at].link[way]
            BY <3>1, <3>2 DEF Onward
        <3>4. Onward(t2, k2, p).at = b + 1
            BY <1>2, <2>3, <2>4, <2>6, <3>3 DEF Joined
        <3>5. Entry(t, k2) = None
            BY <1>8, <2>2, <3>2 DEF Entry, Search
        <3> DEFINE S == {q \in Calls(t2, k2) : q.at > b}
        <3>6. S \in SUBSET Calls(t2, k2)
            OBVIOUS
        <3>7. Onward(t2, k2, p) \in S
            <4>1. p \in Calls(t2, k2)
                BY <2>1, <2>3, CallsGrow
            <4>2. Onward(t2, k2, p) \in Calls(t2, k2)
                BY <2>6, <4>1, OnwardIs
            <4> QED BY <3>4, <4>2
        <3>8. ASSUME NEW q \in S PROVE Step(t2, k2)[q] \in S
            <4>0. q \in Calls(t2, k2) /\ q.at > b
                OBVIOUS
            <4>1. CASE Onward(t2, k2, q).at = 0
                <5>1. Step(t2, k2)[q] = q
                    BY <4>0, <4>1, StepIs
                <5> QED BY <5>1
            <4>2. CASE Onward(t2, k2, q).at # 0
                <5>1. Step(t2, k2)[q] = Onward(t2, k2, q)
                    BY <4>0, <4>2, StepIs
                <5>2. /\ Onward(t2, k2, q) \in Calls(t2, k2) /\ Onward(t2, k2, q).at > q.at
                      /\ q.at \in 1..Size(t2)
                    BY <4>0, <4>2, OnwardIs
                <5>3. Onward(t2, k2, q).at \in 1..Size(t2)
                    BY <5>2 DEF Calls
                <5>4. Onward(t2, k2, q).at > b
                    BY <4>0, <5>2, <5>3
                <5> QED BY <5>1, <5>2, <5>4
            <4> QED BY <4>1, <4>2
        <3>9. LastCall(t2, k2) \in S
            <4> HIDE DEF S
            <4> QED BY <1>8, <2>1, <2>2, <2>6, <3>6, <3>7, <3>8, WalkGoesOn
        <3>10. LastCall(t2, k2).at > b
            BY <3>9
        <3> QED BY <1>6, <3>5, <3>10 DEF Keeps
    <2> QED BY <2>5, <2>6
<1> QED
    BY <1>7, <1>8

\* A put of a key into an empty tree, at a node it has, and below one.
LEMMA PutFirst ==
    ASSUME NEW t, Sound(t), NEW P, Labelled(t, P), t.root = 0, NEW k \in Key,
           NEW value \in Int, NEW small \in Nat,
           NEW t2, t2 = Put(t, k, value, small)
    PROVE  /\ Tree(t2)
           /\ Entry(t2, k) = [value |-> value, small |-> small]
           /\ \A k2 \in Key \ {k} : Keeps(t2, t, k, k2)
<1>1. /\ t \in [root : Nat, cap : Nat, node : Seq(Node)]
      /\ Size(t) = 0 /\ Size(t) < t.cap
    BY DEF Sound
<1>2. PICK t1 : t1 = [t EXCEPT !.root = Size(t) + 1]
    OBVIOUS
<1>3. /\ t1 \in [root : Nat, cap : Nat, node : Seq(Node)]
      /\ t1.root = 1 /\ t1.cap = t.cap /\ t1.node = t.node
    BY <1>1, <1>2
<1>4. Size(t1) = Size(t) /\ Size(t1) \in Nat /\ Size(t1) < t1.cap
    BY <1>1, <1>3 DEF Size
<1>5. PICK i \in 1..Len(k) : i = 1
    BY DEF Key
<1>6. t2 = Extended(t1, k, i, value, small)
    BY <1>2, <1>5 DEF Put
<1>7. /\ t2 \in [root : Nat, cap : Nat, node : Seq(Node)]
      /\ Size(t2) < t2.cap /\ t2.root = t1.root
      /\ \A x \in 1..Size(t1) : t2.node[x] = t1.node[x]
      /\ \E m \in Nat : m >= 1 /\ HasChain(t2, Size(t1), m, k, i, value, small)
    BY <1>3, <1>4, <1>6, ExtendedHasChain
<1>8. PICK m \in Nat : m >= 1 /\ HasChain(t2, Size(t), m, k, i, value, small)
    BY <1>4, <1>7
<1>9. Joined(t2, t, P, k, i)
    BY <1>1, <1>3, <1>5, <1>7 DEF Joined
<1>10. Sound(t2) /\ Labelled(t2, Labels(t, P, k, i, m))
    BY <1>7, <1>8, <1>9, JoinedIsTree
<1>11. Entry(t2, k) = [value |-> value, small |-> small]
    BY <1>8, <1>9, <1>10, JoinedFindsKey
<1>12. \A k2 \in Key \ {k} : Keeps(t2, t, k, k2)
    BY <1>8, <1>9, <1>10, JoinedKeeps
<1> QED
    BY <1>10, <1>11, <1>12 DEF Tree

LEMMA PutBelow ==
    ASSUME NEW t, Sound(t), NEW P, Labelled(t, P), t.root # 0, NEW k \in Key,
           NEW value \in Int, NEW small \in Nat,
           NEW t2, t2 = Put(t, k, value, small),
           Way(t.node[LastCall(t, k).at], k, LastCall(t, k).i) # "value"
    PROVE  /\ Tree(t2)
           /\ Entry(t2, k) = [value |-> value, small |-> small]
           /\ \A k2 \in Key \ {k} : Keeps(t2, t, k, k2)
<1>1. PICK p \in OnPath(t, P, k) : p = LastCall(t, k) /\ Onward(t, k, p).at = 0
    BY LastOnPath
<1>2. p \in Calls(t, k) /\ P[p.at] = Beginning(k, p.i - 1)
    BY DEF OnPath
<1>3. /\ t.node[p.at] \in Node /\ p.at \in 1..Size(t) /\ p.i \in 1..Len(k)
      /\ Way(t.node[p.at], k, p.i) \in Ways \cup {"value"} /\ Onward(t, k, p).i \in 1..Len(k)
    BY <1>2, OnwardIs
<1>4. PICK way \in Ways : way = Way(t.node[p.at], k, p.i)
    BY <1>1, <1>3
<1>5. PICK i \in 1..Len(k) : i = Onward(t, k, p).i
    BY <1>3
<1>6. way # "value"
    BY DEF Ways
<1>7. t.node[p.at].link[way] = 0 /\ i = IF way = "mid" THEN p.i + 1 ELSE p.i
    BY <1>1, <1>4, <1>5, <1>6 DEF Onward
<1>8. /\ t \in [root : Nat, cap : Nat, node : Seq(Node)]
      /\ Size(t) \in Nat /\ Size(t) < t.cap /\ Size(t) = Len(t.node) /\ t.node \in Seq(Node)
    BY SizeIs DEF Sound, Size
<1>9. PICK n : n = [t.node[p.at] EXCEPT !.link[way] = Size(t) + 1]
    OBVIOUS
<1>10. /\ n \in Node /\ n.c = t.node[p.at].c
       /\ n.value = t.node[p.at].value /\ n.small = t.node[p.at].small
       /\ \A w \in Ways : n.link[w] = IF w = way THEN Size(t) + 1 ELSE t.node[p.at].link[w]
    <2>1. PICK old \in Node : old = t.node[p.at]
        BY <1>3
    <2>2. PICK link : link = [old.link EXCEPT ![way] = Size(t) + 1]
        OBVIOUS
    <2>3. old.link \in [Ways -> Nat]
        BY DEF Node
    <2>4. /\ link \in [Ways -> Nat]
          /\ \A w \in Ways : link[w] = IF w = way THEN Size(t) + 1 ELSE old.link[w]
        BY <1>8, <2>2, <2>3
    <2>5. n = [old EXCEPT !.link = link]
        BY <1>9, <2>1, <2>2
    <2>6. n = [c |-> old.c, link |-> link, value |-> old.value, small |-> old.small]
        BY <2>5 DEF Node
    <2>7. n \in Node
        BY <2>4, <2>6 DEF Node
    <2> QED BY <2>1, <2>4, <2>6, <2>7
<1>11. PICK t1 : t1 = [t EXCEPT !.node[p.at].link[way] = Size(t) + 1]
    OBVIOUS
<1>12. t1.node = [t.node EXCEPT ![p.at] = n] /\ t1.root = t.root /\ t1.cap = t.cap
    BY <1>8, <1>9, <1>11
<1>13. /\ t1.node \in Seq(Node) /\ Len(t1.node) = Size(t)
       /\ \A x \in 1..Size(t) : t1.node[x] = IF x = p.at THEN n ELSE t.node[x]
    BY <1>3, <1>8, <1>10, <1>12
<1>14. t1 \in [root : Nat, cap : Nat, node : Seq(Node)]
    <2>1. t1 = [root |-> t1.root, cap |-> t1.cap, node |-> t1.node]
        BY <1>8, <1>11
    <2> QED BY <1>8, <1>12, <1>13, <2>1
<1>15. Size(t1) = Size(t) /\ Size(t1) < t1.cap /\ Size(t1) \in Nat
    BY <1>8, <1>12, <1>13 DEF Size
<1>16. t2 = Extended(t1, k, i, value, small)
    BY <1>1, <1>4, <1>5, <1>6, <1>11 DEF Put
<1>17. /\ t2 \in [root : Nat, cap : Nat, node : Seq(Node)]
       /\ Size(t2) < t2.cap /\ t2.root = t1.root
       /\ \A x \in 1..Size(t1) : t2.node[x] = t1.node[x]
       /\ \E m \in Nat : m >= 1 /\ HasChain(t2, Size(t1), m, k, i, value, small)
    BY <1>14, <1>15, <1>16, ExtendedHasChain
<1>18. PICK m \in Nat : m >= 1 /\ HasChain(t2, Size(t), m, k, i, value, small)
    BY <1>15, <1>17
<1>19. \A x \in 1..Size(t) : t2.node[x] = IF x = p.at THEN n ELSE t.node[x]
    BY <1>13, <1>15, <1>17
<1>20. Beginning(k, i - 1) = IF way = "mid" THEN Append(P[p.at], t.node[p.at].c) ELSE P[p.at]
    <2>1. CASE way = "mid"
        <3>1. Append(P[p.at], t.node[p.at].c) = Beginning(k, p.i)
            BY <1>4, <2>1, LabelGrows
        <3>2. i - 1 = p.i
            BY <1>3, <1>7, <2>1
        <3> QED BY <2>1, <3>1, <3>2
    <2>2. CASE way # "mid"
        BY <1>2, <1>7, <2>2
    <2> QED BY <2>1, <2>2
<1>21. Joined(t2, t, P, k, i)
    <2>1. ASSUME NEW x \in 1..Size(t)
          PROVE  /\ t2.node[x].c = t.node[x].c
                 /\ t2.node[x].value = t.node[x].value /\ t2.node[x].small = t.node[x].small
                 /\ \A w \in Ways :
                       \/ t2.node[x].link[w] = t.node[x].link[w]
                       \/ /\ t.node[x].link[w] = 0 /\ t2.node[x].link[w] = Size(t) + 1
                          /\ Beginning(k, i - 1) = IF w = "mid" THEN Append(P[x], t.node[x].c)
                                                   ELSE P[x]
        <3>1. CASE x = p.at
            BY <1>7, <1>10, <1>19, <1>20, <3>1
        <3>2. CASE x # p.at
            BY <1>19, <3>2
        <3> QED BY <3>1, <3>2
    <2>2. t2.root = t.root
        BY <1>12, <1>17
    <2> QED BY <2>1, <2>2 DEF Joined
<1>22. Sound(t2) /\ Labelled(t2, Labels(t, P, k, i, m))
    BY <1>17, <1>18, <1>21, JoinedIsTree
<1>23. Onward(t2, k, LastCall(t, k)) = [at |-> Size(t) + 1, i |-> i]
    <2>1. t2.node[p.at] = n
        BY <1>3, <1>19
    <2>2. Way(n, k, p.i) = way
        BY <1>4, <1>10 DEF Way
    <2>3. n.link[way] = Size(t) + 1
        BY <1>10
    <2> QED BY <1>1, <1>6, <1>7, <2>1, <2>2, <2>3 DEF Onward
<1>24. Entry(t2, k) = [value |-> value, small |-> small]
    BY <1>18, <1>21, <1>22, <1>23, JoinedFindsKey
<1>25. \A k2 \in Key \ {k} : Keeps(t2, t, k, k2)
    BY <1>18, <1>21, <1>22, JoinedKeeps
<1> QED
    BY <1>22, <1>24, <1>25 DEF Tree

LEMMA PutAtNode ==
    ASSUME NEW t, Sound(t), NEW P, Labelled(t, P), t.root # 0, NEW k \in Key,
           NEW value \in Int, NEW small \in Nat,
           NEW t2, t2 = Put(t, k, value, small),
           Way(t.node[LastCall(t, k).at], k, LastCall(t, k).i) = "value"
    PROVE  /\ Tree(t2)
           /\ Entry(t2, k) = [value |-> value, small |-> small]
           /\ \A k2 \in Key \ {k} : Keeps(t2, t, k, k2)
<1>1. PICK p \in Calls(t, k) : p = LastCall(t, k)
    BY LastOnPath DEF OnPath
<1>2. t.node[p.at] \in Node /\ p.at \in 1..Size(t)
    BY OnwardIs
<1>3. /\ t \in [root : Nat, cap : Nat, node : Seq(Node)]
      /\ Size(t) \in Nat /\ Size(t) < t.cap /\ Size(t) = Len(t.node) /\ t.node \in Seq(Node)
    BY SizeIs DEF Sound, Size
<1>4. PICK n : n = [t.node[p.at] EXCEPT !.value = value, !.small = small]
    OBVIOUS
<1>5. /\ n \in Node /\ n.c = t.node[p.at].c /\ n.link = t.node[p.at].link
      /\ n.value = value /\ n.small = small
    BY <1>2, <1>4 DEF Node
<1>6. t2 = [t EXCEPT !.node[p.at].value = value, !.node[p.at].small = small]
    BY <1>1 DEF Put
<1>7. t2.node = [t.node EXCEPT ![p.at] = n] /\ t2.root = t.root /\ t2.cap = t.cap
    <2>1. PICK t1 : t1 = [t EXCEPT !.node[p.at].value = value]
        OBVIOUS
    <2>2. /\ t1.node = [t.node EXCEPT ![p.at] = [t.node[p.at] EXCEPT !.value = value]]
          /\ t1.root = t.root /\ t1.cap = t.cap
          /\ t1 \in [root : Nat, cap : Nat, node : {t1.node}]
        BY <1>3, <2>1
    <2>3. t2 = [t1 EXCEPT !.node[p.at].small = small]
        BY <1>6, <2>1
    <2>4. t2.node = [t1.node EXCEPT ![p.at] = [t1.node[p.at] EXCEPT !.small = small]]
          /\ t2.root = t1.root /\ t2.cap = t1.cap
        BY <2>2, <2>3
    <2>5. t1.node[p.at] = [t.node[p.at] EXCEPT !.value = value] /\ p.at \in DOMAIN t.node
        BY <1>2, <1>3, <2>2
    <2>6. n = [[t.node[p.at] EXCEPT !.value = value] EXCEPT !.small = small]
        BY <1>4
    <2>7. t2.node = [t1.node EXCEPT ![p.at] = n]
        BY <2>4, <2>5, <2>6
    <2>8. t2.node = [t.node EXCEPT ![p.at] = n]
        BY <2>2, <2>5, <2>7
    <2> QED BY <2>2, <2>4, <2>8
<1>8. /\ t2.node \in Seq(Node) /\ Len(t2.node) = Size(t)
      /\ \A x \in 1..Size(t) : t2.node[x] = IF x = p.at THEN n ELSE t.node[x]
    BY <1>2, <1>3, <1>5, <1>7
<1>9. t2 \in [root : Nat, cap : Nat, node : Seq(Node)]
    <2>1. t2 = [root |-> t2.root, cap |-> t2.cap, node |-> t2.node]
        BY <1>3, <1>6
    <2> QED BY <1>3, <1>7, <1>8, <2>1
<1>10. Size(t2) = Size(t) /\ Size(t2) < t2.cap
    BY <1>3, <1>7, <1>8 DEF Size
<1>11. \A x \in 1..Size(t) : /\ t2.node[x].c = t.node[x].c
                             /\ t2.node[x].link = t.node[x].link
    BY <1>5, <1>8
<1>12. Sound(t2)
    BY <1>7, <1>9, <1>10, <1>11 DEF Sound
<1>13. Labelled(t2, P)
    BY <1>7, <1>10, <1>11 DEF Labelled
<1>14. ASSUME NEW k2 \in Key PROVE Search(t2, k2) = Search(t, k2)
    <2>1. Extends(t2, t)
        BY <1>3, <1>7, <1>10, <1>11 DEF Extends
    <2>2. PICK q : q = LastCall(t, k2)
        OBVIOUS
    <2>3. q \in Calls(t, k2) /\ Onward(t, k2, q).at = 0
        BY <1>12, <2>1, <2>2, WalkGoesOn
    <2>4. q.at \in 1..Size(t) /\ Way(t2.node[q.at], k2, q.i) = Way(t.node[q.at], k2, q.i)
        BY <1>12, <2>1, <2>3, SameWay DEF Calls
    <2>5. Onward(t2, k2, q).at = 0
        BY <1>11, <2>3, <2>4 DEF Onward
    <2>6. LastCall(t2, k2) = q
        BY <1>12, <2>1, <2>2, <2>5, WalkGoesOn
    <2> QED BY <1>7, <2>2, <2>4, <2>6 DEF Search
<1>15. Search(t, k) = p.at /\ Search(t, k) # 0 /\ Append(P[p.at], t.node[p.at].c) = k
    BY <1>1, SearchIs
<1>16. Entry(t2, k) = [value |-> value, small |-> small]
    BY <1>2, <1>5, <1>8, <1>14, <1>15 DEF Entry
<1>17. ASSUME NEW k2 \in Key \ {k} PROVE Keeps(t2, t, k, k2)
    <2>1. Search(t, k2) # p.at
        <3>1. SUFFICES ASSUME Search(t, k2) = p.at PROVE FALSE
            OBVIOUS
        <3>2. Append(P[p.at], t.node[p.at].c) = k2
            <4>1. Search(t, k2) # 0
                BY <1>15, <3>1
            <4>2. Append(P[Search(t, k2)], t.node[Search(t, k2)].c) = k2
                BY <4>1, SearchIs
            <4> QED BY <3>1, <4>2
        <3> QED BY <1>15, <3>2
    <2>2. Search(t, k2) # 0 => Search(t, k2) \in 1..Size(t)
        BY SearchIs
    <2>3. Search(t2, k2) = Search(t, k2)
        BY <1>14
    <2>4. Search(t, k2) # 0 => t2.node[Search(t, k2)] = t.node[Search(t, k2)]
        BY <1>8, <2>1, <2>2
    <2>5. Entry(t2, k2) = Entry(t, k2)
        BY <2>3, <2>4 DEF Entry
    <2> QED BY <2>5 DEF Keeps
<1> QED
    BY <1>12, <1>13, <1>16, <1>17 DEF Tree

\* A put leaves a tree, in which the key finds what was put and every other
\* key what it found, or a node without a value if the put key goes on from it.
LEMMA PutIs ==
    ASSUME NEW t, Tree(t), NEW k \in Key, NEW value \in Int, NEW small \in Nat,
           NEW t2, t2 = Put(t, k, value, small)
    PROVE  /\ Tree(t2)
           /\ Entry(t2, k) = [value |-> value, small |-> small]
           /\ \A k2 \in Key \ {k} : Keeps(t2, t, k, k2)
<1>1. PICK P : Labelled(t, P)
    BY DEF Tree
<1>2. Sound(t)
    BY DEF Tree
<1>3. CASE t.root = 0
    BY <1>1, <1>2, <1>3, PutFirst
<1>4. CASE t.root # 0 /\ Way(t.node[LastCall(t, k).at], k, LastCall(t, k).i) = "value"
    BY <1>1, <1>2, <1>4, PutAtNode
<1>5. CASE t.root # 0 /\ Way(t.node[LastCall(t, k).at], k, LastCall(t, k).i) # "value"
    BY <1>1, <1>2, <1>5, PutBelow
<1> QED
    BY <1>3, <1>4, <1>5

-----------------------------------------------------------------------------
(* The invariant.                                                          *)

\* No key is the beginning of another: version 1 makes of such a key a node
\* that no put has given a value, at which a lookup reads what comes next.
PrefixFree == \A k, k2 \in Keys : ~ Begins(k2, k)

Lines == hint \o hintBuf
File == data \o dataBuf

Pieces == [part : {"head", "body"}, key : Keys, kind : Kinds, id : Nat]
HintLines == [key : Keys, kind : Kinds, number : Nat]
Puts == [key : Keys, kind : Kinds, did : BOOLEAN, acked : BOOLEAN]
Handlers == [at : {"idle", "get", "got", "put", "head", "body", "tree", "hint", "done"},
           op : {"none", "get", "set", "delete"}, key : Keys \cup {<< >>}, kind : Kinds,
           off : Nat, got : [kind : Kinds \cup {"garbage"}, id : Int]]

Types ==
    /\ main \in {"down", "accept", "hook", "unready", "data flushed", "flushed",
                 "data closed", "closed", "returned"}
    /\ ready \in BOOLEAN /\ epoll \in BOOLEAN
    /\ data \in Seq(Pieces) /\ dataBuf \in Seq(Pieces)
    /\ hint \in Seq(HintLines) /\ hintBuf \in Seq(HintLines)
    /\ h \in Handlers /\ (h.at # "idle" => h.key \in Keys)
    /\ puts \in Seq(Puts)
    /\ replies \subseteq 1..Len(puts)
    /\ cut \subseteq Keys

\* What each moment of a stop leaves in the buffers, and of the put under way.
Stops ==
    /\ ready <=> main \in {"accept", "hook", "returned"}
    /\ epoll => main \in {"accept", "returned"}
    /\ main \in {"flushed", "data closed", "closed", "down"} => InFlight \subseteq cut
    /\ main \in {"flushed", "data closed"} => \A j \in 1..Len(hintBuf) : hintBuf[j].key \in cut
    /\ main \in {"closed", "returned", "down"} => hintBuf = << >>
    /\ main \in {"data closed", "closed", "returned", "down"} => dataBuf = << >>

\* While its line can still come before the last flush of the hint.
InTime == main \in {"accept", "hook", "unready", "data flushed", "returned"}

PutUnderWay ==
    /\ h.at \in {"head", "body", "tree", "hint"} =>
          puts # << >> /\ puts[Id].key = h.key /\ puts[Id].kind = h.kind
    /\ h.at = "hint" \/ (h.at = "done" /\ epoll) => puts # << >> /\ puts[Id].did
    /\ InTime /\ h.at = "head" => h.off = Len(File) + 1
    /\ InTime /\ h.at \in {"body", "tree", "hint"} =>
          h.off \in 1..Len(File) /\ File[h.off] = Piece("head", h.key, h.kind, Id)
    /\ InTime /\ h.at = "body" => h.off = Len(File)
    /\ InTime /\ h.at \in {"tree", "hint"} => Whole(File, h.off)

\* Only what has reached the tree is acknowledged.
Acknowledged ==
    /\ \A i \in replies : puts[i].did
    /\ \A i \in 1..Len(puts) : puts[i].acked => puts[i].did

\* The last of some puts of a key that has reached the tree.
LastIn(ps, k) == LET ids == {i \in DOMAIN ps : ps[i].key = k /\ ps[i].did}
                 IN  IF ids = {} THEN 0 ELSE CHOOSE i \in ids : \A j \in ids : j <= i

\* A number that leads to the value of put i: a place in the file, or it.
LeadsTo(number, i, ps, file) ==
    CASE ps[i].kind = "big" -> /\ number \in Nat \ {0} /\ Whole(file, number)
                               /\ file[number].kind = "big" /\ file[number].id = i
      [] ps[i].kind = "small" -> number = i
      [] ps[i].kind = "gone" -> number = 0

EntryRight(e, k, ps, file) ==
    LET i == LastIn(ps, k) IN
    IF i = 0 THEN e = None \/ (~ PrefixFree /\ e = Unset)
    ELSE e.small = SmallLength(ps[i].kind) /\ LeadsTo(e.value, i, ps, file)

\* The last line of a key.
IsLast(lines, j, k) ==
    /\ j \in 1..Len(lines) /\ lines[j].key = k
    /\ \A j2 \in 1..Len(lines) : j2 > j => lines[j2].key # k

LineRight(lines, k, ps, file) ==
    LET i == LastIn(ps, k) IN
    IF i = 0 THEN \A j \in 1..Len(lines) : lines[j].key # k
    ELSE \E j \in 1..Len(lines) : /\ IsLast(lines, j, k)
                                  /\ lines[j].kind = ps[i].kind
                                  /\ LeadsTo(lines[j].number, i, ps, file)

TreeRight == Running => \A k \in Keys \ cut : EntryRight(Entry(db, k), k, puts, File)

LinesRight ==
    \A k \in Keys \ cut :
       ~ (h.at = "hint" /\ h.key = k) => LineRight(Lines, k, puts, File)

GotRight == (PrefixFree \/ LastPut(h.key) # 0) => GetExact

Inv ==
    /\ Types /\ Tree(db) /\ Stops /\ PutUnderWay /\ Acknowledged
    /\ TreeRight /\ LinesRight /\ GotRight

-----------------------------------------------------------------------------
(* What the start builds from the hint.                                    *)

LEMMA EmptyIsTree == Tree(EmptyTree) /\ \A k : Entry(EmptyTree, k) = None
<1>1. /\ EmptyTree.node = << >> /\ EmptyTree.root = 0 /\ EmptyTree.cap = InitialCap
      /\ InitialCap \in Nat /\ InitialCap > 0
    BY KeysAssumption DEF EmptyTree
<1>2. Size(EmptyTree) = 0
    BY <1>1 DEF Size
<1>3. EmptyTree \in [root : Nat, cap : Nat, node : Seq(Node)]
    BY <1>1 DEF EmptyTree
<1>4. Sound(EmptyTree)
    BY <1>1, <1>2, <1>3 DEF Sound
<1>5. PICK P : P = [x \in 1..0 |-> << >>]
    OBVIOUS
<1>6. Labelled(EmptyTree, P)
    BY <1>1, <1>2, <1>5 DEF Labelled
<1> QED
    BY <1>1, <1>4, <1>6 DEF Tree, Entry, Search

LEMMA SmallLengthIs == \A kind : SmallLength(kind) \in Nat
BY DEF SmallLength

\* What a key finds in a tree that was built from n of the lines.
Builds(t, lines, n) ==
    /\ Tree(t)
    /\ \A k \in Key : (\A j \in 1..n : lines[j].key # k) =>
          \/ Entry(t, k) = None
          \/ Entry(t, k) = Unset /\ \E j \in 1..n : Begins(k, lines[j].key)
    /\ \A k \in Key, j \in 1..n :
          lines[j].key = k /\ (\A j2 \in 1..n : j2 > j => lines[j2].key # k) =>
             Entry(t, k) = [value |-> lines[j].number, small |-> SmallLength(lines[j].kind)]

LEMMA BuildsOn ==
    ASSUME NEW lines \in Seq(HintLines), NEW n \in 0..Len(lines), n < Len(lines),
           NEW t, Builds(t, lines, n), NEW l \in HintLines, l = lines[n + 1],
           NEW t2, t2 = Put(t, l.key, l.number, SmallLength(l.kind))
    PROVE  Builds(t2, lines, n + 1)
<1>1. l.key \in Key /\ l.number \in Int /\ SmallLength(l.kind) \in Nat /\ n \in Nat
    <2>1. l.key \in Keys /\ l.number \in Nat
        BY DEF HintLines
    <2>2. Keys \subseteq Key
        BY KeysAssumption DEF Key
    <2> QED BY <2>1, <2>2, SmallLengthIs
<1>2. /\ Tree(t2)
      /\ Entry(t2, l.key) = [value |-> l.number, small |-> SmallLength(l.kind)]
      /\ \A k \in Key \ {l.key} : Keeps(t2, t, l.key, k)
    <2>1. Tree(t)
        BY DEF Builds
    <2> QED BY <1>1, <2>1, PutIs
<1>3. n + 1 \in 1..(n + 1) /\ \A j \in 1..n : j \in 1..(n + 1)
    BY <1>1
<1>4. ASSUME NEW k \in Key, \A j \in 1..(n + 1) : lines[j].key # k
      PROVE  \/ Entry(t2, k) = None
             \/ Entry(t2, k) = Unset /\ \E j \in 1..(n + 1) : Begins(k, lines[j].key)
    <2>1. k # l.key
        BY <1>3, <1>4
    <2>2. Keeps(t2, t, l.key, k)
        BY <1>2, <2>1
    <2>3. \/ Entry(t, k) = None
          \/ Entry(t, k) = Unset /\ \E j \in 1..n : Begins(k, lines[j].key)
        BY <1>3, <1>4 DEF Builds
    <2>4. CASE Entry(t2, k) = Entry(t, k)
        BY <1>3, <2>3, <2>4
    <2>5. CASE Entry(t2, k) = Unset /\ Begins(k, l.key)
        BY <1>3, <2>5
    <2> QED BY <2>2, <2>4, <2>5 DEF Keeps
<1>5. ASSUME NEW k \in Key, NEW j \in 1..(n + 1), lines[j].key = k,
             \A j2 \in 1..(n + 1) : j2 > j => lines[j2].key # k
      PROVE  Entry(t2, k) = [value |-> lines[j].number, small |-> SmallLength(lines[j].kind)]
    <2>1. CASE j = n + 1
        BY <1>2, <1>5, <2>1
    <2>2. CASE j # n + 1
        <3>1. j \in 1..n /\ n + 1 > j
            BY <1>1, <2>2
        <3>2. k # l.key
            BY <1>3, <1>5, <3>1
        <3>3. \A j2 \in 1..n : j2 > j => lines[j2].key # k
            BY <1>3, <1>5
        <3>4. Entry(t, k) = [value |-> lines[j].number, small |-> SmallLength(lines[j].kind)]
            BY <1>5, <3>1, <3>3 DEF Builds
        <3>5. Entry(t, k) # None
            BY <3>4, SmallLengthIs DEF None
        <3>6. Keeps(t2, t, l.key, k)
            BY <1>2, <3>2
        <3> QED BY <3>4, <3>5, <3>6 DEF Keeps
    <2> QED BY <2>1, <2>2
<1> QED
    BY <1>2, <1>4, <1>5 DEF Builds

\* A key finds what its last line says.
LEMMA LoadedIs ==
    ASSUME NEW lines \in Seq(HintLines)
    PROVE  Builds(Loaded(lines), lines, Len(lines))
<1> DEFINE Trees == {t \in [root : Nat, cap : Nat, node : Seq(Node)] : Tree(t)}
           On(j, t) == Put(t, lines[j].key, lines[j].number, SmallLength(lines[j].kind))
           Is(f) == f = [j \in 0..Len(lines) |-> IF j = 0 THEN EmptyTree ELSE On(j, f[j - 1])]
<1>1. PICK n \in Nat : n = Len(lines)
    OBVIOUS
<1>2. \A j \in 1..n : lines[j] \in HintLines
    BY <1>1
<1>3. \A t : Tree(t) => t \in Trees
    BY DEF Tree, Sound
<1>4. \E f : Is(f)
    <2>1. PICK step : step = [j \in Nat |-> [t \in Trees |->
                                 IF j \in 1..n THEN On(j, t) ELSE t]]
        OBVIOUS
    <2>2. step \in [Nat -> [Trees -> Trees]]
        <3>1. ASSUME NEW j \in 1..n, NEW t \in Trees PROVE On(j, t) \in Trees
            <4>1. PICK l \in HintLines : l = lines[j]
                BY <1>2
            <4>2. l.key \in Key /\ l.number \in Int /\ SmallLength(l.kind) \in Nat
                BY KeysAssumption, SmallLengthIs DEF HintLines, Key
            <4>3. Tree(t)
                OBVIOUS
            <4>4. PICK t2 : t2 = Put(t, l.key, l.number, SmallLength(l.kind))
                OBVIOUS
            <4>5. Tree(t2)
                BY <4>2, <4>3, <4>4, PutIs
            <4> HIDE DEF Trees
            <4> QED BY <1>3, <4>1, <4>4, <4>5
        <3> HIDE DEF Trees, On
        <3> QED BY <2>1, <3>1
    <2>3. EmptyTree \in Trees
        BY <1>3, EmptyIsTree
    <2>4. PICK s \in Trees : s = EmptyTree
        BY <2>3
    <2>5. PICK f \in [0..n -> Trees] : Counts(f, s, step, n)
        <3> HIDE DEF Trees, On
        <3> QED BY <1>1, <2>2, CountedExists
    <2>6. ASSUME NEW j \in 0..n, j # 0 PROVE step[j][f[j - 1]] = On(j, f[j - 1])
        <3>1. j - 1 \in 0..n /\ j \in 1..n /\ j \in Nat
            BY <1>1, <2>6
        <3>2. f[j - 1] \in Trees
            BY <2>5, <3>1
        <3> HIDE DEF Trees, On
        <3> QED BY <2>1, <3>1, <3>2
    <2>7. [j \in 0..n |-> IF j = 0 THEN s ELSE step[j][f[j - 1]]]
           = [j \in 0..n |-> IF j = 0 THEN EmptyTree ELSE On(j, f[j - 1])]
        <3> HIDE DEF On, Trees
        <3> QED BY <2>4, <2>6
    <2>8. f = [j \in 0..n |-> IF j = 0 THEN EmptyTree ELSE On(j, f[j - 1])]
        <3> HIDE DEF On, Trees
        <3> QED BY <2>5, <2>7 DEF Counts
    <2> HIDE DEF On
    <2> QED BY <1>1, <2>8
<1>5. PICK f : f = (CHOOSE f_1 : Is(f_1))
    OBVIOUS
<1>6. Is(f) /\ Loaded(lines) = f[Len(lines)]
    <2>1. Loaded(lines) = (CHOOSE f_1 : Is(f_1))[Len(lines)]
        BY DEF Loaded
    <2> HIDE DEF Is
    <2> QED BY <1>4, <1>5, <2>1
<1>7. ASSUME NEW j \in 0..n PROVE f[j] = IF j = 0 THEN EmptyTree ELSE On(j, f[j - 1])
    <2> HIDE DEF On
    <2> QED BY <1>1, <1>6
<1> DEFINE T == {j \in Nat : j <= n => Builds(f[j], lines, j)}
<1>8. 0 \in T
    <2>1. f[0] = EmptyTree
        BY <1>1, <1>7
    <2>2. Builds(EmptyTree, lines, 0)
        BY EmptyIsTree DEF Builds
    <2> QED BY <2>1, <2>2
<1>9. ASSUME NEW j \in Nat, j \in T PROVE j + 1 \in T
    <2>1. SUFFICES ASSUME j + 1 <= n PROVE Builds(f[j + 1], lines, j + 1)
        OBVIOUS
    <2>2. Builds(f[j], lines, j) /\ j \in 0..n /\ j < n
        BY <1>1, <1>9, <2>1
    <2>3. PICK l \in HintLines : l = lines[j + 1]
        BY <1>1, <1>2, <2>1
    <2>4. f[j + 1] = Put(f[j], l.key, l.number, SmallLength(l.kind))
        <3>1. PICK i \in 0..n : i = j + 1
            BY <1>1, <2>1
        <3>2. i # 0 /\ i - 1 = j
            BY <3>1
        <3> QED BY <1>7, <2>3, <3>1, <3>2
    <2> QED BY <1>1, <2>2, <2>3, <2>4, BuildsOn
<1>10. n \in T
    <2> HIDE DEF T
    <2> QED BY <1>8, <1>9, Induction
<1> QED
    BY <1>1, <1>6, <1>10

-----------------------------------------------------------------------------
(* What is right stays right while puts are added and the file grows.      *)

\* A bounded set of naturals that is not empty has a greatest one.
LEMMA MaxExists ==
    ASSUME NEW n \in Nat, NEW T, T \subseteq 1..n, T # {}
    PROVE  \E x \in T : \A y \in T : y <= x
<1> DEFINE U == {m \in 0..n : n - m \notin T}
<1>1. SUFFICES ASSUME \A x \in T : \E y \in T : ~ (y <= x) PROVE FALSE
    OBVIOUS
<1>2. ASSUME NEW m \in 0..n, \A y \in 0..n : y < m => y \in U PROVE m \in U
    <2>1. SUFFICES ASSUME n - m \in T PROVE FALSE
        OBVIOUS
    <2>2. PICK y \in T : ~ (y <= n - m)
        BY <1>1, <2>1
    <2>3. n - y \in 0..n /\ n - y < m /\ n - (n - y) = y
        BY <2>2
    <2>4. n - y \in U
        BY <1>2, <2>3
    <2> QED BY <2>3, <2>4
<1>3. 0..n \subseteq U
    <2> HIDE DEF U
    <2> QED BY <1>2, CountDown
<1>4. PICK x \in T : TRUE
    OBVIOUS
<1>5. n - x \in 0..n /\ n - (n - x) = x
    OBVIOUS
<1>6. n - x \in U
    BY <1>3, <1>5
<1> QED
    BY <1>5, <1>6

LEMMA LastInIs ==
    ASSUME NEW ps \in Seq(Puts), NEW k
    PROVE  /\ LastIn(ps, k) \in 0..Len(ps)
           /\ LastIn(ps, k) # 0 =>
                 /\ LastIn(ps, k) \in 1..Len(ps) /\ ps[LastIn(ps, k)].key = k
                 /\ ps[LastIn(ps, k)].did /\ ps[LastIn(ps, k)].kind \in Kinds
           /\ \A j \in 1..Len(ps) : ps[j].key = k /\ ps[j].did => j <= LastIn(ps, k)
<1> DEFINE ids == {i \in 1..Len(ps) : ps[i].key = k /\ ps[i].did}
<1>1. DOMAIN ps = 1..Len(ps) /\ Len(ps) \in Nat
    OBVIOUS
<1>2. LastIn(ps, k) = IF ids = {} THEN 0 ELSE CHOOSE i \in ids : \A j \in ids : j <= i
    BY <1>1 DEF LastIn
<1>3. CASE ids = {}
    BY <1>1, <1>2, <1>3
<1>4. CASE ids # {}
    <2>1. \E i \in ids : \A j \in ids : j <= i
        <3>1. ids \subseteq 1..Len(ps)
            OBVIOUS
        <3> HIDE DEF ids
        <3> QED BY <1>1, <1>4, <3>1, MaxExists
    <2>2. LastIn(ps, k) \in ids /\ \A j \in ids : j <= LastIn(ps, k)
        <3> HIDE DEF ids
        <3> QED BY <1>2, <1>4, <2>1
    <2>3. ps[LastIn(ps, k)] \in Puts
        BY <2>2
    <2> QED BY <1>1, <2>2, <2>3 DEF Puts
<1> QED
    BY <1>3, <1>4

\* It is the last one when no later put has reached the tree.
LEMMA LastInUnique ==
    ASSUME NEW ps \in Seq(Puts), NEW k, NEW i \in 1..Len(ps), ps[i].key = k, ps[i].did,
           \A j \in 1..Len(ps) : ps[j].key = k /\ ps[j].did => j <= i
    PROVE  LastIn(ps, k) = i
<1>1. i <= LastIn(ps, k) /\ LastIn(ps, k) \in 0..Len(ps) /\ Len(ps) \in Nat
    BY LastInIs
<1>2. LastIn(ps, k) # 0 /\ LastIn(ps, k) <= i
    BY <1>1, LastInIs
<1> QED
    BY <1>1, <1>2

\* Puts that are those of before, as far as a key is concerned.
SameFor(ps2, ps, k) ==
    /\ Len(ps) <= Len(ps2)
    /\ \A i \in 1..Len(ps) : /\ ps2[i].key = ps[i].key /\ ps2[i].kind = ps[i].kind
                             /\ ps[i].key = k => ps2[i].did = ps[i].did
    /\ \A i \in 1..Len(ps2) : i > Len(ps) /\ ps2[i].key = k => ~ ps2[i].did

LEMMA SameLast ==
    ASSUME NEW ps \in Seq(Puts), NEW ps2 \in Seq(Puts), NEW k, SameFor(ps2, ps, k)
    PROVE  LastIn(ps2, k) = LastIn(ps, k)
<1>1. DOMAIN ps = 1..Len(ps) /\ DOMAIN ps2 = 1..Len(ps2) /\ Len(ps) \in Nat /\ Len(ps2) \in Nat
    OBVIOUS
<1>2. {i \in DOMAIN ps2 : ps2[i].key = k /\ ps2[i].did}
       = {i \in DOMAIN ps : ps[i].key = k /\ ps[i].did}
    <2>1. ASSUME NEW i \in 1..Len(ps2), ps2[i].key = k /\ ps2[i].did
          PROVE  i \in 1..Len(ps) /\ ps[i].key = k /\ ps[i].did
        <3>1. i \in 1..Len(ps)
            BY <1>1, <2>1 DEF SameFor
        <3> QED BY <2>1, <3>1 DEF SameFor
    <2>2. ASSUME NEW i \in 1..Len(ps), ps[i].key = k /\ ps[i].did
          PROVE  i \in 1..Len(ps2) /\ ps2[i].key = k /\ ps2[i].did
        <3>1. i \in 1..Len(ps2)
            BY <1>1 DEF SameFor
        <3> QED BY <2>2, <3>1 DEF SameFor
    <2> QED BY <1>1, <2>1, <2>2
<1>3. PICK ids : ids = {i \in DOMAIN ps : ps[i].key = k /\ ps[i].did}
    OBVIOUS
<1>4. LastIn(ps, k) = IF ids = {} THEN 0 ELSE CHOOSE i \in ids : \A j \in ids : j <= i
    BY <1>3 DEF LastIn
<1>5. ids = {i \in DOMAIN ps2 : ps2[i].key = k /\ ps2[i].did}
    BY <1>2, <1>3
<1>6. LastIn(ps2, k) = IF ids = {} THEN 0 ELSE CHOOSE i \in ids : \A j \in ids : j <= i
    BY <1>5 DEF LastIn
<1> QED
    BY <1>4, <1>6

\* A file whose records are all where they were.
Grows(file2, file) ==
    \A o : Whole(file, o) => Whole(file2, o) /\ file2[o] = file[o]

LEMMA LeadsStays ==
    ASSUME NEW ps, NEW ps2, NEW i, ps2[i].kind = ps[i].kind,
           NEW file, NEW file2, Grows(file2, file), NEW number, LeadsTo(number, i, ps, file),
           ps[i].kind \in Kinds
    PROVE  LeadsTo(number, i, ps2, file2)
<1>1. CASE ps[i].kind = "big"
    BY <1>1 DEF LeadsTo, Grows
<1>2. CASE ps[i].kind = "small"
    BY <1>2 DEF LeadsTo
<1>3. CASE ps[i].kind = "gone"
    BY <1>3 DEF LeadsTo
<1> QED
    BY <1>1, <1>2, <1>3 DEF Kinds

LEMMA RightStays ==
    ASSUME NEW ps \in Seq(Puts), NEW ps2 \in Seq(Puts), NEW k, SameFor(ps2, ps, k),
           NEW file, NEW file2, Grows(file2, file)
    PROVE  /\ \A e : EntryRight(e, k, ps, file) => EntryRight(e, k, ps2, file2)
           /\ \A lines : LineRight(lines, k, ps, file) => LineRight(lines, k, ps2, file2)
<1>1. PICK i : i = LastIn(ps, k)
    OBVIOUS
<1>2. LastIn(ps2, k) = i
    BY <1>1, SameLast
<1>3. CASE i = 0
    BY <1>1, <1>2, <1>3 DEF EntryRight, LineRight
<1>4. CASE i # 0
    <2>1. i \in 1..Len(ps) /\ ps[i].kind \in Kinds
        BY <1>1, <1>4, LastInIs
    <2>2. ps2[i].kind = ps[i].kind
        BY <2>1 DEF SameFor
    <2>3. \A number : LeadsTo(number, i, ps, file) => LeadsTo(number, i, ps2, file2)
        BY <2>1, <2>2, LeadsStays
    <2> QED BY <1>1, <1>2, <1>4, <2>2, <2>3 DEF EntryRight, LineRight
<1> QED
    BY <1>3, <1>4

LEMMA GrowsOn ==
    ASSUME NEW file \in Seq(Pieces), NEW new \in Seq(Pieces)
    PROVE  Grows(file \o new, file)
<1>1. PICK file2 : file2 = file \o new
    OBVIOUS
<1>2. /\ Len(file2) = Len(file) + Len(new) /\ Len(file) \in Nat /\ Len(new) \in Nat
      /\ \A o \in 1..Len(file) : file2[o] = file[o]
    BY <1>1
<1>3. ASSUME NEW o, Whole(file, o) PROVE Whole(file2, o) /\ file2[o] = file[o]
    <2>1. o \in 1..(Len(file) - 1) /\ file[o].part = "head" /\ file[o + 1].part = "body"
        BY <1>3 DEF Whole
    <2>2. o \in 1..Len(file) /\ o + 1 \in 1..Len(file) /\ o \in 1..(Len(file2) - 1)
        BY <1>2, <2>1
    <2>3. file2[o] = file[o] /\ file2[o + 1] = file[o + 1]
        BY <1>2, <2>2
    <2> QED BY <2>1, <2>2, <2>3 DEF Whole
<1> QED
    BY <1>1, <1>3 DEF Grows

LEMMA GrowsNot == \A file : Grows(file, file)
BY DEF Grows

LEMMA SameForSelf == \A ps \in Seq(Puts) : \A k : SameFor(ps, ps, k)
<1>1. ASSUME NEW ps \in Seq(Puts), NEW k PROVE SameFor(ps, ps, k)
    <2>1. Len(ps) \in Nat
        OBVIOUS
    <2> QED BY <2>1 DEF SameFor
<1> QED
    BY <1>1

-----------------------------------------------------------------------------
(* Lines.                                                                  *)

\* A line of another key changes nothing for a key.
LEMMA LineOfAnother ==
    ASSUME NEW lines \in Seq(HintLines), NEW l \in HintLines, NEW k, l.key # k,
           NEW ps, NEW file, LineRight(lines, k, ps, file)
    PROVE  LineRight(Append(lines, l), k, ps, file)
<1>1. PICK lines2 : lines2 = Append(lines, l)
    OBVIOUS
<1>2. PICK n \in Nat : n = Len(lines)
    OBVIOUS
<1>3. /\ Len(lines2) = n + 1 /\ lines2[n + 1] = l
      /\ \A j \in 1..n : lines2[j] = lines[j]
    BY <1>1, <1>2
<1>4. \A j \in 1..(n + 1) : j \in 1..n \/ j = n + 1
    OBVIOUS
<1>5. CASE LastIn(ps, k) = 0
    <2>1. \A j \in 1..n : lines[j].key # k
        BY <1>2, <1>5 DEF LineRight
    <2>2. \A j \in 1..(n + 1) : lines2[j].key # k
        BY <1>3, <1>4, <2>1
    <2> QED BY <1>1, <1>3, <1>5, <2>2 DEF LineRight
<1>6. CASE LastIn(ps, k) # 0
    <2>1. PICK j \in 1..n : /\ IsLast(lines, j, k)
                            /\ lines[j].kind = ps[LastIn(ps, k)].kind
                            /\ LeadsTo(lines[j].number, LastIn(ps, k), ps, file)
        BY <1>2, <1>6 DEF LineRight
    <2>2. j \in 1..(n + 1) /\ lines2[j] = lines[j]
        BY <1>3
    <2>3. IsLast(lines2, j, k)
        <3>1. lines2[j].key = k
            BY <2>1, <2>2 DEF IsLast
        <3>2. ASSUME NEW j2 \in 1..(n + 1), j2 > j PROVE lines2[j2].key # k
            <4>1. CASE j2 \in 1..n
                BY <1>2, <1>3, <2>1, <3>2, <4>1 DEF IsLast
            <4>2. CASE j2 = n + 1
                BY <1>3, <4>2
            <4> QED BY <1>4, <4>1, <4>2
        <3> QED BY <1>3, <2>2, <3>1, <3>2 DEF IsLast
    <2> QED BY <1>1, <1>3, <1>6, <2>1, <2>2, <2>3 DEF LineRight
<1> QED
    BY <1>5, <1>6

\* The line of its last put is right for a key.
LEMMA LineOfLast ==
    ASSUME NEW lines \in Seq(HintLines), NEW l \in HintLines, NEW k, l.key = k,
           NEW ps, NEW file, LastIn(ps, k) # 0, l.kind = ps[LastIn(ps, k)].kind,
           LeadsTo(l.number, LastIn(ps, k), ps, file)
    PROVE  LineRight(Append(lines, l), k, ps, file)
<1>1. PICK lines2 : lines2 = Append(lines, l)
    OBVIOUS
<1>2. PICK n \in Nat : n = Len(lines) + 1
    OBVIOUS
<1>3. Len(lines2) = n /\ lines2[n] = l /\ n \in 1..n
    BY <1>1, <1>2
<1>4. \A j \in 1..n : ~ (j > n)
    OBVIOUS
<1>5. IsLast(lines2, n, k)
    BY <1>3, <1>4 DEF IsLast
<1> QED
    BY <1>1, <1>3, <1>5 DEF LineRight

\* Lines that are lost matter only to their keys.
LEMMA LinesLost ==
    ASSUME NEW lines \in Seq(HintLines), NEW lost \in Seq(HintLines), NEW k,
           \A j \in 1..Len(lost) : lost[j].key # k,
           NEW ps, NEW file, LineRight(lines \o lost, k, ps, file)
    PROVE  LineRight(lines, k, ps, file)
<1>1. PICK all : all = lines \o lost
    OBVIOUS
<1>2. PICK n \in Nat, m \in Nat : n = Len(lines) /\ m = Len(lost)
    OBVIOUS
<1>3. /\ Len(all) = n + m
      /\ \A j \in 1..n : all[j] = lines[j] /\ j \in 1..(n + m)
    BY <1>1, <1>2
<1>4. ASSUME NEW j \in 1..(n + m), ~ (j \in 1..n) PROVE all[j].key # k
    <2>1. PICK j2 \in 1..m : j = n + j2
        <3>1. j - n \in 1..m /\ j = n + (j - n)
            BY <1>4
        <3> QED BY <3>1
    <2>2. all[j] = lost[j2]
        <3>1. j > n /\ j - n = j2
            BY <2>1
        <3> QED BY <1>1, <1>2, <1>3, <2>1, <3>1
    <2> QED BY <1>2, <2>2
<1>5. CASE LastIn(ps, k) = 0
    <2>1. \A j \in 1..(n + m) : all[j].key # k
        BY <1>1, <1>3, <1>5 DEF LineRight
    <2>2. \A j \in 1..n : lines[j].key # k
        BY <1>3, <2>1
    <2> QED BY <1>2, <1>5, <2>2 DEF LineRight
<1>6. CASE LastIn(ps, k) # 0
    <2>1. PICK j \in 1..(n + m) : /\ IsLast(all, j, k)
                                  /\ all[j].kind = ps[LastIn(ps, k)].kind
                                  /\ LeadsTo(all[j].number, LastIn(ps, k), ps, file)
        BY <1>1, <1>3, <1>6 DEF LineRight
    <2>2. j \in 1..n
        BY <1>4, <2>1 DEF IsLast
    <2>3. IsLast(lines, j, k)
        <3>1. lines[j].key = k
            BY <1>3, <2>1, <2>2 DEF IsLast
        <3>2. ASSUME NEW j2 \in 1..n, j2 > j PROVE lines[j2].key # k
            <4>1. j2 \in 1..Len(all) /\ all[j2] = lines[j2]
                BY <1>3
            <4> QED BY <2>1, <3>2, <4>1 DEF IsLast
        <3> QED BY <1>2, <2>2, <3>1, <3>2 DEF IsLast
    <2>4. all[j] = lines[j]
        BY <1>3, <2>2
    <2> QED BY <1>2, <1>6, <2>1, <2>2, <2>3, <2>4 DEF LineRight
<1> QED
    BY <1>5, <1>6

-----------------------------------------------------------------------------
(* Entries.                                                                *)

LEMMA NoneIsNot ==
    ASSUME NEW ps \in Seq(Puts), NEW k, NEW file, EntryRight(None, k, ps, file)
    PROVE  LastIn(ps, k) = 0
BY SmallLengthIs DEF EntryRight, None

\* What the start builds from lines that are right is right.
LEMMA LoadedRight ==
    ASSUME NEW lines \in Seq(HintLines), NEW ps \in Seq(Puts), NEW k \in Keys, NEW file,
           LineRight(lines, k, ps, file)
    PROVE  EntryRight(Entry(Loaded(lines), k), k, ps, file)
<1>1. PICK t : t = Loaded(lines)
    OBVIOUS
<1>2. k \in Key
    BY KeysAssumption DEF Key
<1>3. Builds(t, lines, Len(lines))
    BY <1>1, LoadedIs
<1>4. CASE LastIn(ps, k) = 0
    <2>1. \A j \in 1..Len(lines) : lines[j].key # k
        BY <1>4 DEF LineRight
    <2>2. \/ Entry(t, k) = None
          \/ Entry(t, k) = Unset /\ \E j \in 1..Len(lines) : Begins(k, lines[j].key)
        BY <1>2, <1>3, <2>1 DEF Builds
    <2>3. ASSUME NEW j \in 1..Len(lines), Begins(k, lines[j].key) PROVE ~ PrefixFree
        <3>1. lines[j].key \in Keys
            <4>1. lines[j] \in HintLines
                OBVIOUS
            <4> QED BY <4>1 DEF HintLines
        <3> QED BY <2>3, <3>1 DEF PrefixFree
    <2> QED BY <1>1, <1>4, <2>2, <2>3 DEF EntryRight
<1>5. CASE LastIn(ps, k) # 0
    <2>1. PICK j \in 1..Len(lines) : /\ IsLast(lines, j, k)
                                     /\ lines[j].kind = ps[LastIn(ps, k)].kind
                                     /\ LeadsTo(lines[j].number, LastIn(ps, k), ps, file)
        BY <1>5 DEF LineRight
    <2>2. lines[j].key = k /\ \A j2 \in 1..Len(lines) : j2 > j => lines[j2].key # k
        BY <2>1 DEF IsLast
    <2>3. Entry(t, k) = [value |-> lines[j].number, small |-> SmallLength(lines[j].kind)]
        BY <1>2, <1>3, <2>2 DEF Builds
    <2> QED BY <1>1, <1>5, <2>1, <2>3 DEF EntryRight
<1> QED
    BY <1>4, <1>5

\* A put of one key leaves what is right for another.
LEMMA PutKeepsRight ==
    ASSUME NEW t, NEW t2, NEW k \in Keys, NEW k2 \in Keys, Keeps(t2, t, k, k2),
           NEW ps \in Seq(Puts), NEW file, EntryRight(Entry(t, k2), k2, ps, file)
    PROVE  EntryRight(Entry(t2, k2), k2, ps, file)
<1>1. CASE Entry(t2, k2) = Entry(t, k2)
    BY <1>1
<1>2. CASE Entry(t, k2) = None /\ Entry(t2, k2) = Unset /\ Begins(k2, k)
    <2>1. LastIn(ps, k2) = 0
        BY <1>2, NoneIsNot
    <2>2. ~ PrefixFree
        BY <1>2 DEF PrefixFree
    <2> QED BY <1>2, <2>1, <2>2 DEF EntryRight
<1> QED
    BY <1>1, <1>2 DEF Keeps

\* What tst_get finds at an entry.
Found(e, file, p) ==
    IF e = None THEN Gone
    ELSE IF Inline(e) THEN InlineValue(e)
    ELSE Value(file, IF e.value = -1 THEN p ELSE e.value)

LEMMA GotIs ==
    ASSUME NEW t, Tree(t), NEW k \in Key, NEW file, NEW p
    PROVE  Got(t, k, file, p) = Found(Entry(t, k), file, p)
<1>1. PICK P : Labelled(t, P)
    BY DEF Tree
<1>2. Sound(t)
    BY DEF Tree
<1>3. PICK x : x = Search(t, k)
    OBVIOUS
<1>4. CASE x = 0
    BY <1>3, <1>4 DEF Got, Found, Entry
<1>5. CASE x # 0
    <2>1. t.node[x] \in Node
        <3>1. x \in 1..Size(t)
            BY <1>1, <1>2, <1>3, <1>5, SearchIs
        <3> QED BY <1>2, <3>1, SizeIs
    <2>2. Entry(t, k) = [value |-> t.node[x].value, small |-> t.node[x].small]
        BY <1>3, <1>5 DEF Entry
    <2>3. Entry(t, k) # None
        BY <2>1, <2>2 DEF None, Node
    <2>4. /\ Inline(Entry(t, k)) = Inline(t.node[x])
          /\ InlineValue(Entry(t, k)) = InlineValue(t.node[x])
          /\ Entry(t, k).value = t.node[x].value
        BY <2>2 DEF Inline, InlineValue
    <2> QED BY <1>3, <1>5, <2>3, <2>4 DEF Got, Found, ReadAt
<1> QED
    BY <1>4, <1>5

CurrentIn(ps, k) ==
    LET i == LastIn(ps, k) IN
    IF i = 0 \/ ps[i].kind = "gone" THEN Gone ELSE [kind |-> ps[i].kind, id |-> i]

LEMMA CurrentIs == \A k : Current(k) = CurrentIn(puts, k) /\ LastPut(k) = LastIn(puts, k)
BY DEF Current, CurrentIn, LastPut, LastIn

\* A lookup at an entry that is right finds the value of the key's last put.
LEMMA FoundIsCurrent ==
    ASSUME NEW ps \in Seq(Puts), NEW k, NEW file, NEW e, EntryRight(e, k, ps, file), NEW p,
           PrefixFree \/ LastIn(ps, k) # 0
    PROVE  Found(e, file, p) = CurrentIn(ps, k)
<1>1. PICK i : i = LastIn(ps, k)
    OBVIOUS
<1>2. CASE i = 0
    <2>1. e = None
        BY <1>1, <1>2 DEF EntryRight
    <2> QED BY <1>1, <1>2, <2>1 DEF Found, CurrentIn
<1>3. CASE i # 0
    <2>1. i \in 1..Len(ps) /\ ps[i].kind \in Kinds /\ Len(ps) \in Nat
        BY <1>1, <1>3, LastInIs
    <2>2. e.small = SmallLength(ps[i].kind) /\ LeadsTo(e.value, i, ps, file)
        BY <1>1, <1>3 DEF EntryRight
    <2>3. e # None
        BY <2>2, SmallLengthIs DEF None
    <2>4. CASE ps[i].kind = "big"
        <3>1. /\ e.small = 0 /\ e.value \in Nat \ {0} /\ Whole(file, e.value)
              /\ file[e.value].kind = "big" /\ file[e.value].id = i
            BY <2>2, <2>4 DEF SmallLength, LeadsTo
        <3>2. Found(e, file, p) = Value(file, e.value)
            BY <2>3, <3>1 DEF Found, Inline
        <3> QED BY <1>1, <1>3, <2>4, <3>1, <3>2 DEF Value, CurrentIn
    <2>5. CASE ps[i].kind = "small"
        <3>1. e.small = 8 /\ e.value = i
            BY <2>2, <2>5 DEF SmallLength, LeadsTo
        <3> QED BY <1>1, <1>3, <2>3, <2>5, <3>1 DEF Found, Inline, InlineValue, CurrentIn
    <2>6. CASE ps[i].kind = "gone"
        <3>1. e.small = 0 /\ e.value = 0
            BY <2>2, <2>6 DEF SmallLength, LeadsTo
        <3> QED BY <1>1, <2>3, <2>6, <3>1 DEF Found, Inline, InlineValue, CurrentIn
    <2> QED BY <2>1, <2>4, <2>5, <2>6 DEF Kinds
<1> QED
    BY <1>2, <1>3

-----------------------------------------------------------------------------
(* What the steps do to the files.                                         *)

LEMMA FlushIs ==
    ASSUME NEW S, NEW a \in Seq(S), NEW b \in Seq(S)
    PROVE  a \o b \in Seq(S) /\ << >> \in Seq(S) /\ (a \o b) \o << >> = a \o b
<1>1. a \o b \in Seq(S)
    OBVIOUS
<1>2. (a \o b) \o << >> = a \o b
    BY <1>1, ConcatEmptySeq
<1> QED
    BY <1>1, <1>2

LEMMA FtellIs ==
    ASSUME Types, Ftell
    PROVE  /\ data' \in Seq(Pieces) /\ dataBuf' \in Seq(Pieces) /\ File' = File
           /\ dataBuf = << >> => dataBuf' = << >>
           /\ DataOpen => data' = File
<1>1. data \in Seq(Pieces) /\ dataBuf \in Seq(Pieces)
    BY DEF Types
<1>2. CASE DataOpen
    <2>1. /\ data \o dataBuf \in Seq(Pieces) /\ << >> \in Seq(Pieces)
          /\ (data \o dataBuf) \o << >> = data \o dataBuf
        BY <1>1, FlushIs
    <2>2. data' = data \o dataBuf /\ dataBuf' = << >>
        BY <1>2 DEF Ftell
    <2> QED BY <2>1, <2>2 DEF File
<1>3. CASE ~ DataOpen
    BY <1>1, <1>3 DEF Ftell, File
<1> QED
    BY <1>2, <1>3

LEMMA BufferedIs ==
    ASSUME NEW S, NEW file \in Seq(S), NEW buf \in Seq(S), NEW new \in Seq(S)
    PROVE  /\ (file \o buf) \o new \in Seq(S) /\ buf \o new \in Seq(S) /\ << >> \in Seq(S)
           /\ ((file \o buf) \o new) \o << >> = (file \o buf) \o new
           /\ file \o (buf \o new) = (file \o buf) \o new
<1>1. /\ file \o buf \in Seq(S) /\ (file \o buf) \o new \in Seq(S) /\ buf \o new \in Seq(S)
      /\ << >> \in Seq(S)
    OBVIOUS
<1> QED
    BY <1>1, ConcatEmptySeq, ConcatAssociative

LEMMA ToDataIs ==
    ASSUME Types, NEW new \in Seq(Pieces), ToData(new)
    PROVE  /\ data' \in Seq(Pieces) /\ dataBuf' \in Seq(Pieces)
           /\ File' = IF DataOpen THEN File \o new ELSE File
           /\ main = "returned" => dataBuf' = << >>
           /\ ~ DataOpen => dataBuf' = dataBuf
<1>1. data \in Seq(Pieces) /\ dataBuf \in Seq(Pieces)
    BY DEF Types
<1>2. CASE DataOpen
    <2>1. PICK b \in Buffered(data, dataBuf, new) : data' = b.file /\ dataBuf' = b.buf
        BY <1>2 DEF ToData
    <2>2. /\ b.file \in Seq(Pieces) /\ b.buf \in Seq(Pieces)
          /\ b.file \o b.buf = (data \o dataBuf) \o new
          /\ b.buf = << >> \/ b.buf = dataBuf \o new
          /\ main = "returned" => b.buf = << >>
        <3>1. /\ (data \o dataBuf) \o new \in Seq(Pieces) /\ dataBuf \o new \in Seq(Pieces)
              /\ << >> \in Seq(Pieces)
              /\ ((data \o dataBuf) \o new) \o << >> = (data \o dataBuf) \o new
              /\ data \o (dataBuf \o new) = (data \o dataBuf) \o new
            BY <1>1, BufferedIs
        <3>2. \/ b = [file |-> (data \o dataBuf) \o new, buf |-> << >>]
              \/ b = [file |-> data, buf |-> dataBuf \o new] /\ main # "returned"
            BY <2>1 DEF Buffered
        <3>3. CASE b = [file |-> (data \o dataBuf) \o new, buf |-> << >>]
            BY <3>1, <3>3
        <3>4. CASE b = [file |-> data, buf |-> dataBuf \o new] /\ main # "returned"
            BY <1>1, <3>1, <3>4
        <3> QED BY <3>2, <3>3, <3>4
    <2> QED BY <1>2, <2>1, <2>2 DEF File
<1>3. CASE ~ DataOpen
    BY <1>1, <1>3 DEF ToData, File, DataOpen
<1> QED
    BY <1>2, <1>3

LEMMA ToHintIs ==
    ASSUME Types, NEW new \in Seq(HintLines), ToHint(new)
    PROVE  /\ hint' \in Seq(HintLines) /\ hintBuf' \in Seq(HintLines)
           /\ Lines' = IF HintOpen THEN Lines \o new ELSE Lines
           /\ main = "returned" => hintBuf' = << >>
           /\ hintBuf' \in {<< >>, hintBuf, hintBuf \o new}
           /\ ~ HintOpen => hintBuf' = hintBuf
<1>1. hint \in Seq(HintLines) /\ hintBuf \in Seq(HintLines)
    BY DEF Types
<1>2. CASE HintOpen
    <2>1. PICK b \in Buffered(hint, hintBuf, new) : hint' = b.file /\ hintBuf' = b.buf
        BY <1>2 DEF ToHint
    <2>2. /\ b.file \in Seq(HintLines) /\ b.buf \in Seq(HintLines)
          /\ b.file \o b.buf = (hint \o hintBuf) \o new
          /\ b.buf = << >> \/ b.buf = hintBuf \o new
          /\ main = "returned" => b.buf = << >>
        <3>1. /\ (hint \o hintBuf) \o new \in Seq(HintLines) /\ hintBuf \o new \in Seq(HintLines)
              /\ << >> \in Seq(HintLines)
              /\ ((hint \o hintBuf) \o new) \o << >> = (hint \o hintBuf) \o new
              /\ hint \o (hintBuf \o new) = (hint \o hintBuf) \o new
            BY <1>1, BufferedIs
        <3>2. \/ b = [file |-> (hint \o hintBuf) \o new, buf |-> << >>]
              \/ b = [file |-> hint, buf |-> hintBuf \o new] /\ main # "returned"
            BY <2>1 DEF Buffered
        <3>3. CASE b = [file |-> (hint \o hintBuf) \o new, buf |-> << >>]
            BY <3>1, <3>3
        <3>4. CASE b = [file |-> hint, buf |-> hintBuf \o new] /\ main # "returned"
            BY <1>1, <3>1, <3>4
        <3> QED BY <3>2, <3>3, <3>4
    <2> QED BY <1>2, <2>1, <2>2 DEF Lines
<1>3. CASE ~ HintOpen
    BY <1>1, <1>3 DEF ToHint, Lines, HintOpen
<1> QED
    BY <1>2, <1>3

\* The steps that flush a file, or leave it alone.
LEMMA Flushed ==
    ASSUME Types
    PROVE  /\ data' = data \o dataBuf /\ dataBuf' = << >> =>
                 data' \in Seq(Pieces) /\ dataBuf' \in Seq(Pieces) /\ File' = File
           /\ hint' = hint \o hintBuf /\ hintBuf' = << >> =>
                 hint' \in Seq(HintLines) /\ hintBuf' \in Seq(HintLines) /\ Lines' = Lines
           /\ UNCHANGED <<data, dataBuf>> =>
                 data' \in Seq(Pieces) /\ dataBuf' \in Seq(Pieces) /\ File' = File
           /\ UNCHANGED <<hint, hintBuf>> =>
                 hint' \in Seq(HintLines) /\ hintBuf' \in Seq(HintLines) /\ Lines' = Lines
<1>1. /\ data \in Seq(Pieces) /\ dataBuf \in Seq(Pieces)
      /\ hint \in Seq(HintLines) /\ hintBuf \in Seq(HintLines)
    BY DEF Types
<1>2. /\ data \o dataBuf \in Seq(Pieces) /\ << >> \in Seq(Pieces)
      /\ (data \o dataBuf) \o << >> = data \o dataBuf
    BY <1>1, FlushIs
<1>3. /\ hint \o hintBuf \in Seq(HintLines) /\ << >> \in Seq(HintLines)
      /\ (hint \o hintBuf) \o << >> = hint \o hintBuf
    BY <1>1, FlushIs
<1> QED
    BY <1>1, <1>2, <1>3 DEF File, Lines

\* What the values that go into the files are.
LEMMA HandlerIs ==
    ASSUME Types
    PROVE  /\ h.kind \in Kinds /\ h.off \in Nat /\ (h.at # "idle" => h.key \in Keys)
           /\ Id \in Nat /\ h.got \in [kind : Kinds \cup {"garbage"}, id : Int]
           /\ h.op \in {"none", "get", "set", "delete"}
<1>1. h \in Handlers /\ (h.at # "idle" => h.key \in Keys) /\ puts \in Seq(Puts)
    BY DEF Types
<1>2. Len(puts) \in Nat
    BY <1>1
<1> QED
    BY <1>1, <1>2 DEF Handlers, Id

LEMMA PieceIs ==
    ASSUME Types, h.at # "idle", NEW part \in {"head", "body"}
    PROVE  /\ Piece(part, h.key, h.kind, Id) \in Pieces
           /\ <<Piece(part, h.key, h.kind, Id)>> \in Seq(Pieces)
<1>1. h.key \in Keys /\ h.kind \in Kinds /\ Id \in Nat
    BY HandlerIs
<1>2. Piece(part, h.key, h.kind, Id) \in Pieces
    BY <1>1 DEF Piece, Pieces
<1> QED
    BY <1>2

LEMMA LineIs ==
    ASSUME Types, h.at # "idle"
    PROVE  /\ Line(h.key, h.kind, Id, h.off) \in HintLines
           /\ Line(h.key, h.kind, Id, h.off).key = h.key
           /\ Line(h.key, h.kind, Id, h.off).kind = h.kind
           /\ <<Line(h.key, h.kind, Id, h.off)>> \in Seq(HintLines)
<1>1. h.key \in Keys /\ h.kind \in Kinds /\ Id \in Nat /\ h.off \in Nat
    BY HandlerIs
<1>2. PICK n : n = CASE h.kind = "big" -> h.off [] h.kind = "small" -> Id [] h.kind = "gone" -> 0
    OBVIOUS
<1>3. n \in Nat
    BY <1>1, <1>2 DEF Kinds
<1>4. Line(h.key, h.kind, Id, h.off) = [key |-> h.key, kind |-> h.kind, number |-> n]
    BY <1>2 DEF Line
<1>5. Line(h.key, h.kind, Id, h.off) \in HintLines
    BY <1>1, <1>3, <1>4 DEF HintLines
<1> QED
    BY <1>4, <1>5

LEMMA GotTyped ==
    ASSUME NEW t, Tree(t), NEW k \in Key, NEW file \in Seq(Pieces), NEW p
    PROVE  Got(t, k, file, p) \in [kind : Kinds \cup {"garbage"}, id : Int]
<1>1. PICK e : e = Entry(t, k)
    OBVIOUS
<1>2. e.value \in Int
    <2>1. PICK P : Labelled(t, P)
        BY DEF Tree
    <2>2. Sound(t)
        BY DEF Tree
    <2>3. CASE Search(t, k) = 0
        BY <1>1, <2>3 DEF Entry, None
    <2>4. CASE Search(t, k) # 0
        <3>1. Search(t, k) \in 1..Size(t)
            BY <2>1, <2>2, <2>4, SearchIs
        <3>2. t.node[Search(t, k)] \in Node
            BY <2>2, <3>1, SizeIs
        <3> QED BY <1>1, <2>4, <3>2 DEF Entry, Node
    <2> QED BY <2>3, <2>4
<1>3. ASSUME NEW o PROVE Value(file, o) \in [kind : Kinds \cup {"garbage"}, id : Int]
    <2>1. CASE Whole(file, o)
        <3>1. o \in 1..Len(file)
            <4>1. o \in 1..(Len(file) - 1) /\ Len(file) \in Nat
                BY <2>1 DEF Whole
            <4> QED BY <4>1
        <3>2. file[o] \in Pieces
            BY <3>1
        <3> QED BY <2>1, <3>2 DEF Value, Pieces
    <2>2. CASE ~ Whole(file, o)
        BY <2>2 DEF Value, Garbage
    <2> QED BY <2>1, <2>2
<1>4. Found(e, file, p) \in [kind : Kinds \cup {"garbage"}, id : Int]
    BY <1>2, <1>3 DEF Found, InlineValue, Gone, Kinds
<1> QED
    BY <1>1, <1>4, GotIs

-----------------------------------------------------------------------------
(* What a step leaves as right as it was.                                  *)

LEMMA FilesTyped ==
    ASSUME Types
    PROVE  /\ File \in Seq(Pieces) /\ Lines \in Seq(HintLines) /\ puts \in Seq(Puts)
           /\ Len(File) \in Nat /\ Len(puts) \in Nat /\ Len(File) = Len(data) + Len(dataBuf)
<1>1. /\ data \in Seq(Pieces) /\ dataBuf \in Seq(Pieces)
      /\ hint \in Seq(HintLines) /\ hintBuf \in Seq(HintLines) /\ puts \in Seq(Puts)
    BY DEF Types
<1> QED
    BY <1>1 DEF File, Lines

\* The put under way is in time unless its key is cut off.
LEMMA ComesInTime ==
    ASSUME Types, Stops, h.at \in {"head", "body", "tree", "hint"}, ready \/ h.key \notin cut
    PROVE  InTime /\ DataOpen /\ HintOpen
<1>1. InFlight = {h.key}
    BY DEF InFlight
<1>2. main \notin {"flushed", "data closed", "closed", "down"}
    BY <1>1 DEF Stops
<1> QED
    BY <1>2 DEF Types, InTime, DataOpen, HintOpen

\* What the other thread writes in time leads to the value.
LEMMA LineLeads ==
    ASSUME Types, PutUnderWay, InTime, h.at \in {"tree", "hint"},
           NEW ps, ps[Id].kind = h.kind
    PROVE  LeadsTo(Line(h.key, h.kind, Id, h.off).number, Id, ps, File)
<1>1. /\ h.off \in 1..Len(File) /\ File[h.off] = Piece("head", h.key, h.kind, Id)
      /\ Whole(File, h.off)
    BY DEF PutUnderWay
<1>2. h.kind \in Kinds /\ Len(File) \in Nat
    BY HandlerIs, FilesTyped
<1>3. CASE h.kind = "big"
    <2>1. Line(h.key, h.kind, Id, h.off).number = h.off
        BY <1>3 DEF Line
    <2>2. File[h.off].kind = "big" /\ File[h.off].id = Id
        BY <1>1, <1>3 DEF Piece
    <2>3. h.off \in Nat \ {0}
        BY <1>1, <1>2
    <2> QED BY <1>1, <1>3, <2>1, <2>2, <2>3 DEF LeadsTo
<1>4. CASE h.kind = "small"
    <2>1. Line(h.key, h.kind, Id, h.off).number = Id
        BY <1>4 DEF Line
    <2> QED BY <1>4, <2>1 DEF LeadsTo
<1>5. CASE h.kind = "gone"
    <2>1. Line(h.key, h.kind, Id, h.off).number = 0
        BY <1>5 DEF Line
    <2> QED BY <1>5, <2>1 DEF LeadsTo
<1> QED
    BY <1>2, <1>3, <1>4, <1>5 DEF Kinds

\* Puts as they were, for every key that is not cut off.
SamePuts == \A k \in Keys \ cut' : SameFor(puts', puts, k)

LEMMA TreeFrame ==
    ASSUME Types, Types', TreeRight, Running' => Running, db' = db, Grows(File', File),
           cut \subseteq cut', SamePuts
    PROVE  TreeRight'
<1>1. SUFFICES ASSUME Running', NEW k \in Keys \ cut'
               PROVE  EntryRight(Entry(db', k), k, puts', File')
    BY DEF TreeRight
<1>2. PICK e, ps, ps2, file, file2 :
         e = Entry(db, k) /\ ps = puts /\ ps2 = puts' /\ file = File /\ file2 = File'
    OBVIOUS
<1>3. EntryRight(e, k, ps, file)
    BY <1>1, <1>2 DEF TreeRight
<1>4. ps \in Seq(Puts) /\ ps2 \in Seq(Puts) /\ SameFor(ps2, ps, k) /\ Grows(file2, file)
    BY <1>2 DEF Types, SamePuts
<1>5. EntryRight(e, k, ps2, file2)
    BY <1>3, <1>4, RightStays
<1> QED
    BY <1>2, <1>5

LEMMA LinesFrame ==
    ASSUME Types, Types', LinesRight, Lines' = Lines, Grows(File', File),
           cut \subseteq cut', SamePuts,
           h.at = "hint" => (h'.at = "hint" /\ h'.key = h.key) \/ h.key \in cut'
    PROVE  LinesRight'
<1>1. SUFFICES ASSUME NEW k \in Keys \ cut', ~ (h'.at = "hint" /\ h'.key = k)
               PROVE  LineRight(Lines', k, puts', File')
    BY DEF LinesRight
<1>2. PICK lines, ps, ps2, file, file2 :
         lines = Lines /\ ps = puts /\ ps2 = puts' /\ file = File /\ file2 = File'
    OBVIOUS
<1>3. LineRight(lines, k, ps, file)
    BY <1>1, <1>2 DEF LinesRight
<1>4. ps \in Seq(Puts) /\ ps2 \in Seq(Puts) /\ SameFor(ps2, ps, k) /\ Grows(file2, file)
    BY <1>2 DEF Types, SamePuts
<1>5. LineRight(lines, k, ps2, file2)
    BY <1>3, <1>4, RightStays
<1> QED
    BY <1>2, <1>5

LEMMA SamePutsIs ==
    ASSUME Types, puts' = puts
    PROVE  SamePuts
BY SameForSelf DEF SamePuts, Types

\* While the handler does not move, its put is where it was.
LEMMA UnderWayFrame ==
    ASSUME PutUnderWay, h' = h, puts' = puts, File' = File, epoll' => epoll,
           InTime' => InTime
    PROVE  PutUnderWay'
BY DEF PutUnderWay, Id

LEMMA NoneUnderWay ==
    ASSUME h'.at \in {"idle", "get", "got", "put"}
    PROVE  PutUnderWay'
BY DEF PutUnderWay

LEMMA NotGot ==
    ASSUME h'.at # "got" \/ main' # "accept"
    PROVE  GotRight'
BY DEF GotRight, GetExact

-----------------------------------------------------------------------------
(* Each conjunct of the invariant, through every step.                     *)

Commands ==
    \E k \in Keys : \/ \E op \in {"get", "delete"} : Command(op, k, "gone")
                    \/ \E kind \in {"big", "small"} : Command("set", k, kind)

\* Every step is one of these.
LEMMA Steps ==
    ASSUME [Next]_vars
    PROVE  \/ Open \/ Unready \/ FlushData \/ FlushHint \/ CloseData \/ CloseHint \/ Exit
           \/ Signal \/ MainReturns \/ Commands \/ Get \/ Answer \/ StartPut \/ WriteHead
           \/ WriteBody \/ UpdateTree \/ WriteHint \/ Register \/ SendReply \/ Dies
           \/ UNCHANGED vars
BY DEF Next, Main, Commands, Handler, Rest

\* What is in the files stays pieces and lines.
LEMMA FilesNext ==
    ASSUME Types, [Next]_vars
    PROVE  /\ data' \in Seq(Pieces) /\ dataBuf' \in Seq(Pieces)
           /\ hint' \in Seq(HintLines) /\ hintBuf' \in Seq(HintLines)
<1>1. /\ data \in Seq(Pieces) /\ dataBuf \in Seq(Pieces) /\ data \o dataBuf \in Seq(Pieces)
      /\ hint \in Seq(HintLines) /\ hintBuf \in Seq(HintLines)
      /\ hint \o hintBuf \in Seq(HintLines)
      /\ << >> \in Seq(Pieces) /\ << >> \in Seq(HintLines)
    <2>1. /\ data \in Seq(Pieces) /\ dataBuf \in Seq(Pieces)
          /\ hint \in Seq(HintLines) /\ hintBuf \in Seq(HintLines)
        BY DEF Types
    <2> QED BY <2>1, FlushIs
<1>2. CASE Open \/ Unready \/ Exit \/ Signal \/ Commands \/ Answer \/ UpdateTree \/ Register
           \/ SendReply \/ UNCHANGED vars
    <2>1. UNCHANGED files
        BY <1>2 DEF Open, Unready, Exit, Signal, Commands, Command, Answer, UpdateTree,
                    Register, SendReply, vars, files
    <2> QED BY <1>1, <2>1 DEF files
<1>3. CASE FlushData \/ FlushHint \/ CloseData \/ CloseHint \/ MainReturns
    BY <1>1, <1>3 DEF FlushData, FlushHint, CloseData, CloseHint, MainReturns
<1>4. CASE Get \/ StartPut
    <2>1. (Ftell \/ UNCHANGED <<data, dataBuf>>) /\ UNCHANGED <<hint, hintBuf>>
        BY <1>4 DEF Get, StartPut
    <2> QED BY <1>1, <2>1, FtellIs
<1>5. CASE WriteHead \/ WriteBody
    <2>1. PICK part \in {"head", "body"} :
              /\ ToData(<<Piece(part, h.key, h.kind, Id)>>) /\ h.at # "idle"
              /\ UNCHANGED <<hint, hintBuf>>
        BY <1>5 DEF WriteHead, WriteBody, files
    <2>2. <<Piece(part, h.key, h.kind, Id)>> \in Seq(Pieces)
        BY <2>1, PieceIs
    <2> QED BY <1>1, <2>1, <2>2, ToDataIs
<1>6. CASE WriteHint
    <2>1. /\ ToHint(<<Line(h.key, h.kind, Id, h.off)>>) /\ h.at # "idle"
          /\ UNCHANGED <<data, dataBuf>>
        BY <1>6 DEF WriteHint
    <2>2. <<Line(h.key, h.kind, Id, h.off)>> \in Seq(HintLines)
        BY <2>1, LineIs
    <2> QED BY <1>1, <2>1, <2>2, ToHintIs
<1>7. CASE Dies
    BY <1>1, <1>7 DEF Dies
<1> QED
    BY <1>2, <1>3, <1>4, <1>5, <1>6, <1>7, Steps

\* So do the puts, of which there is one when a put is under way.
LEMMA PutsNext ==
    ASSUME Types, PutUnderWay, [Next]_vars
    PROVE  puts' \in Seq(Puts) /\ Len(puts) <= Len(puts') /\ replies' \subseteq 1..Len(puts')
<1>1. puts \in Seq(Puts) /\ Len(puts) \in Nat /\ replies \subseteq 1..Len(puts)
    BY FilesTyped DEF Types
<1>2. CASE StartPut
    <2>1. PICK p : p = [key |-> h.key, kind |-> h.kind, did |-> FALSE, acked |-> FALSE]
        OBVIOUS
    <2>2. p \in Puts
        BY <1>2, <2>1, HandlerIs DEF StartPut, Puts
    <2>3. puts' = Append(puts, p) /\ replies' = replies
        BY <1>2, <2>1 DEF StartPut
    <2> QED BY <1>1, <2>2, <2>3
<1>3. CASE UpdateTree
    <2>1. puts' = [puts EXCEPT ![Id].did = TRUE] /\ replies' = replies /\ Id \in 1..Len(puts)
        BY <1>1, <1>3 DEF UpdateTree, PutUnderWay, Id
    <2>2. [puts[Id] EXCEPT !.did = TRUE] \in Puts
        <3>1. puts[Id] \in Puts
            BY <1>1, <2>1
        <3> QED BY <3>1 DEF Puts
    <2>3. puts' = [puts EXCEPT ![Id] = [puts[Id] EXCEPT !.did = TRUE]]
        BY <2>1
    <2> QED BY <1>1, <2>1, <2>2, <2>3
<1>4. CASE SendReply
    <2>1. PICK i \in replies : /\ replies' = replies \ {i}
                               /\ puts' = [puts EXCEPT ![i].acked = TRUE]
        BY <1>4 DEF SendReply
    <2>2. [puts[i] EXCEPT !.acked = TRUE] \in Puts
        <3>1. puts[i] \in Puts
            BY <1>1, <2>1
        <3> QED BY <3>1 DEF Puts
    <2>3. puts' = [puts EXCEPT ![i] = [puts[i] EXCEPT !.acked = TRUE]]
        BY <2>1
    <2> QED BY <1>1, <2>1, <2>2, <2>3
<1>5. CASE Register
    <2>1. puts' = puts
        BY <1>5 DEF Register
    <2>2. epoll => Id \in 1..Len(puts)
        BY <1>1, <1>5 DEF Register, PutUnderWay, Id
    <2>3. replies' = IF epoll THEN replies \cup {Id} ELSE replies
        BY <1>5 DEF Register
    <2>4. CASE epoll
        <3>1. replies' = replies \cup {Id} /\ Id \in 1..Len(puts)
            BY <2>2, <2>3, <2>4
        <3>2. replies' \subseteq 1..Len(puts)
            BY <1>1, <3>1
        <3> QED BY <1>1, <2>1, <3>2
    <2>5. CASE ~ epoll
        BY <1>1, <2>1, <2>3, <2>5
    <2> QED BY <2>4, <2>5
<1>6. CASE Exit \/ Dies
    BY <1>1, <1>6 DEF Exit, Dies
<1>7. CASE \/ Open \/ Unready \/ FlushData \/ FlushHint \/ CloseData \/ CloseHint \/ Signal
           \/ MainReturns \/ Commands \/ Get \/ Answer \/ WriteHead \/ WriteBody \/ WriteHint
           \/ UNCHANGED vars
    <2>1. UNCHANGED <<puts, replies>>
        BY <1>7 DEF Open, Unready, FlushData, FlushHint, CloseData, CloseHint, Signal,
                    MainReturns, Commands, Command, Get, Answer, WriteHead, WriteBody,
                    WriteHint, vars
    <2> QED BY <1>1, <2>1
<1> QED
    BY <1>2, <1>3, <1>4, <1>5, <1>6, <1>7, Steps

\* The handler's own state: what a get finds is a value or garbage.
LEMMA HandlerNext ==
    ASSUME Types, Tree(db), [Next]_vars
    PROVE  h' \in Handlers /\ (h'.at # "idle" => h'.key \in Keys)
<1>1. h \in Handlers /\ (h.at # "idle" => h.key \in Keys)
    BY DEF Types
<1>2. CASE \/ Unready \/ FlushData \/ FlushHint \/ CloseData \/ CloseHint \/ Exit \/ Signal
           \/ MainReturns \/ SendReply \/ Dies \/ UNCHANGED vars
    <2>1. h' = h
        BY <1>2 DEF Unready, FlushData, FlushHint, CloseData, CloseHint, Exit, Signal,
                    MainReturns, SendReply, Dies, vars
    <2> QED BY <1>1, <2>1
<1>3. CASE Open \/ Answer \/ Register
    <2>1. h' = Idle
        BY <1>3 DEF Open, Answer, Register
    <2> QED BY <2>1 DEF Idle, Gone, Handlers, Kinds
<1>4. CASE Commands
    <2>1. PICK k \in Keys, op \in {"get", "set", "delete"}, kind \in Kinds : Command(op, k, kind)
        BY <1>4 DEF Commands, Kinds
    <2>2. PICK at \in {"put", "get"} :
              h' = [Idle EXCEPT !.at = at, !.op = op, !.key = k, !.kind = kind]
        BY <2>1 DEF Command
    <2>3. Idle \in Handlers
        BY DEF Idle, Gone, Handlers, Kinds
    <2> QED BY <2>1, <2>2, <2>3 DEF Handlers
<1>5. CASE Get
    <2>1. CASE ready
        <3>1. PICK got \in {Got(db, h.key, data', pos)}, expired \in BOOLEAN :
                  h' = [h EXCEPT !.got = got,
                          !.at = IF got.kind # "gone" /\ (h.op = "delete" \/ expired)
                                 THEN "put" ELSE "got"]
            BY <1>5, <2>1 DEF Get
        <3>2. PICK at : at = IF got.kind # "gone" /\ (h.op = "delete" \/ expired)
                             THEN "put" ELSE "got"
            OBVIOUS
        <3>3. /\ got = Got(db, h.key, data', pos) /\ at \in {"put", "got"}
              /\ h' = [h EXCEPT !.got = got, !.at = at]
            BY <3>1, <3>2
        <3>4. data' \in Seq(Pieces) /\ h.key \in Keys
            BY <1>1, <1>5, FilesNext DEF Get
        <3>5. h.key \in Key
            BY <3>4, KeysAssumption DEF Key
        <3>6. got \in [kind : Kinds \cup {"garbage"}, id : Int]
            BY <3>3, <3>4, <3>5, GotTyped
        <3> QED BY <1>1, <3>3, <3>4, <3>6 DEF Handlers
    <2>2. CASE ~ ready
        <3>1. h' = [h EXCEPT !.got = Garbage, !.at = "got"] /\ h.key \in Keys
            BY <1>1, <1>5, <2>2 DEF Get
        <3>2. Garbage \in [kind : Kinds \cup {"garbage"}, id : Int]
            BY DEF Garbage
        <3> QED BY <1>1, <3>1, <3>2 DEF Handlers
    <2> QED BY <2>1, <2>2
<1>6. CASE StartPut
    <2>1. /\ h' = [h EXCEPT !.off = EndOfData, !.at = IF ready THEN "head" ELSE "done"]
          /\ h.key \in Keys
        BY <1>1, <1>6 DEF StartPut
    <2>2. EndOfData \in Nat
        <3>1. data \in Seq(Pieces) /\ dataBuf \in Seq(Pieces)
            BY DEF Types
        <3> QED BY <3>1 DEF EndOfData
    <2> QED BY <1>1, <2>1, <2>2 DEF Handlers
<1>7. CASE WriteHead \/ WriteBody \/ UpdateTree \/ WriteHint
    <2>1. PICK at \in {"body", "tree", "hint", "done"} :
              h' = [h EXCEPT !.at = at] /\ h.key \in Keys
        BY <1>1, <1>7 DEF WriteHead, WriteBody, UpdateTree, WriteHint
    <2> QED BY <1>1, <2>1 DEF Handlers
<1> QED
    BY <1>2, <1>3, <1>4, <1>5, <1>6, <1>7, Steps

LEMMA CutNext ==
    ASSUME Types, [Next]_vars
    PROVE  cut' \subseteq Keys /\ (cut \subseteq cut' \/ UpdateTree)
<1>1. cut \subseteq Keys /\ InFlight \subseteq Keys
    BY HandlerIs DEF Types, InFlight
<1>2. CASE FlushHint \/ Exit \/ Dies
    BY <1>1, <1>2 DEF FlushHint, Exit, Dies
<1>3. CASE UpdateTree
    BY <1>1, <1>3 DEF UpdateTree
<1>4. CASE \/ Open \/ Unready \/ FlushData \/ CloseData \/ CloseHint \/ Signal \/ MainReturns
           \/ Commands \/ Get \/ Answer \/ StartPut \/ WriteHead \/ WriteBody \/ WriteHint
           \/ Register \/ SendReply \/ UNCHANGED vars
    <2>1. cut' = cut
        BY <1>4 DEF Open, Unready, FlushData, CloseData, CloseHint, Signal, MainReturns,
                    Commands, Command, Get, Answer, StartPut, WriteHead, WriteBody, WriteHint,
                    Register, SendReply, vars
    <2> QED BY <1>1, <2>1
<1> QED
    BY <1>2, <1>3, <1>4, Steps

LEMMA TypesNext ==
    ASSUME Types, Tree(db), PutUnderWay, [Next]_vars
    PROVE  Types'
<1>1. main \in {"down", "accept", "hook", "unready", "data flushed", "flushed",
                "data closed", "closed", "returned"}
      /\ ready \in BOOLEAN /\ epoll \in BOOLEAN
    BY DEF Types
<1>2. CASE \/ Open \/ Unready \/ FlushData \/ FlushHint \/ CloseData \/ CloseHint \/ Exit
           \/ Signal \/ MainReturns \/ Dies
    <2>1. main' \in {"down", "accept", "hook", "unready", "data flushed", "flushed",
                     "data closed", "closed", "returned"}
          /\ ready' \in BOOLEAN /\ epoll' \in BOOLEAN
        BY <1>1, <1>2 DEF Open, Unready, FlushData, FlushHint, CloseData, CloseHint, Exit,
                          Signal, MainReturns, Dies, HookCloses
    <2> QED BY <2>1, FilesNext, PutsNext, HandlerNext, CutNext DEF Types
<1>3. CASE \/ Commands \/ Get \/ Answer \/ StartPut \/ WriteHead \/ WriteBody \/ UpdateTree
           \/ WriteHint \/ Register \/ SendReply \/ UNCHANGED vars
    <2>1. UNCHANGED <<main, ready, epoll>>
        BY <1>3 DEF Commands, Command, Get, Answer, StartPut, WriteHead, WriteBody, UpdateTree,
                    WriteHint, Register, SendReply, vars
    <2> QED BY <1>1, <2>1, FilesNext, PutsNext, HandlerNext, CutNext DEF Types
<1> QED
    BY <1>2, <1>3, Steps

LEMMA TreeNext ==
    ASSUME Types, Tree(db), [Next]_vars
    PROVE  Tree(db')
<1>1. CASE Open
    <2>1. PICK lines : lines = hint
        OBVIOUS
    <2>2. lines \in Seq(HintLines)
        BY <2>1 DEF Types
    <2>3. Tree(Loaded(lines))
        BY <2>2, LoadedIs DEF Builds
    <2> QED BY <1>1, <2>1, <2>3 DEF Open
<1>2. CASE UpdateTree
    <2>1. PICK t, l, small, k : /\ t = db /\ l = Line(h.key, h.kind, Id, h.off)
                                /\ small = SmallLength(h.kind) /\ k = h.key
        OBVIOUS
    <2>2. l \in HintLines /\ k \in Key
        BY <1>2, <2>1, LineIs, HandlerIs, KeysAssumption DEF UpdateTree, Key
    <2>3. l.number \in Int /\ small \in Nat /\ Tree(t)
        BY <2>1, <2>2, SmallLengthIs DEF HintLines
    <2>4. Tree(Put(t, k, l.number, small))
        BY <2>2, <2>3, PutIs
    <2>5. db' = Put(t, k, l.number, small)
        BY <1>2, <2>1 DEF UpdateTree
    <2> QED BY <2>4, <2>5
<1>3. CASE \/ Unready \/ FlushData \/ FlushHint \/ CloseData \/ CloseHint \/ Exit
           \/ Signal \/ MainReturns \/ Commands \/ Get \/ Answer \/ StartPut \/ WriteHead
           \/ WriteBody \/ WriteHint \/ Register \/ SendReply \/ Dies \/ UNCHANGED vars
    <2>1. db' = db
        BY <1>3 DEF Unready, FlushData, FlushHint, CloseData, CloseHint, Exit, Signal,
                    MainReturns, Commands, Command, Get, Answer, StartPut, WriteHead,
                    WriteBody, WriteHint, Register, SendReply, Dies, vars
    <2> QED BY <2>1
<1> QED
    BY <1>1, <1>2, <1>3, Steps

LEMMA StopsNext ==
    ASSUME Types, Stops, [Next]_vars
    PROVE  Stops'
<1>1. CASE Open
    BY <1>1 DEF Open, Stops
<1>2. CASE Signal \/ Unready \/ FlushData
    <2>1. CASE Signal
        BY <2>1 DEF Signal, HookCloses, Stops
    <2>2. CASE Unready
        BY <2>2 DEF Unready, Stops
    <2>3. CASE FlushData
        BY <2>3 DEF FlushData, Stops
    <2> QED BY <1>2, <2>1, <2>2, <2>3
<1>3. CASE FlushHint
    <2>1. /\ main = "data flushed" /\ main' = "flushed" /\ ready' = ready /\ epoll' = epoll
          /\ hintBuf' = << >> /\ h' = h /\ cut' = cut \cup InFlight
        BY <1>3 DEF FlushHint
    <2>2. InFlight' = InFlight
        BY <2>1 DEF InFlight
    <2>5. Len(hintBuf') = 0
        BY <2>1
    <2>6. \A j \in 1..Len(hintBuf') : hintBuf'[j].key \in cut'
        BY <2>5
    <2>3. ~ ready /\ ~ epoll
        BY <2>1 DEF Stops
    <2>4. ~ ready' /\ ~ epoll'
        BY <2>1, <2>3
    <2> QED BY <2>1, <2>2, <2>4, <2>6 DEF Stops
<1>4. CASE CloseData
    BY <1>4 DEF CloseData, Stops, InFlight
<1>5. CASE CloseHint
    BY <1>5 DEF CloseHint, Stops, InFlight
<1>6. CASE MainReturns
    BY <1>6 DEF MainReturns, Stops
<1>7. CASE Exit
    BY <1>7 DEF Exit, files, Stops, InFlight
<1>8. CASE Dies
    BY <1>8 DEF Dies, Stops, InFlight
<1>9. CASE SendReply \/ UNCHANGED vars
    <2>1. UNCHANGED <<main, ready, epoll, files, h, cut>>
        BY <1>9 DEF SendReply, vars, files
    <2> QED BY <2>1 DEF Stops, InFlight, files
<1>10. CASE Commands \/ Answer \/ Register
    <2>1. UNCHANGED <<main, ready, epoll, files, cut>>
          /\ h'.at \notin {"head", "body", "tree", "hint"}
        <3>1. CASE Commands
            <4>1. PICK op, k, kind : Command(op, k, kind)
                BY <3>1 DEF Commands
            <4> QED BY <4>1 DEF Command, files, Idle
        <3>2. CASE Answer \/ Register
            BY <3>2 DEF Answer, Register, files, Idle
        <3> QED BY <1>10, <3>1, <3>2
    <2>2. InFlight' = {}
        BY <2>1 DEF InFlight
    <2> QED BY <2>1, <2>2 DEF Stops, files
<1>11. CASE Get \/ StartPut
    <2>1. UNCHANGED <<main, ready, epoll, hintBuf, cut>> /\ main # "down"
        BY <1>11 DEF Get, StartPut, Running
    <2>2. dataBuf = << >> => dataBuf' = << >>
        BY <1>11, FtellIs DEF Get, StartPut
    <2>3. main \in {"flushed", "data closed", "closed", "down"} => InFlight' = {}
        <3>1. SUFFICES ASSUME ~ ready PROVE InFlight' = {}
            BY DEF Stops
        <3>2. h'.at \notin {"head", "body", "tree", "hint"}
            BY <1>11, <3>1, HandlerIs DEF Get, StartPut, Types, Handlers
        <3> QED BY <3>2 DEF InFlight
    <2> QED BY <2>1, <2>2, <2>3 DEF Stops
<1>12. CASE WriteHead \/ WriteBody
    <2>1. UNCHANGED <<main, ready, epoll, hintBuf, cut>> /\ main # "down" /\ h.at # "idle"
        BY <1>12 DEF WriteHead, WriteBody, Running
    <2>2. InFlight' = InFlight
        BY <1>12 DEF WriteHead, WriteBody, InFlight, Types, Handlers
    <2>3. main \in {"data closed", "closed", "returned"} =>
              dataBuf' = << >> \/ dataBuf' = dataBuf
        <3>1. PICK part \in {"head", "body"} : ToData(<<Piece(part, h.key, h.kind, Id)>>)
            BY <1>12 DEF WriteHead, WriteBody
        <3>2. <<Piece(part, h.key, h.kind, Id)>> \in Seq(Pieces)
            BY <2>1, PieceIs
        <3> QED BY <3>1, <3>2, ToDataIs DEF DataOpen
    <2> QED BY <2>1, <2>2, <2>3 DEF Stops
<1>13. CASE UpdateTree
    <2>1. /\ UNCHANGED <<main, ready, epoll, dataBuf, hintBuf>>
          /\ ~ ready => cut' = cut
        BY <1>13 DEF UpdateTree, files
    <2>2. InFlight' = InFlight
        BY <1>13 DEF UpdateTree, InFlight, Types, Handlers
    <2> QED BY <2>1, <2>2 DEF Stops
<1>14. CASE WriteHint
    <2>1. /\ UNCHANGED <<main, ready, epoll, dataBuf, cut>> /\ main # "down"
          /\ InFlight' = {} /\ InFlight = {h.key} /\ h.at # "idle"
        BY <1>14 DEF WriteHint, Running, InFlight, Types, Handlers
    <2>2. PICK l : l = Line(h.key, h.kind, Id, h.off)
        OBVIOUS
    <2>3. l.key = h.key /\ l \in HintLines /\ <<l>> \in Seq(HintLines)
        BY <2>1, <2>2, LineIs
    <2>4. ToHint(<<l>>)
        BY <1>14, <2>2 DEF WriteHint
    <2>5. /\ main = "returned" => hintBuf' = << >>
          /\ hintBuf' = << >> \/ hintBuf' = hintBuf \/ hintBuf' = hintBuf \o <<l>>
          /\ main = "closed" => hintBuf' = hintBuf
        BY <2>3, <2>4, ToHintIs DEF HintOpen
    <2>6. ASSUME main \in {"flushed", "data closed"}, NEW j \in 1..Len(hintBuf')
          PROVE  hintBuf'[j].key \in cut
        <3>1. h.key \in cut /\ \A i \in 1..Len(hintBuf) : hintBuf[i].key \in cut
            BY <2>1, <2>6 DEF Stops
        <3>2. PICK buf : buf = hintBuf
            OBVIOUS
        <3>3. buf \in Seq(HintLines)
            BY <3>2 DEF Types
        <3>4. ASSUME NEW i \in 1..Len(buf \o <<l>>) PROVE (buf \o <<l>>)[i].key \in cut
            BY <2>3, <3>1, <3>2, <3>3
        <3>5. CASE hintBuf' = << >>
            <4>1. Len(hintBuf') = 0
                BY <3>5
            <4>2. 1..Len(hintBuf') = 1..0
                BY <4>1
            <4>3. j \in 1..0
                BY <4>2
            <4> QED BY <4>3
        <3>6. CASE hintBuf' = hintBuf
            BY <2>6, <3>1, <3>6
        <3>7. CASE hintBuf' = buf \o <<l>>
            BY <2>6, <3>4, <3>7
        <3> QED BY <2>5, <3>2, <3>5, <3>6, <3>7
    <2> QED BY <2>1, <2>5, <2>6 DEF Stops
<1> QED
    BY <1>1, <1>2, <1>3, <1>4, <1>5, <1>6, <1>7, <1>8, <1>9, <1>10, <1>11, <1>12, <1>13,
       <1>14, Steps

\* What the steps do to the puts.
LEMMA StartPutIs ==
    ASSUME Types, StartPut
    PROVE  /\ Len(puts') = Len(puts) + 1 /\ Id' = Id + 1 /\ Id' = Len(puts')
           /\ puts'[Len(puts')].key = h.key /\ puts'[Len(puts')].kind = h.kind
           /\ puts'[Len(puts')].did = FALSE /\ puts'[Len(puts')].acked = FALSE
           /\ \A i \in 1..Len(puts) : puts'[i] = puts[i]
<1>1. PICK p : p = [key |-> h.key, kind |-> h.kind, did |-> FALSE, acked |-> FALSE]
    OBVIOUS
<1>2. puts' = Append(puts, p) /\ puts \in Seq(Puts)
    BY <1>1 DEF StartPut, Types
<1>3. /\ Len(puts') = Len(puts) + 1 /\ puts'[Len(puts) + 1] = p
      /\ \A i \in 1..Len(puts) : puts'[i] = puts[i]
    BY <1>2
<1> QED
    BY <1>1, <1>3 DEF Id

LEMMA ExceptIs ==
    ASSUME NEW f \in Seq(Puts), NEW i \in 1..Len(f), NEW e, NEW f2,
           f2 = [f EXCEPT ![i] = e]
    PROVE  f2[i] = e
OBVIOUS

LEMMA UpdateTreeIs ==
    ASSUME Types, PutUnderWay, UpdateTree
    PROVE  /\ Len(puts') = Len(puts) /\ Id' = Id /\ Id = Len(puts) /\ Id \in 1..Len(puts)
           /\ puts'[Id].key = h.key /\ puts'[Id].kind = h.kind
           /\ puts'[Id].did = TRUE /\ puts'[Id].acked = puts[Id].acked
           /\ \A i \in 1..Len(puts) : i # Id => puts'[i] = puts[i]
<1>1. puts \in Seq(Puts) /\ Len(puts) \in Nat
    BY FilesTyped
<1>2. /\ puts' = [puts EXCEPT ![Id].did = TRUE] /\ Id \in 1..Len(puts) /\ Id = Len(puts)
      /\ puts[Id].key = h.key /\ puts[Id].kind = h.kind
    BY <1>1 DEF UpdateTree, PutUnderWay, Id
<1>3. puts[Id] \in Puts
    BY <1>1, <1>2
<1>4. Len(puts') = Len(puts)
    BY <1>1, <1>2
<1>5. Id' = Id
    BY <1>4 DEF Id
<1>6. puts'[Id] = [puts[Id] EXCEPT !.did = TRUE]
    <2>1. puts' = [puts EXCEPT ![Id] = [puts[Id] EXCEPT !.did = TRUE]]
        BY <1>2
    <2>2. PICK f, f2, i, e :
              f = puts /\ f2 = puts' /\ i = Id /\ e = [puts[Id] EXCEPT !.did = TRUE]
        OBVIOUS
    <2>3. f \in Seq(Puts) /\ i \in 1..Len(f) /\ f2 = [f EXCEPT ![i] = e]
        BY <1>1, <1>2, <2>1, <2>2
    <2>4. f2[i] = e
        BY <2>3, ExceptIs
    <2> QED BY <2>2, <2>4
<1>7. \A i \in 1..Len(puts) : i # Id => puts'[i] = puts[i]
    BY <1>1, <1>2
<1> QED
    BY <1>2, <1>3, <1>4, <1>5, <1>6, <1>7 DEF Puts

LEMMA SendReplyIs ==
    ASSUME Types, SendReply
    PROVE  /\ Len(puts') = Len(puts)
           /\ \E i \in replies :
                 /\ i \in 1..Len(puts) /\ replies' = replies \ {i}
                 /\ \A j \in 1..Len(puts) :
                       /\ puts'[j].key = puts[j].key /\ puts'[j].kind = puts[j].kind
                       /\ puts'[j].did = puts[j].did
                       /\ puts'[j].acked = (puts[j].acked \/ j = i)
<1>1. puts \in Seq(Puts) /\ Len(puts) \in Nat /\ replies \subseteq 1..Len(puts)
    BY FilesTyped DEF Types
<1>2. PICK i \in replies : replies' = replies \ {i} /\ puts' = [puts EXCEPT ![i].acked = TRUE]
    BY DEF SendReply
<1>3. i \in 1..Len(puts)
    BY <1>1, <1>2
<1>4. ASSUME NEW j \in 1..Len(puts)
      PROVE  /\ puts'[j].key = puts[j].key /\ puts'[j].kind = puts[j].kind
             /\ puts'[j].did = puts[j].did
             /\ puts'[j].acked = (puts[j].acked \/ j = i)
    <2>1. puts[j] \in Puts
        BY <1>1
    <2>2. CASE j = i
        <3>1. puts'[j] = [puts[j] EXCEPT !.acked = TRUE]
            <4>1. puts' = [puts EXCEPT ![i] = [puts[i] EXCEPT !.acked = TRUE]]
                BY <1>2
            <4>2. PICK f, f2, e :
                      f = puts /\ f2 = puts' /\ e = [puts[i] EXCEPT !.acked = TRUE]
                OBVIOUS
            <4>3. f \in Seq(Puts) /\ i \in 1..Len(f) /\ f2 = [f EXCEPT ![i] = e]
                BY <1>1, <1>3, <4>1, <4>2
            <4>4. f2[i] = e
                BY <4>3, ExceptIs
            <4> QED BY <2>2, <4>2, <4>4
        <3> QED BY <2>1, <2>2, <3>1 DEF Puts
    <2>3. CASE j # i
        <3>1. puts'[j] = puts[j]
            BY <1>1, <1>2, <1>3, <2>3
        <3> QED BY <2>1, <2>3, <3>1 DEF Puts
    <2> QED BY <2>2, <2>3
<1>5. Len(puts') = Len(puts)
    BY <1>1, <1>2, <1>3
<1> QED
    BY <1>2, <1>3, <1>4, <1>5

LEMMA AcknowledgedNext ==
    ASSUME Types, PutUnderWay, Acknowledged, [Next]_vars
    PROVE  Acknowledged'
<1>1. replies \subseteq 1..Len(puts) /\ Len(puts) \in Nat
    BY FilesTyped DEF Types
<1>2. CASE StartPut
    <2>1. \A i \in 1..Len(puts') : i \in 1..Len(puts) \/ i = Len(puts')
        BY <1>1, <1>2, StartPutIs
    <2>2. replies' = replies
        BY <1>2 DEF StartPut
    <2> QED BY <1>1, <1>2, <2>1, <2>2, StartPutIs DEF Acknowledged
<1>3. CASE UpdateTree
    <2>1. replies' = replies
        BY <1>3 DEF UpdateTree
    <2>2. ASSUME NEW i \in 1..Len(puts)
          PROVE  /\ puts[i].did => puts'[i].did
                 /\ puts'[i].acked => puts'[i].did \/ puts[i].acked
        BY <1>3, <2>1, UpdateTreeIs
    <2> QED BY <1>1, <1>3, <2>1, <2>2, UpdateTreeIs DEF Acknowledged
<1>4. CASE SendReply
    <2>1. PICK i \in replies :
              /\ i \in 1..Len(puts) /\ replies' = replies \ {i}
              /\ \A j \in 1..Len(puts) :
                    /\ puts'[j].did = puts[j].did
                    /\ puts'[j].acked = (puts[j].acked \/ j = i)
        BY <1>4, SendReplyIs
    <2>2. Len(puts') = Len(puts)
        BY <1>4, SendReplyIs
    <2> QED BY <1>1, <2>1, <2>2 DEF Acknowledged
<1>5. CASE Register
    <2>1. puts' = puts /\ replies' \subseteq replies \cup {Id} /\ (replies' = replies \/ epoll)
        BY <1>5 DEF Register
    <2>2. epoll => puts[Id].did
        BY <1>5 DEF Register, PutUnderWay
    <2> QED BY <2>1, <2>2 DEF Acknowledged
<1>6. CASE Exit \/ Dies
    BY <1>6 DEF Exit, Dies, Acknowledged
<1>7. CASE \/ Open \/ Unready \/ FlushData \/ FlushHint \/ CloseData \/ CloseHint \/ Signal
           \/ MainReturns \/ Commands \/ Get \/ Answer \/ WriteHead \/ WriteBody \/ WriteHint
           \/ UNCHANGED vars
    <2>1. UNCHANGED <<puts, replies>>
        BY <1>7 DEF Open, Unready, FlushData, FlushHint, CloseData, CloseHint, Signal,
                    MainReturns, Commands, Command, Get, Answer, WriteHead, WriteBody,
                    WriteHint, vars
    <2> QED BY <2>1 DEF Acknowledged
<1> QED
    BY <1>2, <1>3, <1>4, <1>5, <1>6, <1>7, Steps

\* The pieces and the lines stay, in the buffer or in the file.
LEMMA FileStays ==
    ASSUME Types, Stops, [Next]_vars
    PROVE  WriteHead \/ WriteBody \/ File' = File
<1>1. CASE FlushData \/ CloseData \/ MainReturns
    BY <1>1, Flushed DEF FlushData, CloseData, MainReturns
<1>2. CASE Get \/ StartPut
    <2>1. Ftell \/ UNCHANGED <<data, dataBuf>>
        BY <1>2 DEF Get, StartPut
    <2> QED BY <2>1, FtellIs, Flushed
<1>3. CASE Dies
    <2>1. dataBuf = << >>
        BY <1>3 DEF Dies, DataOpen, HintOpen, Stops
    <2>2. UNCHANGED <<data, dataBuf>>
        BY <1>3, <2>1 DEF Dies
    <2> QED BY <2>2, Flushed
<1>4. CASE \/ Open \/ Unready \/ FlushHint \/ CloseHint \/ Exit \/ Signal \/ Commands
           \/ Answer \/ UpdateTree \/ WriteHint \/ Register \/ SendReply \/ UNCHANGED vars
    <2>1. UNCHANGED <<data, dataBuf>>
        BY <1>4 DEF Open, Unready, FlushHint, CloseHint, Exit, Signal, Commands, Command,
                    Answer, UpdateTree, WriteHint, Register, SendReply, vars, files
    <2> QED BY <2>1, Flushed
<1> QED
    BY <1>1, <1>2, <1>3, <1>4, Steps

LEMMA LinesStay ==
    ASSUME Types, [Next]_vars
    PROVE  WriteHint \/ Dies \/ Lines' = Lines
<1>1. CASE FlushHint \/ CloseHint \/ MainReturns
    BY <1>1, Flushed DEF FlushHint, CloseHint, MainReturns
<1>2. CASE \/ Open \/ Unready \/ FlushData \/ CloseData \/ Exit \/ Signal \/ Commands
           \/ Get \/ Answer \/ StartPut \/ WriteHead \/ WriteBody \/ UpdateTree \/ Register
           \/ SendReply \/ UNCHANGED vars
    <2>1. UNCHANGED <<hint, hintBuf>>
        BY <1>2 DEF Open, Unready, FlushData, CloseData, Exit, Signal, Commands, Command,
                    Get, Answer, StartPut, WriteHead, WriteBody, UpdateTree, Register,
                    SendReply, vars, files
    <2> QED BY <2>1, Flushed
<1> QED
    BY <1>1, <1>2, Steps

\* A piece that is written goes to the end.
LEMMA FileGrows ==
    ASSUME Types, NEW part \in {"head", "body"}, h.at # "idle",
           ToData(<<Piece(part, h.key, h.kind, Id)>>)
    PROVE  /\ Grows(File', File)
           /\ DataOpen => /\ Len(File') = Len(File) + 1
                          /\ File'[Len(File')] = Piece(part, h.key, h.kind, Id)
                          /\ \A o \in 1..Len(File) : File'[o] = File[o]
<1>1. PICK p, file, file2 : /\ p = Piece(part, h.key, h.kind, Id)
                            /\ file = File /\ file2 = File'
    OBVIOUS
<1>2. p \in Pieces /\ <<p>> \in Seq(Pieces) /\ file \in Seq(Pieces)
    BY <1>1, PieceIs, FilesTyped
<1>3. file2 = IF DataOpen THEN file \o <<p>> ELSE file
    BY <1>1, <1>2, ToDataIs
<1>4. CASE DataOpen
    <2>1. file2 = file \o <<p>>
        BY <1>3, <1>4
    <2>2. Grows(file2, file)
        BY <1>2, <2>1, GrowsOn
    <2>3. /\ Len(file2) = Len(file) + 1 /\ file2[Len(file) + 1] = p
          /\ \A o \in 1..Len(file) : file2[o] = file[o]
        BY <1>2, <2>1
    <2> QED BY <1>1, <2>2, <2>3
<1>5. CASE ~ DataOpen
    BY <1>1, <1>3, <1>5, GrowsNot
<1> QED
    BY <1>4, <1>5

LEMMA UnderWayNext ==
    ASSUME Types, Stops, PutUnderWay, [Next]_vars
    PROVE  PutUnderWay'
<1>1. puts \in Seq(Puts) /\ Len(puts) \in Nat /\ Len(File) \in Nat /\ Id = Len(puts)
    BY FilesTyped DEF Id
<1>2. CASE \/ Unready \/ FlushData \/ FlushHint \/ CloseData \/ CloseHint \/ Exit
           \/ Signal \/ MainReturns \/ Dies \/ UNCHANGED vars
    <2>1. h' = h /\ puts' = puts /\ (epoll' = epoll \/ epoll' = FALSE)
        BY <1>2 DEF Unready, FlushData, FlushHint, CloseData, CloseHint, Exit, Signal,
                    MainReturns, Dies, vars, HookCloses
    <2>2. (epoll' => epoll) /\ (InTime' => InTime)
        <3>1. epoll' => epoll
            BY <2>1
        <3>2. main' = main \/ InTime \/ ~ InTime'
            BY <1>2 DEF Unready, FlushData, FlushHint, CloseData, CloseHint, Exit, Signal,
                        MainReturns, Dies, vars, InTime
        <3> QED BY <3>1, <3>2 DEF InTime
    <2>3. File' = File
        <3>1. ~ (WriteHead \/ WriteBody)
            BY <2>1 DEF WriteHead, WriteBody, Types, Handlers
        <3> QED BY <3>1, FileStays
    <2> QED BY <2>1, <2>2, <2>3, UnderWayFrame
<1>3. CASE Open \/ Answer \/ Register
    BY <1>3, NoneUnderWay DEF Open, Answer, Register, Idle
<1>4. CASE SendReply
    BY <1>4, NoneUnderWay DEF SendReply
<1>5. CASE Commands
    <2>1. PICK op, k, kind : Command(op, k, kind)
        BY <1>5 DEF Commands
    <2>2. h'.at \in {"put", "get"}
        BY <2>1 DEF Command, Idle
    <2> QED BY <2>2, NoneUnderWay
<1>6. CASE Get
    <2>1. h'.at \in {"got", "put"}
        BY <1>6, HandlerIs DEF Get, Types, Handlers
    <2> QED BY <2>1, NoneUnderWay
<1>7. CASE StartPut
    <2>1. h \in Handlers /\ h' = [h EXCEPT !.off = EndOfData, !.at = IF ready THEN "head" ELSE "done"]
        BY <1>7 DEF StartPut, Types
    <2>2. /\ h'.off = EndOfData /\ h'.at = (IF ready THEN "head" ELSE "done")
          /\ h'.key = h.key /\ h'.kind = h.kind
        BY <2>1 DEF Handlers
    <2>3. File' = File /\ EndOfData = Len(File) + 1
        <3>1. File' = File
            BY <1>7, FtellIs DEF StartPut
        <3> QED BY <3>1, FilesTyped DEF EndOfData
    <2>4. puts'[Id'].key = h'.key /\ puts'[Id'].kind = h'.kind /\ puts' # << >>
        <3>1. Len(puts') # 0
            BY <1>1, <1>7, StartPutIs
        <3> QED BY <1>7, <2>2, <3>1, StartPutIs
    <2>5. epoll' => ready
        BY <1>7 DEF StartPut, Stops
    <2> QED BY <2>2, <2>3, <2>4, <2>5 DEF PutUnderWay
<1>8. CASE WriteHead \/ WriteBody
    <2>1. PICK part \in {"head", "body"} :
              /\ part = h.at /\ ToData(<<Piece(part, h.key, h.kind, Id)>>)
              /\ h' = [h EXCEPT !.at = IF part = "head" THEN "body" ELSE "tree"]
        BY <1>8 DEF WriteHead, WriteBody
    <2>2. /\ h'.at = (IF part = "head" THEN "body" ELSE "tree")
          /\ h'.key = h.key /\ h'.kind = h.kind /\ h'.off = h.off
        BY <2>1 DEF Types, Handlers
    <2>3. main' = main /\ epoll' = epoll /\ puts' = puts
        BY <1>8 DEF WriteHead, WriteBody
    <2>4. Id' = Id /\ (InTime' <=> InTime)
        BY <2>3 DEF Id, InTime
    <2>5. puts' # << >> /\ puts'[Id'].key = h'.key /\ puts'[Id'].kind = h'.kind
        BY <2>1, <2>2, <2>3, <2>4 DEF PutUnderWay
    <2>6. ASSUME InTime
          PROVE  /\ Len(File') = Len(File) + 1
                 /\ File'[Len(File')] = Piece(part, h.key, h.kind, Id)
                 /\ \A o \in 1..Len(File) : File'[o] = File[o]
        BY <2>1, <2>6, FileGrows DEF InTime, DataOpen
    <2>7. CASE part = "head"
        <3>1. h'.at = "body" /\ (InTime => h.off = Len(File) + 1)
            BY <2>1, <2>2, <2>7 DEF PutUnderWay
        <3>2. InTime => /\ h'.off \in 1..Len(File') /\ h'.off = Len(File')
                        /\ File'[h'.off] = Piece("head", h'.key, h'.kind, Id')
            BY <1>1, <2>2, <2>4, <2>6, <2>7, <3>1
        <3> QED BY <2>4, <2>5, <3>1, <3>2 DEF PutUnderWay
    <2>8. CASE part = "body"
        <3>1. /\ h'.at = "tree"
              /\ InTime => /\ h.off = Len(File) /\ h.off \in 1..Len(File)
                           /\ File[h.off] = Piece("head", h.key, h.kind, Id)
            BY <2>1, <2>2, <2>8 DEF PutUnderWay
        <3>2. InTime => /\ h'.off \in 1..(Len(File') - 1) /\ h'.off \in 1..Len(File')
                        /\ File'[h'.off] = Piece("head", h'.key, h'.kind, Id')
                        /\ File'[h'.off + 1] = Piece("body", h'.key, h'.kind, Id')
            BY <1>1, <2>2, <2>4, <2>6, <2>8, <3>1
        <3>3. InTime => Whole(File', h'.off)
            BY <3>2 DEF Whole, Piece
        <3> QED BY <2>4, <2>5, <3>1, <3>2, <3>3 DEF PutUnderWay
    <2> QED BY <2>7, <2>8
<1>9. CASE UpdateTree
    <2>1. h' = [h EXCEPT !.at = "hint"] /\ main' = main /\ epoll' = epoll /\ h.at = "tree"
        BY <1>9 DEF UpdateTree
    <2>2. h'.at = "hint" /\ h'.key = h.key /\ h'.kind = h.kind /\ h'.off = h.off
        BY <2>1 DEF Types, Handlers
    <2>3. File' = File
        BY <1>9, <2>1, FileStays DEF WriteHead, WriteBody
    <2>4. /\ puts'[Id'].key = h'.key /\ puts'[Id'].kind = h'.kind /\ puts'[Id'].did
          /\ Id' = Id /\ puts' # << >>
        <3>1. /\ Id' = Id /\ Len(puts') = Len(puts) /\ Id \in 1..Len(puts)
              /\ puts'[Id].key = h.key /\ puts'[Id].kind = h.kind /\ puts'[Id].did
            BY <1>9, UpdateTreeIs
        <3>2. Len(puts') # 0
            BY <1>1, <3>1
        <3> QED BY <2>2, <3>1, <3>2
    <2>5. InTime' <=> InTime
        BY <2>1 DEF InTime
    <2>6. InTime => /\ h.off \in 1..Len(File) /\ Whole(File, h.off)
                    /\ File[h.off] = Piece("head", h.key, h.kind, Id)
        BY <2>1 DEF PutUnderWay
    <2> QED BY <2>2, <2>3, <2>4, <2>5, <2>6 DEF PutUnderWay
<1>10. CASE WriteHint
    <2>1. h'.at = "done" /\ puts' = puts /\ h.at = "hint"
        BY <1>10 DEF WriteHint, Types, Handlers
    <2>2. puts # << >> /\ puts[Id].did /\ Id' = Id
        BY <2>1 DEF PutUnderWay, Id
    <2> QED BY <2>1, <2>2 DEF PutUnderWay
<1> QED
    BY <1>2, <1>3, <1>4, <1>5, <1>6, <1>7, <1>8, <1>9, <1>10, Steps

\* What a lookup finds in the open store is the value of the key's last put.
LEMMA GotNext ==
    ASSUME Types, Tree(db), Stops, TreeRight, GotRight, [Next]_vars
    PROVE  GotRight'
<1>1. SUFFICES ASSUME PrefixFree \/ LastPut(h.key)' # 0,
                      h'.at = "got", main' = "accept", h'.key \notin cut'
               PROVE  h'.got = Current(h.key)'
    BY DEF GotRight, GetExact
<1>2. CASE Get
    <2>1. main = "accept" /\ ready /\ DataOpen /\ UNCHANGED <<puts, cut>> /\ h.at = "get"
        BY <1>1, <1>2 DEF Get, Stops, DataOpen
    <2>2. PICK got, expired : /\ got = Got(db, h.key, data', pos)
                              /\ h' = [h EXCEPT !.got = got,
                                        !.at = IF got.kind # "gone" /\ (h.op = "delete" \/ expired)
                                               THEN "put" ELSE "got"]
        BY <1>2, <2>1 DEF Get
    <2>3. h'.got = got /\ h'.key = h.key
        BY <2>2 DEF Types, Handlers
    <2>4. data' = File
        BY <1>2, <2>1, FtellIs DEF Get
    <2>5. PICK t, k, file, p, ps, e : /\ t = db /\ k = h.key /\ file = File /\ p = pos
                                      /\ ps = puts /\ e = Entry(db, h.key)
        OBVIOUS
    <2>6. Tree(t) /\ k \in Keys \ cut /\ k \in Key /\ ps \in Seq(Puts)
        BY <1>1, <2>1, <2>3, <2>5, HandlerIs, KeysAssumption DEF Types, Key
    <2>7. EntryRight(e, k, ps, file)
        BY <2>1, <2>5, <2>6 DEF TreeRight, Running
    <2>8. got = Found(e, file, p)
        BY <2>2, <2>4, <2>5, <2>6, GotIs
    <2>9. Found(e, file, p) = CurrentIn(ps, k)
        <3>1. LastPut(h.key)' = LastIn(ps, k)
            BY <2>1, <2>3, <2>5 DEF LastPut, LastIn
        <3> QED BY <1>1, <2>6, <2>7, <3>1, FoundIsCurrent
    <2>10. Current(h.key)' = CurrentIn(puts, h.key)
        BY <2>1, <2>3 DEF Current, CurrentIn, LastPut, LastIn
    <2> QED BY <2>3, <2>5, <2>8, <2>9, <2>10
<1>3. CASE UNCHANGED vars
    BY <1>1, <1>3 DEF GotRight, GetExact, vars, Current, LastPut
<1>4. CASE Open \/ Answer \/ Register
    BY <1>1, <1>4 DEF Open, Answer, Register, Idle
<1>5. CASE \/ Unready \/ FlushData \/ FlushHint \/ CloseData \/ CloseHint \/ Exit \/ Signal
           \/ MainReturns \/ Dies
    BY <1>1, <1>5 DEF Unready, FlushData, FlushHint, CloseData, CloseHint, Exit, Signal,
                      MainReturns, Dies
<1>6. CASE Commands
    <2>1. PICK op, k, kind : Command(op, k, kind)
        BY <1>6 DEF Commands
    <2> QED BY <1>1, <2>1 DEF Command, Idle
<1>7. CASE StartPut \/ WriteHead \/ WriteBody \/ UpdateTree \/ WriteHint \/ SendReply
    <2>1. h'.at # "got"
        BY <1>7 DEF StartPut, WriteHead, WriteBody, UpdateTree, WriteHint, SendReply, Types,
                    Handlers
    <2> QED BY <1>1, <2>1
<1> QED
    BY <1>2, <1>3, <1>4, <1>5, <1>6, <1>7, Steps

\* A put that has not reached the tree, or is acknowledged, changes no key's
\* last put.
LEMMA SamePutsNext ==
    ASSUME Types, PutUnderWay, [Next]_vars
    PROVE  /\ \A k \in Keys : k # h.key => SameFor(puts', puts, k)
           /\ UpdateTree \/ SamePuts
<1>1. puts \in Seq(Puts) /\ Len(puts) \in Nat
    BY FilesTyped
<1>2. CASE StartPut
    <2>1. ASSUME NEW k PROVE SameFor(puts', puts, k)
        <3>1. ASSUME NEW i \in 1..Len(puts'), i > Len(puts) PROVE ~ puts'[i].did
            <4>1. i = Len(puts')
                BY <1>1, <1>2, <3>1, StartPutIs
            <4> QED BY <1>2, <4>1, StartPutIs
        <3>2. Len(puts) <= Len(puts')
            BY <1>1, <1>2, StartPutIs
        <3> QED BY <1>2, <3>1, <3>2, StartPutIs DEF SameFor
    <2> QED BY <2>1 DEF SamePuts
<1>3. CASE UpdateTree
    <2>1. ASSUME NEW k \in Keys, k # h.key PROVE SameFor(puts', puts, k)
        <3>1. \A i \in 1..Len(puts) : puts'[i] = puts[i] \/ i = Id
            BY <1>3, UpdateTreeIs
        <3>2. /\ puts'[Id].key = h.key /\ puts'[Id].kind = h.kind
              /\ puts[Id].key = h.key /\ puts[Id].kind = h.kind
            BY <1>3, UpdateTreeIs DEF UpdateTree, PutUnderWay
        <3>3. Len(puts') = Len(puts)
            BY <1>3, UpdateTreeIs
        <3>4. \A i \in 1..Len(puts') : ~ (i > Len(puts))
            BY <1>1, <3>3
        <3>5. Len(puts) <= Len(puts')
            BY <1>1, <3>3
        <3> QED BY <2>1, <3>1, <3>2, <3>4, <3>5 DEF SameFor
    <2> QED BY <1>3, <2>1
<1>4. CASE SendReply
    <2>1. \A j \in 1..Len(puts) : /\ puts'[j].key = puts[j].key /\ puts'[j].kind = puts[j].kind
                                  /\ puts'[j].did = puts[j].did
        BY <1>4, SendReplyIs
    <2>2. Len(puts') = Len(puts)
        BY <1>4, SendReplyIs
    <2>3. Len(puts) <= Len(puts') /\ \A i \in 1..Len(puts') : ~ (i > Len(puts))
        BY <1>1, <2>2
    <2>4. ASSUME NEW k PROVE SameFor(puts', puts, k)
        BY <2>1, <2>3 DEF SameFor
    <2> QED BY <2>4 DEF SamePuts
<1>5. CASE \/ Open \/ Unready \/ FlushData \/ FlushHint \/ CloseData \/ CloseHint \/ Exit
           \/ Signal \/ MainReturns \/ Commands \/ Get \/ Answer \/ WriteHead \/ WriteBody
           \/ WriteHint \/ Register \/ Dies \/ UNCHANGED vars
    <2>1. puts' = puts
        BY <1>5 DEF Open, Unready, FlushData, FlushHint, CloseData, CloseHint, Exit, Signal,
                    MainReturns, Commands, Command, Get, Answer, WriteHead, WriteBody,
                    WriteHint, Register, Dies, vars
    <2>2. \A k : SameFor(puts', puts, k)
        BY <1>1, <2>1, SameForSelf
    <2> QED BY <2>2 DEF SamePuts
<1> QED
    BY <1>2, <1>3, <1>4, <1>5, Steps

\* The records stay where they are.
LEMMA GrowsNext ==
    ASSUME Types, Stops, [Next]_vars
    PROVE  Grows(File', File)
<1>1. CASE WriteHead \/ WriteBody
    <2>1. PICK part \in {"head", "body"} :
              h.at # "idle" /\ ToData(<<Piece(part, h.key, h.kind, Id)>>)
        BY <1>1 DEF WriteHead, WriteBody
    <2> QED BY <2>1, FileGrows
<1>2. CASE File' = File
    BY <1>2, GrowsNot
<1> QED
    BY <1>1, <1>2, FileStays

\* What tst_open builds is what the tree was, and what a put does to the tree
\* is what its reader will find.
LEMMA TreeRightNext ==
    ASSUME Types, Types', Tree(db), Stops, PutUnderWay, TreeRight, LinesRight, [Next]_vars
    PROVE  TreeRight'
<1>1. puts \in Seq(Puts) /\ puts' \in Seq(Puts) /\ Len(puts) \in Nat
    BY FilesTyped DEF Types
<1>2. CASE Open
    <2>1. /\ main = "down" /\ db' = Loaded(hint) /\ puts' = puts /\ cut' = cut
          /\ UNCHANGED <<data, dataBuf>> /\ hintBuf = << >>
        BY <1>2 DEF Open, files, Stops
    <2>2. File' = File /\ Lines = hint
        <3>1. hint \in Seq(HintLines)
            BY DEF Types
        <3> QED BY <2>1, <3>1, Flushed, ConcatEmptySeq DEF Lines
    <2>3. ASSUME NEW k \in Keys \ cut PROVE EntryRight(Entry(db', k), k, puts', File')
        <3>1. PICK lines, ps, file : lines = Lines /\ ps = puts /\ file = File
            OBVIOUS
        <3>2. ~ (h.at = "hint" /\ h.key = k)
            BY <2>1 DEF Stops, InFlight
        <3>3. LineRight(lines, k, ps, file) /\ lines \in Seq(HintLines) /\ ps \in Seq(Puts)
            BY <1>1, <2>3, <3>1, <3>2, FilesTyped DEF LinesRight
        <3>4. EntryRight(Entry(Loaded(lines), k), k, ps, file)
            BY <3>3, LoadedRight
        <3> QED BY <2>1, <2>2, <3>1, <3>4
    <2> QED BY <2>1, <2>3 DEF TreeRight
<1>3. CASE UpdateTree
    <2>1. PICK t, t2, l, small, k : /\ t = db /\ t2 = db'
                                    /\ l = Line(h.key, h.kind, Id, h.off)
                                    /\ small = SmallLength(h.kind) /\ k = h.key
        OBVIOUS
    <2>2. /\ l \in HintLines /\ k \in Keys /\ k \in Key /\ Running /\ h.at = "tree"
          /\ h.kind \in Kinds
        BY <1>3, <2>1, LineIs, HandlerIs, KeysAssumption DEF UpdateTree, Key
    <2>3. l.number \in Int /\ small \in Nat /\ Tree(t)
        BY <2>1, <2>2, SmallLengthIs DEF HintLines
    <2>4. t2 = Put(t, k, l.number, small)
        BY <1>3, <2>1 DEF UpdateTree
    <2>5. /\ Entry(t2, k) = [value |-> l.number, small |-> small]
          /\ \A k2 \in Key \ {k} : Keeps(t2, t, k, k2)
        BY <2>2, <2>3, <2>4, PutIs
    <2>6. PICK ps, ps2, file : ps = puts /\ ps2 = puts' /\ file = File
        OBVIOUS
    <2>7. File' = File
        BY <2>2, FileStays DEF WriteHead, WriteBody
    <2>8. ASSUME NEW k2 \in Keys \ cut', k2 # k
          PROVE  EntryRight(Entry(t2, k2), k2, ps2, file)
        <3>1. k2 \in Keys \ cut /\ k2 \in Key \ {k}
            BY <1>3, <2>1, <2>8, KeysAssumption DEF UpdateTree, Key
        <3>2. EntryRight(Entry(t, k2), k2, ps, file)
            BY <2>1, <2>2, <2>6, <3>1 DEF TreeRight
        <3>3. Keeps(t2, t, k, k2) /\ ps \in Seq(Puts) /\ ps2 \in Seq(Puts)
            BY <1>1, <2>5, <2>6, <3>1
        <3>4. EntryRight(Entry(t2, k2), k2, ps, file)
            BY <2>2, <3>1, <3>2, <3>3, PutKeepsRight
        <3>5. SameFor(ps2, ps, k2) /\ Grows(file, file)
            BY <2>1, <2>6, <2>8, SamePutsNext, GrowsNot
        <3> QED BY <3>3, <3>4, <3>5, RightStays
    <2>9. ASSUME k \notin cut' PROVE EntryRight(Entry(t2, k), k, ps2, file)
        <3>1. InTime
            <4>1. ready \/ h.key \notin cut
                BY <1>3, <2>1, <2>9 DEF UpdateTree
            <4> QED BY <2>2, <4>1, ComesInTime
        <3>2. PICK i : i = Id
            OBVIOUS
        <3>3. /\ Len(ps2) = Len(ps) /\ i = Len(ps) /\ i \in 1..Len(ps2)
              /\ ps2[i].key = k /\ ps2[i].did /\ ps2[i].kind = h.kind
            BY <1>3, <2>1, <2>6, <3>2, UpdateTreeIs
        <3>4. LastIn(ps2, k) = i
            <4>1. \A j \in 1..Len(ps2) : j <= i
                BY <1>1, <2>6, <3>3
            <4>2. ps2 \in Seq(Puts)
                BY <1>1, <2>6
            <4> QED BY <3>3, <4>1, <4>2, LastInUnique
        <3>5. LeadsTo(l.number, i, ps2, file)
            BY <2>1, <2>2, <2>6, <3>1, <3>2, <3>3, LineLeads
        <3>6. Entry(t2, k).small = small /\ Entry(t2, k).value = l.number
            BY <2>5
        <3>7. i # 0 /\ small = SmallLength(ps2[i].kind)
            BY <2>1, <3>3
        <3> QED BY <3>4, <3>5, <3>6, <3>7 DEF EntryRight
    <2>10. \A k2 \in Keys \ cut' : EntryRight(Entry(t2, k2), k2, ps2, file)
        BY <2>8, <2>9
    <2> QED BY <2>1, <2>6, <2>7, <2>10 DEF TreeRight
<1>4. CASE \/ Unready \/ FlushData \/ FlushHint \/ CloseData \/ CloseHint \/ Exit
           \/ Signal \/ MainReturns \/ Commands \/ Get \/ Answer \/ StartPut \/ WriteHead
           \/ WriteBody \/ WriteHint \/ Register \/ SendReply \/ Dies \/ UNCHANGED vars
    <2>1. db' = db
        BY <1>4 DEF Unready, FlushData, FlushHint, CloseData, CloseHint, Exit, Signal,
                    MainReturns, Commands, Command, Get, Answer, StartPut, WriteHead,
                    WriteBody, WriteHint, Register, SendReply, Dies, vars
    <2>2. Running' => Running
        BY <1>4 DEF Unready, FlushData, FlushHint, CloseData, CloseHint, Exit, Signal,
                    MainReturns, Commands, Command, Get, Answer, StartPut, WriteHead,
                    WriteBody, WriteHint, Register, SendReply, Dies, vars, Running
    <2>3. CASE UpdateTree
        BY <1>3, <2>3
    <2>4. CASE ~ UpdateTree
        BY <2>1, <2>2, <2>4, SamePutsNext, CutNext, GrowsNext, TreeFrame
    <2> QED BY <2>3, <2>4
<1> QED
    BY <1>2, <1>3, <1>4, Steps

LEMMA LinesRightNext ==
    ASSUME Types, Types', Stops, PutUnderWay, LinesRight, [Next]_vars
    PROVE  LinesRight'
<1>1. puts \in Seq(Puts) /\ Len(puts) \in Nat /\ Lines \in Seq(HintLines)
    BY FilesTyped
<1>2. CASE WriteHint
    <2>1. PICK lines, ps, file, l : /\ lines = Lines /\ ps = puts /\ file = File
                                    /\ l = Line(h.key, h.kind, Id, h.off)
        OBVIOUS
    <2>2. /\ h.at = "hint" /\ h'.at = "done" /\ puts' = puts /\ cut' = cut
          /\ ToHint(<<l>>)
        BY <1>2, <2>1 DEF WriteHint, Types, Handlers
    <2>3. /\ l \in HintLines /\ <<l>> \in Seq(HintLines) /\ l.key = h.key /\ l.kind = h.kind
        BY <2>1, <2>2, LineIs
    <2>4. File' = File
        BY <2>2, FileStays DEF WriteHead, WriteBody
    <2>5. CASE HintOpen
        <3>1. Lines' = Append(lines, l)
            <4>1. Lines' = lines \o <<l>>
                BY <2>1, <2>2, <2>3, <2>5, ToHintIs
            <4>2. lines \o <<l>> = Append(lines, l)
                BY <1>1, <2>1, <2>3
            <4> QED BY <4>1, <4>2
        <3>2. ASSUME NEW k \in Keys \ cut, k # h.key PROVE LineRight(Append(lines, l), k, ps, file)
            <4>1. LineRight(lines, k, ps, file)
                BY <2>1, <3>2 DEF LinesRight
            <4> QED BY <1>1, <2>1, <2>3, <3>2, <4>1, LineOfAnother
        <3>3. ASSUME h.key \in Keys \ cut PROVE LineRight(Append(lines, l), h.key, ps, file)
            <4>1. InTime
                BY <2>2, <3>3, ComesInTime
            <4>2. PICK i, k : i = Id /\ k = h.key
                OBVIOUS
            <4>3. /\ i \in 1..Len(ps) /\ i = Len(ps)
                  /\ ps[i].key = k /\ ps[i].kind = h.kind /\ ps[i].did
                BY <1>1, <2>1, <2>2, <4>2 DEF PutUnderWay, Id
            <4>4. LastIn(ps, k) = i
                <5>1. \A j \in 1..Len(ps) : j <= i
                    BY <1>1, <2>1, <4>3
                <5>2. ps \in Seq(Puts)
                    BY <1>1, <2>1
                <5> QED BY <4>3, <5>1, <5>2, LastInUnique
            <4>5. LeadsTo(l.number, i, ps, file)
                BY <2>1, <2>2, <4>1, <4>2, <4>3, LineLeads
            <4>6. /\ lines \in Seq(HintLines) /\ l.key = k /\ LastIn(ps, k) # 0
                  /\ l.kind = ps[LastIn(ps, k)].kind /\ LeadsTo(l.number, LastIn(ps, k), ps, file)
                BY <1>1, <2>1, <2>3, <4>2, <4>3, <4>4, <4>5
            <4>7. LineRight(Append(lines, l), k, ps, file)
                BY <2>3, <4>6, LineOfLast
            <4> QED BY <4>2, <4>7
        <3> QED BY <2>1, <2>2, <2>4, <3>1, <3>2, <3>3 DEF LinesRight
    <2>6. CASE ~ HintOpen
        <3>1. h.key \in cut
            BY <2>2, <2>6 DEF HintOpen, Stops, InFlight
        <3>2. Lines' = Lines
            BY <2>2, <2>3, <2>6, ToHintIs
        <3> QED BY <2>2, <2>4, <3>1, <3>2, GrowsNot, SamePutsIs, LinesFrame
    <2> QED BY <2>5, <2>6
<1>3. CASE Dies
    <2>1. /\ UNCHANGED <<h, puts, hint>> /\ hintBuf' = << >> /\ cut \subseteq cut'
          /\ main \in {"data closed", "closed"} /\ h.at \in {"put", "head", "body", "get", "tree", "hint"}
        BY <1>3 DEF Dies, DataOpen, HintOpen
    <2>2. File' = File
        <3>1. ~ (WriteHead \/ WriteBody)
            BY <2>1 DEF WriteHead, WriteBody, Types, Handlers
        <3> QED BY <3>1, FileStays
    <2>3. PICK lines, lost, ps, file : lines = hint /\ lost = hintBuf /\ ps = puts /\ file = File
        OBVIOUS
    <2>4. lines \in Seq(HintLines) /\ lost \in Seq(HintLines) /\ lines \o << >> = lines
        <3>1. lines \in Seq(HintLines) /\ lost \in Seq(HintLines)
            BY <2>3 DEF Types
        <3> QED BY <3>1, ConcatEmptySeq
    <2>5. Lines = lines \o lost /\ Lines' = lines
        BY <2>1, <2>3, <2>4 DEF Lines
    <2>6. \A j \in 1..Len(lost) : lost[j].key \in cut
        <3>1. CASE main = "closed"
            <4>1. 1..Len(lost) = 1..0
                BY <2>3, <3>1 DEF Stops
            <4>2. \A j \in 1..0 : FALSE
                OBVIOUS
            <4> QED BY <4>1, <4>2
        <3>2. CASE main = "data closed"
            BY <2>3, <3>2 DEF Stops
        <3> QED BY <2>1, <3>1, <3>2
    <2>7. ASSUME NEW k \in Keys \ cut', ~ (h'.at = "hint" /\ h'.key = k)
          PROVE  LineRight(lines, k, ps, file)
        <3>1. k \in Keys \ cut /\ \A j \in 1..Len(lost) : lost[j].key # k
            BY <2>1, <2>6, <2>7
        <3>2. LineRight(lines \o lost, k, ps, file)
            BY <2>1, <2>3, <2>5, <2>7, <3>1 DEF LinesRight
        <3> QED BY <2>4, <3>1, <3>2, LinesLost
    <2> QED BY <2>1, <2>2, <2>3, <2>5, <2>7 DEF LinesRight
<1>4. CASE UpdateTree
    <2>1. /\ h.at = "tree" /\ h'.at = "hint" /\ h'.key = h.key
          /\ \A k \in Keys \ cut' : k # h.key => k \in Keys \ cut
        BY <1>4 DEF UpdateTree, Types, Handlers
    <2>2. File' = File
        BY <2>1, FileStays DEF WriteHead, WriteBody
    <2>3. Lines' = Lines
        BY <1>4, Flushed DEF UpdateTree, files
    <2>4. ASSUME NEW k \in Keys \ cut', k # h.key PROVE LineRight(Lines', k, puts', File')
        <3>1. PICK lines, ps, ps2, file : /\ lines = Lines /\ ps = puts /\ ps2 = puts'
                                          /\ file = File
            OBVIOUS
        <3>2. LineRight(lines, k, ps, file)
            BY <2>1, <2>4, <3>1 DEF LinesRight
        <3>3. ps \in Seq(Puts) /\ ps2 \in Seq(Puts) /\ SameFor(ps2, ps, k) /\ Grows(file, file)
            BY <2>4, <3>1, SamePutsNext, GrowsNot DEF Types
        <3>4. LineRight(lines, k, ps2, file)
            BY <3>2, <3>3, RightStays
        <3> QED BY <2>2, <2>3, <3>1, <3>4
    <2> QED BY <2>1, <2>4 DEF LinesRight
<1>5. CASE ~ (WriteHint \/ Dies \/ UpdateTree)
    <2>1. h.at = "hint" => (h'.at = "hint" /\ h'.key = h.key) \/ h.key \in cut'
        <3>1. CASE Open
            BY <3>1 DEF Open, Stops, InFlight
        <3>2. CASE ~ Open
            <4>1. SUFFICES ASSUME h.at = "hint" PROVE h' = h
                OBVIOUS
            <4>2. CASE \/ Commands \/ Get \/ Answer \/ StartPut \/ WriteHead \/ WriteBody
                       \/ Register
                BY <4>1, <4>2 DEF Commands, Command, Get, Answer, StartPut, WriteHead,
                                  WriteBody, Register
            <4>3. CASE \/ Unready \/ FlushData \/ FlushHint \/ CloseData \/ CloseHint \/ Exit
                       \/ Signal \/ MainReturns \/ SendReply \/ UNCHANGED vars
                BY <4>3 DEF Unready, FlushData, FlushHint, CloseData, CloseHint, Exit, Signal,
                            MainReturns, SendReply, vars
            <4> QED BY <1>5, <3>2, <4>2, <4>3, Steps
        <3> QED BY <3>1, <3>2
    <2> QED BY <1>5, <2>1, LinesStay, SamePutsNext, CutNext, GrowsNext, LinesFrame
<1> QED
    BY <1>2, <1>3, <1>4, <1>5

-----------------------------------------------------------------------------
(* The invariant holds.                                                    *)

LEMMA InitInv == Init => Inv
<1>1. SUFFICES ASSUME Init PROVE Inv
    OBVIOUS
<1>2. /\ h = Idle /\ puts = << >> /\ Len(puts) = 0 /\ DOMAIN puts = {} /\ replies = {}
      /\ main = "down" /\ data = << >> /\ dataBuf = << >> /\ hint = << >> /\ hintBuf = << >>
    BY <1>1 DEF Init
<1>3. Types
    <2>1. Idle \in Handlers /\ Idle.at = "idle"
        BY DEF Idle, Gone, Handlers, Kinds
    <2>2. << >> \in Seq(Pieces) /\ << >> \in Seq(HintLines) /\ << >> \in Seq(Puts)
        OBVIOUS
    <2>3. ready = FALSE /\ epoll = FALSE /\ cut = {}
        BY <1>1 DEF Init
    <2> QED BY <1>2, <2>1, <2>2, <2>3 DEF Types
<1>4. Tree(db)
    BY <1>1, EmptyIsTree DEF Init
<1>5. Stops
    BY <1>1, <1>2 DEF Init, Stops, InFlight, Idle
<1>6. PutUnderWay /\ Acknowledged /\ GotRight /\ TreeRight
    BY <1>1, <1>2 DEF Init, PutUnderWay, Acknowledged, GotRight, GetExact, TreeRight, Running,
                      Idle
<1>7. LinesRight
    <2>1. Lines = << >> /\ Len(Lines) = 0
        BY <1>2 DEF Lines
    <2>2. ASSUME NEW k PROVE LastIn(puts, k) = 0
        <3>1. {i \in DOMAIN puts : puts[i].key = k /\ puts[i].did} = {}
            BY <1>2
        <3> QED BY <3>1 DEF LastIn
    <2>3. \A j \in 1..0 : FALSE
        OBVIOUS
    <2>4. ASSUME NEW k PROVE LineRight(Lines, k, puts, File)
        BY <2>1, <2>2, <2>3 DEF LineRight
    <2> QED BY <2>4 DEF LinesRight
<1> QED
    BY <1>3, <1>4, <1>5, <1>6, <1>7 DEF Inv

LEMMA NextInv == Inv /\ [Next]_vars => Inv'
<1>1. SUFFICES ASSUME Inv, [Next]_vars PROVE Inv'
    OBVIOUS
<1>2. /\ Types /\ Tree(db) /\ Stops /\ PutUnderWay /\ Acknowledged /\ TreeRight /\ LinesRight
      /\ GotRight
    BY <1>1 DEF Inv
<1>3. Types'
    BY <1>1, <1>2, TypesNext
<1>4. Tree(db')
    BY <1>1, <1>2, TreeNext
<1>5. Stops'
    BY <1>1, <1>2, StopsNext
<1>6. PutUnderWay'
    BY <1>1, <1>2, UnderWayNext
<1>7. Acknowledged'
    BY <1>1, <1>2, AcknowledgedNext
<1>8. TreeRight'
    BY <1>1, <1>2, <1>3, TreeRightNext
<1>9. LinesRight'
    BY <1>1, <1>2, <1>3, LinesRightNext
<1>10. GotRight'
    BY <1>1, <1>2, GotNext
<1> QED
    BY <1>3, <1>4, <1>5, <1>6, <1>7, <1>8, <1>9, <1>10 DEF Inv

\* The tree leads every lookup to the last put of its key, and the lines of
\* the hint file, with what is buffered, to the same, but for the put under
\* way and the keys whose last put a stop cut off (tst_put, tst_close).
THEOREM InvHolds == Spec => []Inv
<1>1. Init => Inv
    BY InitInv
<1>2. Inv /\ [Next]_vars => Inv'
    BY NextInv
<1> QED
    BY <1>1, <1>2, PTL DEF Spec

-----------------------------------------------------------------------------
(* What follows from it.                                                   *)

\* A lookup that the invariant speaks of: of a key that was put, or of any
\* key when none is the beginning of another.
Settled(k) == PrefixFree \/ LastIn(puts, k) # 0

LEMMA TreeFinds ==
    ASSUME Inv, Running, NEW k \in Keys \ cut, Settled(k)
    PROVE  Got(db, k, File, pos) = CurrentIn(puts, k)
<1>1. PICK t, file, p, ps, e : /\ t = db /\ file = File /\ p = pos /\ ps = puts
                               /\ e = Entry(db, k)
    OBVIOUS
<1>2. Tree(t) /\ k \in Key /\ ps \in Seq(Puts)
    BY <1>1, KeysAssumption DEF Inv, Types, Key
<1>3. EntryRight(e, k, ps, file)
    BY <1>1 DEF Inv, TreeRight
<1>4. Got(t, k, file, p) = Found(e, file, p)
    BY <1>1, <1>2, GotIs
<1>5. Found(e, file, p) = CurrentIn(ps, k)
    BY <1>1, <1>2, <1>3, FoundIsCurrent DEF Settled
<1> QED
    BY <1>1, <1>4, <1>5

LEMMA FilesFind ==
    ASSUME Inv, NEW k \in Keys \ cut, ~ (h.at = "hint" /\ h.key = k), Settled(k)
    PROVE  Reopened(OnFile, k) = CurrentIn(puts, k)
<1>1. PICK lines, file, ps, t, e : /\ lines = Lines /\ file = File /\ ps = puts
                                   /\ t = Loaded(lines) /\ e = Entry(t, k)
    OBVIOUS
<1>2. lines \in Seq(HintLines) /\ k \in Key /\ ps \in Seq(Puts)
    BY <1>1, FilesTyped, KeysAssumption DEF Inv, Key
<1>3. Tree(t)
    BY <1>1, <1>2, LoadedIs DEF Builds
<1>4. LineRight(lines, k, ps, file)
    BY <1>1 DEF Inv, LinesRight
<1>5. EntryRight(e, k, ps, file)
    BY <1>1, <1>2, <1>4, LoadedRight
<1>6. Got(t, k, file, 1) = Found(e, file, 1)
    BY <1>1, <1>2, <1>3, GotIs
<1>7. Found(e, file, 1) = CurrentIn(ps, k)
    BY <1>1, <1>2, <1>5, FoundIsCurrent DEF Settled
<1>8. Reopened(OnFile, k) = Got(t, k, file, 1)
    BY <1>1 DEF Reopened, OnFile, Lines, File
<1> QED
    BY <1>1, <1>6, <1>7, <1>8

LEMMA InvType == Inv => TypeOK
<1>1. SUFFICES ASSUME Inv PROVE TypeOK
    OBVIOUS
<1>2. Sound(db) /\ puts \in Seq(Puts) /\ h \in Handlers
    BY <1>1 DEF Inv, Tree, Types
<1>3. Size(db) < db.cap
    BY <1>2 DEF Sound
<1>4. \A x \in DOMAIN db.node, way \in Ways : db.node[x].link[way] \in 0..Size(db)
    BY <1>2 DEF Sound, Size
<1>5. DOMAIN puts = 1..Len(puts)
    BY <1>2
<1> QED
    BY <1>1, <1>2, <1>3, <1>4, <1>5 DEF Inv, Types, TypeOK, Handlers

LEMMA InvSound == Inv /\ PrefixFree => StoreSound
<1>1. SUFFICES ASSUME Inv, PrefixFree PROVE StoreSound
    OBVIOUS
<1>2. ASSUME Running, NEW k \in Keys \ (InFlight \cup cut)
      PROVE  Reopened(OnFile, k) = Got(db, k, data \o dataBuf, pos)
    <2>1. k \in Keys \ cut /\ ~ (h.at = "hint" /\ h.key = k) /\ Settled(k)
        BY <1>1, <1>2 DEF InFlight, Settled
    <2>2. Got(db, k, File, pos) = CurrentIn(puts, k)
        BY <1>1, <1>2, <2>1, TreeFinds
    <2>3. Reopened(OnFile, k) = CurrentIn(puts, k)
        BY <1>1, <2>1, FilesFind
    <2> QED BY <2>2, <2>3 DEF File
<1>3. FilesMatchTree
    BY <1>2 DEF FilesMatchTree
<1> QED
    BY <1>1, <1>3, InvType DEF StoreSound

LEMMA InvAcked == Inv => AckedSurvive
<1>1. SUFFICES ASSUME Inv, main = "down", NEW k \in Keys \ cut, NEW i \in DOMAIN puts,
                      puts[i].acked, puts[i].key = k
               PROVE  \E j \in i..Len(puts) :
                         /\ puts[j].key = k
                         /\ IF puts[j].kind = "gone" THEN Reopened(OnFile, k) = Gone
                            ELSE Reopened(OnFile, k) = [kind |-> puts[j].kind, id |-> j]
    BY DEF AckedSurvive
<1>2. PICK ps, j : ps = puts /\ j = LastIn(puts, k)
    OBVIOUS
<1>3. ps \in Seq(Puts) /\ i \in 1..Len(ps) /\ Len(ps) \in Nat
    BY <1>1, <1>2, FilesTyped DEF Inv
<1>4. ps[i].did /\ ps[i].key = k
    BY <1>1, <1>2, <1>3 DEF Inv, Acknowledged
<1>5. i <= j /\ j \in 0..Len(ps)
    BY <1>2, <1>3, <1>4, LastInIs
<1>6. j # 0 /\ j \in i..Len(ps)
    BY <1>3, <1>5
<1>7. ps[j].key = k
    BY <1>2, <1>3, <1>6, LastInIs
<1>8. Reopened(OnFile, k) = CurrentIn(puts, k)
    <2>1. ~ (h.at = "hint" /\ h.key = k) /\ Settled(k)
        BY <1>1, <1>2, <1>6 DEF Inv, Stops, InFlight, Settled
    <2> QED BY <1>1, <2>1, FilesFind
<1>9. CurrentIn(puts, k) = IF puts[j].kind = "gone" THEN Gone ELSE [kind |-> puts[j].kind, id |-> j]
    BY <1>2, <1>6 DEF CurrentIn
<1> QED
    BY <1>2, <1>6, <1>7, <1>8, <1>9

\* The node array never fills, no link leaves it, and what version 1's two
\* threads keep of a command is what they use (src/v1/tst.c insert).
THEOREM TypeCorrect == Spec => []TypeOK
<1>1. Inv => TypeOK
    BY InvType
<1> QED
    BY <1>1, InvHolds, PTL

\* The array is sound and the two files always say what the tree says, so
\* that a store that is opened from them (tst_open) finds what this one finds:
\* for keys none of which is the beginning of another.
THEOREM StoreSoundHolds == PrefixFree => (Spec => []StoreSound)
<1>1. SUFFICES ASSUME PrefixFree PROVE Spec => []StoreSound
    OBVIOUS
<1>2. Inv => StoreSound
    BY <1>1, InvSound
<1> QED
    BY <1>2, InvHolds, PTL

\* A lookup in the open store (tst_get) finds the value of its key's last put,
\* whatever the keys are, if the key was ever put.
THEOREM PutIsFound == Spec => [](LastPut(h.key) # 0 => GetExact)
<1>1. Inv => (LastPut(h.key) # 0 => GetExact)
    BY DEF Inv, GotRight
<1> QED
    BY <1>1, InvHolds, PTL

\* For keys none of which is the beginning of another every lookup in the open
\* store (tst_get) finds the value of its key's last put, and nothing if there
\* was none.
THEOREM GetExactHolds == PrefixFree => (Spec => []GetExact)
<1>1. SUFFICES ASSUME PrefixFree PROVE Spec => []GetExact
    OBVIOUS
<1>2. Inv => GetExact
    BY <1>1 DEF Inv, GotRight
<1> QED
    BY <1>2, InvHolds, PTL

\* A put whose reply a client has received is found, or a later put of its
\* key, when the store is opened again after any stop (exit_hook, tst_close,
\* tst_open), unless the key's last put was cut off: whatever the keys are.
THEOREM AckedSurviveHolds == Spec => []AckedSurvive
<1>1. Inv => AckedSurvive
    BY InvAcked
<1> QED
    BY <1>1, InvHolds, PTL

=============================================================================
