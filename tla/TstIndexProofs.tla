--------------------------- MODULE TstIndexProofs ---------------------------
(***************************************************************************)
(* Proofs about the tree of tst.c, for any keys and numbers of calls: as   *)
(* long as no deletion has gone astray a lookup finds what the calls put   *)
(* there, the array is a tree, and every node is in it or on the free list. *)
(*                                                                         *)
(* The argument gives each node of the tree a label, the key that ends at  *)
(* it, and a domain, the nodes below it (Shape).  A search for a key goes  *)
(* at each node to the domain that has the key's label, insert adds one    *)
(* node to the domains along the search, and remove_node takes one out.    *)
(***************************************************************************)
EXTENDS TstIndex, SequenceTheorems, FiniteSetTheorems, WellFoundedInduction, TLAPS

-----------------------------------------------------------------------------
(* Numbers, and functions that are defined by recursion.                   *)

\* A set of naturals that has 0 and with each number the next one has all.
LEMMA Induction ==
    ASSUME NEW T, 0 \in T, \A n \in Nat : n \in T => n + 1 \in T
    PROVE  \A n \in Nat : n \in T
<1>1. SUFFICES ASSUME NEW n \in Nat \ T PROVE FALSE
    OBVIOUS
<1>2. PICK u \in Nat \ T : \A y \in Nat \ T : ~ (<<y, u>> \in OpToRel(<, Nat))
    <2>1. Nat \ T # {} /\ Nat \ T \subseteq Nat
        BY <1>1
    <2> QED BY <2>1, NatLessThanWellFounded, WFMin
<1>3. \A y \in Nat \ T : ~ (y < u)
    BY <1>2 DEF OpToRel
<1>4. u \in Nat /\ u # 0 /\ u \notin T
    BY <1>2
<1>5. u - 1 \in Nat /\ u - 1 < u /\ u - 1 + 1 = u
    BY <1>4
<1> QED
    BY <1>3, <1>4, <1>5

\* A function whose value at a number is got from the one before exists.
Counts(f, s, step, n) == f = [j \in 0..n |-> IF j = 0 THEN s ELSE step[j][f[j - 1]]]

LEMMA CountedExists ==
    ASSUME NEW S, NEW s \in S, NEW n \in Nat, NEW step \in [Nat -> [S -> S]]
    PROVE  \E f \in [0..n -> S] : Counts(f, s, step, n)
<1> DEFINE T == {u \in Nat : \E f \in [0..n -> S] : \A j \in 0..n :
                    j <= u => f[j] = IF j = 0 THEN s ELSE step[j][f[j - 1]]}
<1>1. 0 \in T
    <2>1. PICK f : f = [j \in 0..n |-> s]
        OBVIOUS
    <2>2. f \in [0..n -> S]
        BY <2>1
    <2>3. \A j \in 0..n : j <= 0 => f[j] = IF j = 0 THEN s ELSE step[j][f[j - 1]]
        BY <2>1
    <2> QED BY <2>2, <2>3
<1>2. ASSUME NEW u \in Nat, u \in T PROVE u + 1 \in T
    <2>1. PICK f \in [0..n -> S] : \A j \in 0..n :
             j <= u => f[j] = IF j = 0 THEN s ELSE step[j][f[j - 1]]
        BY <1>2
    <2>2. PICK g : g = [j \in 0..n |-> IF j = 0 THEN s ELSE step[j][f[j - 1]]]
        OBVIOUS
    <2>3. g \in [0..n -> S]
        <3>1. ASSUME NEW j \in 0..n, j # 0 PROVE step[j][f[j - 1]] \in S
            <4>1. j - 1 \in 0..n /\ j \in Nat
                BY <3>1
            <4>2. f[j - 1] \in S
                BY <2>1, <4>1
            <4> QED BY <4>1, <4>2
        <3> QED BY <2>2, <3>1
    <2>4. ASSUME NEW j \in 0..n, j <= u PROVE g[j] = f[j]
        BY <2>1, <2>2, <2>4
    <2>5. ASSUME NEW j \in 0..n, j <= u + 1
          PROVE  g[j] = IF j = 0 THEN s ELSE step[j][g[j - 1]]
        <3>1. CASE j = 0
            BY <2>2, <3>1
        <3>2. CASE j # 0
            <4>1. j - 1 \in 0..n /\ j - 1 <= u
                BY <2>5, <3>2
            <4>2. g[j - 1] = f[j - 1]
                BY <2>4, <4>1
            <4> QED BY <2>2, <3>2, <4>2
        <3> QED BY <3>1, <3>2
    <2> QED BY <2>3, <2>5
<1>3. n \in T
    <2> HIDE DEF T
    <2> QED BY <1>1, <1>2, Induction
<1>4. PICK f \in [0..n -> S] : \A j \in 0..n :
         j <= n => f[j] = IF j = 0 THEN s ELSE step[j][f[j - 1]]
    BY <1>3
<1>5. \A j \in 0..n : f[j] = IF j = 0 THEN s ELSE step[j][f[j - 1]]
    BY <1>4
<1>6. f = [j \in 0..n |-> f[j]]
    BY <1>4
<1> QED
    BY <1>4, <1>5, <1>6 DEF Counts

-----------------------------------------------------------------------------
(* The shape of the tree.                                                  *)

Key == Seq(Int) \ {<< >>}

\* A search for s that has come to the level of the node labelled k.
Agree(s, k) == Len(s) >= Len(k) /\ \A i \in 1..(Len(k) - 1) : s[i] = k[i]

\* T is the set of the tree's nodes, L[x] the label of x and D[x] the nodes
\* below x, x included.
Shape(root, N, T, L, D) ==
    /\ IsFiniteSet(T) /\ T \subseteq Nat \ {0}
    /\ L \in [T -> Key]
    /\ D \in [T \cup {0} -> SUBSET T]
    /\ root \in T \cup {0} /\ D[root] = T /\ D[0] = {}
    /\ root # 0 => Len(L[root]) = 1
    /\ \A x \in T :
          /\ N[x].c = L[x][Len(L[x])]
          /\ x \in D[x]
          /\ \A y \in T : y \in D[x] => y = x \/ \E way \in Ways : y \in D[N[x].link[way]]
    /\ \A x \in T, way \in Ways :
          /\ N[x].link[way] \in T \cup {0}
          /\ D[N[x].link[way]] \subseteq D[x]
          /\ N[x].link[way] # 0 =>
                Len(L[N[x].link[way]]) = (IF way = "mid" THEN Len(L[x]) + 1 ELSE Len(L[x]))
          /\ \A y \in D[N[x].link[way]] :
                Agree(L[y], L[x]) /\ Way(N[x], L[y], Len(L[x])) = way

LEMMA LinkIs ==
    ASSUME NEW root, NEW N, NEW T, NEW L, NEW D, Shape(root, N, T, L, D),
           NEW x \in T, NEW way \in Ways
    PROVE  /\ N[x].link[way] \in T \cup {0}
           /\ D[N[x].link[way]] \subseteq D[x]
           /\ N[x].link[way] # 0 =>
                 Len(L[N[x].link[way]]) = (IF way = "mid" THEN Len(L[x]) + 1 ELSE Len(L[x]))
           /\ \A y \in D[N[x].link[way]] :
                 Agree(L[y], L[x]) /\ Way(N[x], L[y], Len(L[x])) = way
BY DEF Shape

LEMMA NodeIs ==
    ASSUME NEW root, NEW N, NEW T, NEW L, NEW D, Shape(root, N, T, L, D), NEW x \in T
    PROVE  /\ L[x] \in Key /\ N[x].c = L[x][Len(L[x])]
           /\ x \in D[x] /\ D[x] \subseteq T /\ x \in Nat \ {0}
           /\ \A y \in T : y \in D[x] => y = x \/ \E way \in Ways : y \in D[N[x].link[way]]
<1>1. L[x] \in Key /\ D[x] \subseteq T /\ x \in Nat \ {0}
    BY DEF Shape
<1>2. /\ N[x].c = L[x][Len(L[x])] /\ x \in D[x]
      /\ \A y \in T : y \in D[x] => y = x \/ \E way \in Ways : y \in D[N[x].link[way]]
    BY DEF Shape
<1> QED
    BY <1>1, <1>2

\* What is below a link is not the node itself, and below one link only.
LEMMA Apart ==
    ASSUME NEW root, NEW N, NEW T, NEW L, NEW D, Shape(root, N, T, L, D),
           NEW x \in T, NEW way \in Ways
    PROVE  /\ x \notin D[N[x].link[way]]
           /\ \A way2 \in Ways : \A y \in D[N[x].link[way]] :
                 y \in D[N[x].link[way2]] => way = way2
<1>1. x \notin D[N[x].link[way]]
    <2>1. L[x] \in Key /\ N[x].c = L[x][Len(L[x])]
        BY DEF Shape
    <2>2. Len(L[x]) \in 1..Len(L[x]) /\ Len(L[x]) \in Nat /\ L[x][Len(L[x])] \in Int
        BY <2>1 DEF Key
    <2>3. Way(N[x], L[x], Len(L[x])) = "value"
        BY <2>1, <2>2 DEF Way
    <2> QED BY <2>3 DEF Shape, Ways
<1>2. ASSUME NEW way2 \in Ways, NEW y \in D[N[x].link[way]], y \in D[N[x].link[way2]]
      PROVE  way = way2
    BY <1>2 DEF Shape
<1> QED
    BY <1>1, <1>2

\* Further down there are fewer nodes below.
LEMMA Rank ==
    ASSUME NEW root, NEW N, NEW T, NEW L, NEW D, Shape(root, N, T, L, D)
    PROVE  \E rank \in [T -> 1..Cardinality(T)] : \A x \in T, way \in Ways :
              N[x].link[way] # 0 => rank[N[x].link[way]] < rank[x]
<1>1. IsFiniteSet(T) /\ Cardinality(T) \in Nat
    BY FS_CardinalityType DEF Shape
<1>2. ASSUME NEW x \in T
      PROVE  D[x] \subseteq T /\ IsFiniteSet(D[x]) /\ Cardinality(D[x]) \in 1..Cardinality(T)
    <2>1. D[x] \subseteq T /\ x \in D[x]
        BY DEF Shape
    <2>2. IsFiniteSet(D[x]) /\ Cardinality(D[x]) <= Cardinality(T)
        BY <1>1, <2>1, FS_Subset
    <2>3. Cardinality(D[x]) \in Nat /\ Cardinality(D[x]) # 0
        BY <2>1, <2>2, FS_CardinalityType, FS_EmptySet
    <2> QED BY <1>1, <2>1, <2>2, <2>3
<1>3. ASSUME NEW x \in T, NEW way \in Ways, N[x].link[way] # 0
      PROVE  Cardinality(D[N[x].link[way]]) < Cardinality(D[x])
    <2>1. PICK z : z = N[x].link[way]
        OBVIOUS
    <2>2. z \in T /\ D[z] \subseteq D[x] /\ x \in D[x]
        BY <1>3, <2>1 DEF Shape
    <2>3. x \notin D[z]
        BY <2>1, Apart
    <2>4. Cardinality(D[z]) <= Cardinality(D[x]) /\ Cardinality(D[z]) # Cardinality(D[x])
        BY <1>2, <2>2, <2>3, FS_Subset
    <2>5. Cardinality(D[z]) \in Nat /\ Cardinality(D[x]) \in Nat
        BY <1>2, <2>2, FS_CardinalityType
    <2> QED BY <2>1, <2>4, <2>5
<1>4. PICK rank : rank = [x \in T |-> Cardinality(D[x])]
    OBVIOUS
<1>5. rank \in [T -> 1..Cardinality(T)]
    BY <1>2, <1>4
<1>6. ASSUME NEW x \in T, NEW way \in Ways, N[x].link[way] # 0
      PROVE  rank[N[x].link[way]] < rank[x]
    <2>1. N[x].link[way] \in T
        BY <1>6 DEF Shape
    <2> QED BY <1>3, <1>4, <1>6, <2>1
<1> QED
    BY <1>5, <1>6

\* What holds of a node when it holds of those its links lead to, holds of all.
LEMMA Downward ==
    ASSUME NEW root, NEW N, NEW T, NEW L, NEW D, Shape(root, N, T, L, D),
           NEW P, \A x \in T : (\A way \in Ways : N[x].link[way] # 0 => N[x].link[way] \in P)
                               => x \in P
    PROVE  T \subseteq P
<1>1. PICK rank \in [T -> 1..Cardinality(T)] : \A x \in T, way \in Ways :
         N[x].link[way] # 0 => rank[N[x].link[way]] < rank[x]
    BY Rank
<1>2. Cardinality(T) \in Nat
    BY FS_CardinalityType DEF Shape
<1> DEFINE U == {n \in Nat : \A x \in T : rank[x] <= n => x \in P}
<1>3. 0 \in U
    <2>1. \A x \in T : ~ (rank[x] <= 0)
        BY <1>1
    <2> QED BY <2>1
<1>4. ASSUME NEW n \in Nat, n \in U PROVE n + 1 \in U
    <2>1. ASSUME NEW x \in T, rank[x] <= n + 1 PROVE x \in P
        <3>1. ASSUME NEW way \in Ways, N[x].link[way] # 0 PROVE N[x].link[way] \in P
            <4>1. N[x].link[way] \in T
                BY <3>1 DEF Shape
            <4>2. rank[N[x].link[way]] < rank[x]
                BY <1>1, <3>1
            <4>3. rank[N[x].link[way]] \in Nat /\ rank[x] \in Nat
                BY <1>1, <4>1
            <4>4. rank[N[x].link[way]] <= n
                BY <2>1, <4>2, <4>3
            <4> QED BY <1>4, <4>1, <4>4
        <3> QED BY <3>1
    <2> QED BY <2>1
<1>5. \A n \in Nat : n \in U
    <2> HIDE DEF U
    <2> QED BY <1>3, <1>4, Induction
<1>6. ASSUME NEW x \in T PROVE x \in P
    <2>1. rank[x] \in Nat /\ rank[x] <= Cardinality(T)
        BY <1>1, <1>2
    <2> QED BY <1>2, <1>5, <2>1
<1> QED
    BY <1>6

\* No two nodes have the same label.
LEMMA LabelsDiffer ==
    ASSUME NEW root, NEW N, NEW T, NEW L, NEW D, Shape(root, N, T, L, D)
    PROVE  \A y, z \in T : L[y] = L[z] => y = z
<1> DEFINE P == {x \in T : \A y, z \in D[x] : L[y] = L[z] => y = z}
<1>1. ASSUME NEW x \in T, \A way \in Ways : N[x].link[way] # 0 => N[x].link[way] \in P
      PROVE  x \in P
    <2>1. ASSUME NEW y \in D[x], NEW z \in D[x], L[y] = L[z], y # x PROVE y = z
        <3>1. y \in T /\ z \in T
            BY DEF Shape
        <3>2. PICK way \in Ways : y \in D[N[x].link[way]]
            BY <2>1, <3>1 DEF Shape
        <3>3. Way(N[x], L[y], Len(L[x])) = way
            BY <3>2, LinkIs
        <3>4. z # x
            <4>1. L[x] \in Key /\ N[x].c = L[x][Len(L[x])]
                BY DEF Shape
            <4>2. Len(L[x]) \in Nat /\ L[x][Len(L[x])] \in Int
                BY <4>1 DEF Key
            <4>3. Way(N[x], L[x], Len(L[x])) = "value"
                BY <4>1, <4>2 DEF Way
            <4> QED BY <2>1, <3>3, <4>3 DEF Ways
        <3>5. PICK way2 \in Ways : z \in D[N[x].link[way2]]
            BY <3>1, <3>4 DEF Shape
        <3>6. way = way2
            BY <2>1, <3>3, <3>5, LinkIs
        <3>7. N[x].link[way] # 0
            BY <3>2 DEF Shape
        <3>8. N[x].link[way] \in P
            BY <1>1, <3>7
        <3> QED BY <2>1, <3>2, <3>5, <3>6, <3>8
    <2>2. ASSUME NEW y \in D[x], NEW z \in D[x], L[y] = L[z] PROVE y = z
        BY <2>1, <2>2
    <2> QED BY <2>2
<1>2. T \subseteq P
    <2> HIDE DEF P
    <2> QED BY <1>1, Downward
<1>3. ASSUME NEW y \in T, NEW z \in T, L[y] = L[z] PROVE y = z
    <2>1. root \in T /\ D[root] = T
        BY <1>3 DEF Shape
    <2> QED BY <1>2, <1>3, <2>1
<1> QED
    BY <1>3

\* What is below a node that is below x is below x.
LEMMA Within ==
    ASSUME NEW root, NEW N, NEW T, NEW L, NEW D, Shape(root, N, T, L, D),
           NEW y \in T
    PROVE  \A x \in T \cup {0} : y \in D[x] => D[y] \subseteq D[x]
<1> DEFINE P == {x \in T : y \in D[x] => D[y] \subseteq D[x]}
<1>1. ASSUME NEW x \in T, \A way \in Ways : N[x].link[way] # 0 => N[x].link[way] \in P
      PROVE  x \in P
    <2>1. ASSUME y \in D[x], y # x PROVE D[y] \subseteq D[x]
        <3>1. PICK way \in Ways : y \in D[N[x].link[way]]
            BY <2>1 DEF Shape
        <3>2. N[x].link[way] # 0 /\ D[N[x].link[way]] \subseteq D[x]
            BY <3>1 DEF Shape
        <3>3. D[y] \subseteq D[N[x].link[way]]
            BY <1>1, <3>1, <3>2
        <3> QED BY <3>2, <3>3
    <2> QED BY <2>1
<1>2. T \subseteq P
    <2> HIDE DEF P
    <2> QED BY <1>1, Downward
<1>3. D[0] = {}
    BY DEF Shape
<1> QED
    BY <1>2, <1>3

\* Of two nodes that have a node below both, one is below the other.
LEMMA Nested ==
    ASSUME NEW root, NEW N, NEW T, NEW L, NEW D, Shape(root, N, T, L, D),
           NEW y \in T, NEW z \in T, NEW w, w \in D[y], w \in D[z]
    PROVE  y \in D[z] \/ z \in D[y]
<1> DEFINE P == {x \in T : y \in D[x] /\ z \in D[x] => y \in D[z] \/ z \in D[y]}
<1>1. ASSUME NEW x \in T, \A way \in Ways : N[x].link[way] # 0 => N[x].link[way] \in P
      PROVE  x \in P
    <2>1. ASSUME y \in D[x], z \in D[x], y # x, z # x PROVE y \in D[z] \/ z \in D[y]
        <3>1. PICK way \in Ways : y \in D[N[x].link[way]]
            BY <2>1 DEF Shape
        <3>2. PICK way2 \in Ways : z \in D[N[x].link[way2]]
            BY <2>1 DEF Shape
        <3>3. N[x].link[way] \in T \cup {0} /\ N[x].link[way2] \in T \cup {0}
            BY DEF Shape
        <3>4. w \in D[N[x].link[way]] /\ w \in D[N[x].link[way2]]
            BY <3>1, <3>2, <3>3, Within
        <3>5. way = way2
            BY <3>4, Apart
        <3>6. N[x].link[way] # 0
            BY <3>1 DEF Shape
        <3> QED BY <1>1, <3>1, <3>2, <3>5, <3>6
    <2> QED BY <2>1
<1>2. T \subseteq P
    <2> HIDE DEF P
    <2> QED BY <1>1, Downward
<1>3. root \in T /\ D[root] = T
    BY DEF Shape
<1> QED
    BY <1>2, <1>3

\* One link leads to a node, and none to the root.
LEMMA OneParent ==
    ASSUME NEW root, NEW N, NEW T, NEW L, NEW D, Shape(root, N, T, L, D),
           NEW x \in T, NEW y \in T, NEW way \in Ways, NEW way2 \in Ways,
           N[x].link[way] # 0, N[x].link[way] = N[y].link[way2]
    PROVE  x = y /\ way = way2
<1>1. PICK z : z = N[x].link[way]
    OBVIOUS
<1>2. z \in T /\ z \in D[z] /\ D[z] \subseteq D[x] /\ D[z] \subseteq D[y]
    <2>1. z \in T \cup {0} /\ z # 0
        BY <1>1 DEF Shape
    <2>2. D[N[x].link[way]] \subseteq D[x] /\ D[N[y].link[way2]] \subseteq D[y]
        BY DEF Shape
    <2>3. z \in D[z]
        BY <2>1 DEF Shape
    <2> QED BY <1>1, <2>1, <2>2, <2>3
<1>3. x \notin D[z] /\ y \notin D[z]
    BY <1>1, Apart
<1>4. ASSUME NEW a \in T, NEW b \in T, NEW v \in Ways, N[b].link[v] = z, a \in D[b],
             D[z] \subseteq D[a], a \notin D[z]
      PROVE  a = b
    <2>1. CASE a # b
        <3>1. PICK u \in Ways : a \in D[N[b].link[u]]
            BY <1>4, <2>1 DEF Shape
        <3>2. N[b].link[u] \in T \cup {0}
            BY DEF Shape
        <3>3. z \in D[N[b].link[u]]
            BY <1>2, <1>4, <3>1, <3>2, Within
        <3>4. u = v
            BY <1>2, <1>4, <3>3, Apart
        <3> QED BY <1>4, <3>1, <3>4
    <2> QED BY <2>1
<1>5. x \in D[y] \/ y \in D[x]
    BY <1>2, Nested
<1>6. x = y
    BY <1>1, <1>2, <1>3, <1>4, <1>5
<1>7. way = way2
    BY <1>1, <1>2, <1>6, Apart
<1> QED
    BY <1>6, <1>7

LEMMA RootHasNone ==
    ASSUME NEW root, NEW N, NEW T, NEW L, NEW D, Shape(root, N, T, L, D),
           NEW x \in T, NEW way \in Ways
    PROVE  N[x].link[way] # 0 => N[x].link[way] # root
<1>1. x \in D[root]
    BY DEF Shape
<1>2. x \notin D[N[x].link[way]]
    BY Apart
<1> QED
    BY <1>1, <1>2

\* Every node below x but x itself has its parent there.
LEMMA ParentBelow ==
    ASSUME NEW root, NEW N, NEW T, NEW L, NEW D, Shape(root, N, T, L, D),
           NEW z \in T
    PROVE  \A x \in T : z \in D[x] /\ z # x =>
              \E y \in D[x], way \in Ways : y \in T /\ N[y].link[way] = z
<1> DEFINE P == {x \in T : z \in D[x] /\ z # x =>
                    \E y \in D[x], way \in Ways : y \in T /\ N[y].link[way] = z}
<1>1. ASSUME NEW x \in T, \A way \in Ways : N[x].link[way] # 0 => N[x].link[way] \in P
      PROVE  x \in P
    <2>1. ASSUME z \in D[x], z # x
          PROVE  \E y \in D[x], way \in Ways : y \in T /\ N[y].link[way] = z
        <3>1. PICK v \in Ways : z \in D[N[x].link[v]]
            BY <2>1 DEF Shape
        <3>2. CASE N[x].link[v] = z
            <4>1. x \in D[x]
                BY DEF Shape
            <4> QED BY <3>2, <4>1
        <3>3. CASE N[x].link[v] # z
            <4>1. N[x].link[v] # 0 /\ D[N[x].link[v]] \subseteq D[x]
                BY <3>1 DEF Shape
            <4>2. \E y \in D[N[x].link[v]], way \in Ways : y \in T /\ N[y].link[way] = z
                BY <1>1, <3>1, <3>3, <4>1
            <4> QED BY <4>1, <4>2
        <3> QED BY <3>2, <3>3
    <2> QED BY <2>1
<1>2. T \subseteq P
    <2> HIDE DEF P
    <2> QED BY <1>1, Downward
<1> QED
    BY <1>2

\* The nodes above a node are its parent and those above its parent.
LEMMA AboveLink ==
    ASSUME NEW root, NEW N, NEW T, NEW L, NEW D, Shape(root, N, T, L, D),
           NEW x \in T, NEW way \in Ways, NEW z, z = N[x].link[way], z # 0, NEW y \in T
    PROVE  z \in D[y] => y = z \/ x \in D[y]
<1>1. SUFFICES ASSUME z \in D[y], y # z PROVE x \in D[y]
    OBVIOUS
<1>2. z \in T
    BY DEF Shape
<1>3. PICK x2 \in D[y], way2 \in Ways : x2 \in T /\ N[x2].link[way2] = z
    BY <1>1, <1>2, ParentBelow
<1>4. x2 = x
    BY <1>3, OneParent
<1> QED
    BY <1>3, <1>4

\* The shape is in the characters and links of the tree's nodes alone.
LEMMA WayByCharacter ==
    ASSUME NEW n, NEW n2, n.c = n2.c, NEW s, NEW i
    PROVE  Way(n, s, i) = Way(n2, s, i)
BY DEF Way

LEMMA SameShape ==
    ASSUME NEW root, NEW N, NEW T, NEW L, NEW D, Shape(root, N, T, L, D),
           NEW N2, \A x \in T : N2[x].c = N[x].c /\ N2[x].link = N[x].link
    PROVE  Shape(root, N2, T, L, D)
<1>1. \A x \in T : \A s, i : Way(N2[x], s, i) = Way(N[x], s, i)
    BY WayByCharacter
<1>2. \A x \in T : /\ N2[x].c = L[x][Len(L[x])]
                   /\ x \in D[x]
                   /\ \A y \in T : y \in D[x] => y = x \/ \E way \in Ways : y \in D[N2[x].link[way]]
    <2>1. ASSUME NEW x \in T
          PROVE  /\ N[x].c = L[x][Len(L[x])]
                 /\ x \in D[x]
                 /\ \A y \in T : y \in D[x] => y = x \/ \E way \in Ways : y \in D[N[x].link[way]]
        BY DEF Shape
    <2> QED BY <2>1
<1>3. ASSUME NEW x \in T, NEW way \in Ways
      PROVE  /\ N2[x].link[way] \in T \cup {0}
             /\ D[N2[x].link[way]] \subseteq D[x]
             /\ N2[x].link[way] # 0 =>
                   Len(L[N2[x].link[way]]) = (IF way = "mid" THEN Len(L[x]) + 1 ELSE Len(L[x]))
             /\ \A y \in D[N2[x].link[way]] :
                   Agree(L[y], L[x]) /\ Way(N2[x], L[y], Len(L[x])) = way
    <2>1. /\ N[x].link[way] \in T \cup {0}
          /\ D[N[x].link[way]] \subseteq D[x]
          /\ N[x].link[way] # 0 =>
                Len(L[N[x].link[way]]) = (IF way = "mid" THEN Len(L[x]) + 1 ELSE Len(L[x]))
          /\ \A y \in D[N[x].link[way]] :
                Agree(L[y], L[x]) /\ Way(N[x], L[y], Len(L[x])) = way
        BY DEF Shape
    <2>2. N2[x].link[way] = N[x].link[way]
        OBVIOUS
    <2> QED BY <1>1, <2>1, <2>2
<1>4. /\ IsFiniteSet(T) /\ T \subseteq Nat \ {0}
      /\ L \in [T -> Key]
      /\ D \in [T \cup {0} -> SUBSET T]
      /\ root \in T \cup {0} /\ D[root] = T /\ D[0] = {}
      /\ root # 0 => Len(L[root]) = 1
    BY DEF Shape
<1> QED
    BY <1>2, <1>3, <1>4 DEF Shape

-----------------------------------------------------------------------------
(* Searching.                                                              *)

LEMMA WayIs ==
    ASSUME NEW root, NEW N, NEW T, NEW L, NEW D, Shape(root, N, T, L, D),
           NEW x \in T, NEW s \in Key, Agree(s, L[x])
    PROVE  /\ Len(L[x]) \in 1..Len(s) /\ Len(s) \in Nat
           /\ Way(N[x], s, Len(L[x])) \in Ways \cup {"value"}
           /\ Way(N[x], s, Len(L[x])) = "mid" => Len(L[x]) < Len(s)
           /\ Way(N[x], s, Len(L[x])) \in {"mid", "value"} => s[Len(L[x])] = L[x][Len(L[x])]
           /\ Way(N[x], s, Len(L[x])) = "value" => s = L[x]
<1>1. L[x] \in Key /\ N[x].c = L[x][Len(L[x])]
    BY NodeIs
<1>2. Len(L[x]) \in 1..Len(s) /\ Len(s) \in Nat /\ L[x][Len(L[x])] \in Int /\ s[Len(L[x])] \in Int
    BY <1>1 DEF Key, Agree
<1>3. /\ Way(N[x], s, Len(L[x])) \in Ways \cup {"value"}
      /\ Way(N[x], s, Len(L[x])) = "mid" => Len(L[x]) < Len(s)
      /\ Way(N[x], s, Len(L[x])) \in {"mid", "value"} => s[Len(L[x])] = L[x][Len(L[x])]
      /\ Way(N[x], s, Len(L[x])) = "value" => Len(L[x]) = Len(s)
    BY <1>1, <1>2 DEF Way, Ways
<1>4. ASSUME Way(N[x], s, Len(L[x])) = "value" PROVE s = L[x]
    <2>1. \A i \in 1..Len(s) : s[i] = L[x][i]
        BY <1>2, <1>3, <1>4 DEF Agree
    <2>2. s \in Seq(Int) /\ L[x] \in Seq(Int)
        BY <1>1 DEF Key
    <2> QED BY <1>3, <1>4, <2>1, <2>2, SeqEqual
<1> QED
    BY <1>2, <1>3, <1>4

\* x is a node that the search for s passes: its label and those above it
\* lead there.
OnWay(N, T, L, D, s, x) ==
    /\ x \in T
    /\ Agree(s, L[x])
    /\ \A y \in T : x \in D[y] /\ y # x =>
          /\ Way(N[y], s, Len(L[y])) \in Ways
          /\ x \in D[N[y].link[Way(N[y], s, Len(L[y]))]]

LEMMA RootOnWay ==
    ASSUME NEW root, NEW N, NEW T, NEW L, NEW D, Shape(root, N, T, L, D),
           NEW s \in Key, root # 0
    PROVE  OnWay(N, T, L, D, s, root)
<1>1. root \in T /\ Len(L[root]) = 1
    BY DEF Shape
<1>2. Agree(s, L[root])
    <2>1. Len(s) \in Nat /\ Len(s) # 0
        BY DEF Key
    <2> QED BY <1>1, <2>1 DEF Agree
<1>3. ASSUME NEW y \in T, root \in D[y], y # root PROVE FALSE
    <2>1. PICK x \in D[y], way \in Ways : x \in T /\ N[x].link[way] = root
        BY <1>1, <1>3, ParentBelow
    <2>2. root # 0
        OBVIOUS
    <2> QED BY <2>1, <2>2, RootHasNone
<1> QED
    BY <1>1, <1>2, <1>3 DEF OnWay

LEMMA OnwardOnWay ==
    ASSUME NEW root, NEW N, NEW T, NEW L, NEW D, Shape(root, N, T, L, D),
           NEW s \in Key, NEW x, OnWay(N, T, L, D, s, x),
           NEW way \in Ways, way = Way(N[x], s, Len(L[x])),
           NEW z, z = N[x].link[way], z # 0
    PROVE  /\ OnWay(N, T, L, D, s, z)
           /\ Len(L[z]) = (IF way = "mid" THEN Len(L[x]) + 1 ELSE Len(L[x]))
<1>1. x \in T /\ Agree(s, L[x])
    BY DEF OnWay
<1>2. z \in T
    BY <1>1 DEF Shape
<1>3. z \in D[z]
    BY <1>2 DEF Shape
<1>4. /\ Len(L[z]) = (IF way = "mid" THEN Len(L[x]) + 1 ELSE Len(L[x]))
      /\ Agree(L[z], L[x]) /\ Way(N[x], L[z], Len(L[x])) = way
    BY <1>1, <1>2, <1>3, LinkIs
<1>5. /\ Len(L[x]) \in 1..Len(s) /\ Len(s) \in Nat
      /\ way = "mid" => Len(L[x]) < Len(s) /\ s[Len(L[x])] = L[x][Len(L[x])]
    BY <1>1, WayIs
<1>6. way = "mid" => L[z][Len(L[x])] = L[x][Len(L[x])]
    <2>1. L[z] \in Key
        BY <1>2 DEF Shape
    <2> QED BY <1>1, <1>4, <2>1, WayIs
<1>7. Agree(s, L[z])
    <2>0. Len(L[z]) = IF way = "mid" THEN Len(L[x]) + 1 ELSE Len(L[x])
        BY <1>4
    <2>1. Len(s) >= Len(L[z])
        BY <1>5, <2>0
    <2>2. ASSUME NEW i \in 1..(Len(L[z]) - 1) PROVE s[i] = L[z][i]
        <3>1. CASE i \in 1..(Len(L[x]) - 1)
            BY <1>1, <1>4, <3>1 DEF Agree
        <3>2. CASE i \notin 1..(Len(L[x]) - 1)
            <4>1. way = "mid" /\ i = Len(L[x])
                BY <1>5, <2>0, <2>2, <3>2
            <4> QED BY <1>5, <1>6, <4>1
        <3> QED BY <3>1, <3>2
    <2> QED BY <2>1, <2>2 DEF Agree
<1>8. ASSUME NEW y \in T, z \in D[y], y # z
      PROVE  /\ Way(N[y], s, Len(L[y])) \in Ways
             /\ z \in D[N[y].link[Way(N[y], s, Len(L[y]))]]
    <2>1. CASE y = x
        BY <1>3, <2>1
    <2>2. CASE y # x
        <3>1. x \in D[y]
            BY <1>1, <1>8, AboveLink
        <3>2. PICK v \in Ways : v = Way(N[y], s, Len(L[y])) /\ x \in D[N[y].link[v]]
            BY <2>2, <3>1 DEF OnWay
        <3>3. N[y].link[v] \in T \cup {0}
            BY DEF Shape
        <3>4. D[x] \subseteq D[N[y].link[v]]
            BY <1>1, <3>2, <3>3, Within
        <3>5. z \in D[x]
            BY <1>1, <1>3 DEF Shape
        <3> QED BY <3>2, <3>4, <3>5
    <2> QED BY <2>1, <2>2
<1> QED
    BY <1>2, <1>4, <1>7, <1>8 DEF OnWay

\* If there is a node with the label s, the search stays above it.
LEMMA OnwardFinds ==
    ASSUME NEW root, NEW N, NEW T, NEW L, NEW D, Shape(root, N, T, L, D),
           NEW x \in T, NEW y \in T, y \in D[x]
    PROVE  /\ Agree(L[y], L[x])
           /\ Way(N[x], L[y], Len(L[x])) = "value" <=> y = x
           /\ y # x => /\ Way(N[x], L[y], Len(L[x])) \in Ways
                       /\ y \in D[N[x].link[Way(N[x], L[y], Len(L[x]))]]
<1>1. L[x] \in Key /\ N[x].c = L[x][Len(L[x])]
    BY NodeIs
<1>2. Len(L[x]) \in Nat /\ L[x][Len(L[x])] \in Int
    BY <1>1 DEF Key
<1>3. CASE y = x
    BY <1>1, <1>2, <1>3 DEF Way, Agree
<1>4. CASE y # x
    <2>1. PICK way \in Ways : y \in D[N[x].link[way]]
        BY <1>4 DEF Shape
    <2>2. Agree(L[y], L[x]) /\ Way(N[x], L[y], Len(L[x])) = way
        BY <2>1, LinkIs
    <2> QED BY <1>4, <2>1, <2>2 DEF Ways
<1> QED
    BY <1>3, <1>4

-----------------------------------------------------------------------------
(* The path of a search.                                                   *)

NodeOf(n) == [c : Int, link : [Ways -> 0..n], parent : 0..n, value : Values \cup {0}]

DbOf(n) == [root : 0..n, size : {n}, cap : Nat, fhead : 0..n, node : [0..n -> NodeOf(n)]]

Typed(d) == d.size \in Nat /\ d \in DbOf(d.size)

LEMMA TypedIs ==
    ASSUME NEW d, Typed(d)
    PROVE  /\ d.size \in Nat /\ d.root \in 0..d.size /\ d.fhead \in 0..d.size /\ d.cap \in Nat
           /\ d.node \in [0..d.size -> NodeOf(d.size)]
           /\ \A x \in 0..d.size :
                 /\ d.node[x] \in NodeOf(d.size)
                 /\ d.node[x].c \in Int /\ d.node[x].value \in Values \cup {0}
                 /\ d.node[x].parent \in 0..d.size
                 /\ d.node[x].link \in [Ways -> 0..d.size]
                 /\ \A way \in Ways : d.node[x].link[way] \in 0..d.size
<1>1. d \in [root : 0..d.size, size : {d.size}, cap : Nat, fhead : 0..d.size,
             node : [0..d.size -> NodeOf(d.size)]] /\ d.size \in Nat
    BY DEF Typed, DbOf
<1>2. d.node \in [0..d.size -> NodeOf(d.size)]
    BY <1>1
<1>3. ASSUME NEW x \in 0..d.size
      PROVE  d.node[x] \in [c : Int, link : [Ways -> 0..d.size], parent : 0..d.size,
                            value : Values \cup {0}]
    BY <1>2 DEF NodeOf
<1> QED
    BY <1>1, <1>2, <1>3 DEF NodeOf

Tree(d, T, L, D) ==
    /\ Typed(d) /\ d.size < d.cap /\ d.node[0] = Blank
    /\ T \subseteq 1..d.size
    /\ Shape(d.root, d.node, T, L, D)

\* A search begins at the root, goes on along its ways, and ends at the
\* node of its key or where there is no node.
OnPath(d, T, L, D, s, path) ==
    /\ path \in Seq([at : T, i : Nat]) /\ Len(path) \in 0..Cardinality(T)
    /\ path = << >> <=> d.root = 0
    /\ path # << >> => path[1].at = d.root
    /\ \A n \in 1..Len(path) :
          /\ path[n].at \in T
          /\ path[n].i = Len(L[path[n].at])
          /\ OnWay(d.node, T, L, D, s, path[n].at)
    /\ \A n \in 1..(Len(path) - 1) :
          /\ Way(d.node[path[n].at], s, path[n].i) \in Ways
          /\ path[n + 1] = Onward(d, s, path[n])

Ends(d, s, p) == Onward(d, s, p).at = 0

LEMMA OnwardIs ==
    ASSUME NEW d, Typed(d), NEW s \in Key,
           NEW p \in [at : 0..d.size, i : 1..Len(s)]
    PROVE  Onward(d, s, p) \in [at : 0..d.size, i : 1..Len(s)]
<1>1. p.at \in 0..d.size /\ p.i \in 1..Len(s) /\ Len(s) \in Nat
    BY DEF Key
<1>2. PICK way : way = Way(d.node[p.at], s, p.i)
    OBVIOUS
<1>3. d.node[p.at].c \in Int /\ s[p.i] \in Int
    BY <1>1, TypedIs DEF Key
<1>4. way \in Ways \cup {"value"} /\ (way = "mid" => p.i < Len(s))
    BY <1>2, <1>3 DEF Way, Ways
<1>5. way \in Ways => d.node[p.at].link[way] \in 0..d.size
    BY <1>1, TypedIs
<1>6. (IF way = "value" THEN 0 ELSE d.node[p.at].link[way]) \in 0..d.size
    <2>1. 0 \in 0..d.size
        BY TypedIs
    <2> QED BY <1>4, <1>5, <2>1
<1>7. (IF way = "mid" THEN p.i + 1 ELSE p.i) \in 1..Len(s)
    BY <1>1, <1>4
<1> QED
    BY <1>2, <1>6, <1>7 DEF Onward

\* A function that counts from 1.
CountsFromOne(f, s, step, n) == f = [j \in 1..n |-> IF j = 1 THEN s ELSE step[f[j - 1]]]

LEMMA CountedFromOne ==
    ASSUME NEW S, NEW s \in S, NEW n \in Nat, NEW step \in [S -> S]
    PROVE  \E f \in [1..n -> S] : CountsFromOne(f, s, step, n)
<1>1. PICK steps : steps = [j \in Nat |-> step]
    OBVIOUS
<1>2. steps \in [Nat -> [S -> S]]
    BY <1>1
<1>3. PICK g \in [0..n -> S] : Counts(g, s, steps, n)
    BY <1>2, CountedExists
<1>4. \A j \in 0..n : g[j] = IF j = 0 THEN s ELSE step[g[j - 1]]
    <2>1. ASSUME NEW j \in 0..n PROVE g[j] = IF j = 0 THEN s ELSE steps[j][g[j - 1]]
        BY <1>3 DEF Counts
    <2> QED BY <1>1, <2>1
<1>5. PICK f : f = [j \in 1..n |-> g[j - 1]]
    OBVIOUS
<1>6. f \in [1..n -> S]
    BY <1>5
<1>7. ASSUME NEW j \in 1..n PROVE f[j] = IF j = 1 THEN s ELSE step[f[j - 1]]
    <2>1. CASE j = 1
        BY <1>4, <1>5, <2>1
    <2>2. CASE j # 1
        <3>1. j - 1 \in 1..n /\ j - 1 \in 0..n /\ j - 1 # 0 /\ j - 1 - 1 \in 0..n
            BY <2>2
        <3>2. f[j] = g[j - 1] /\ f[j - 1] = g[j - 1 - 1]
            BY <1>5, <3>1
        <3> QED BY <1>4, <2>2, <3>1, <3>2
    <2> QED BY <2>1, <2>2
<1>8. f = [j \in 1..n |-> IF j = 1 THEN s ELSE step[f[j - 1]]]
    BY <1>6, <1>7
<1> QED
    BY <1>6, <1>8 DEF CountsFromOne

LEMMA VisitsAre ==
    ASSUME NEW d, Typed(d), NEW s \in Key
    PROVE  \E f \in [1..d.size -> [at : 0..d.size, i : 1..Len(s)]] :
              /\ \A n \in 1..d.size :
                    f[n] = IF n = 1 THEN Start(d)
                           ELSE IF f[n - 1].at = 0 THEN f[n - 1] ELSE Onward(d, s, f[n - 1])
              /\ Visits(d, s) = [n \in {j \in 1..d.size : f[j].at # 0} |-> f[n]]
<1> DEFINE C == [at : 0..d.size, i : 1..Len(s)]
           Is(f) == f = [n \in 1..d.size |->
                           IF n = 1 THEN Start(d)
                           ELSE LET p == f[n - 1] IN IF p.at = 0 THEN p ELSE Onward(d, s, p)]
<1>1. PICK step : step = [p \in C |-> IF p.at = 0 THEN p ELSE Onward(d, s, p)]
    OBVIOUS
<1>2. step \in [C -> C]
    <2>1. ASSUME NEW p \in C PROVE (IF p.at = 0 THEN p ELSE Onward(d, s, p)) \in C
        BY OnwardIs
    <2> QED BY <1>1, <2>1
<1>3. Start(d) \in C
    <2>1. Len(s) \in Nat /\ Len(s) # 0
        BY DEF Key
    <2>2. d.root \in 0..d.size /\ 1 \in 1..Len(s)
        BY <2>1, TypedIs
    <2> QED BY <2>2 DEF Start
<1>4. d.size \in Nat
    BY TypedIs
<1>5. ASSUME NEW f, Is(f) PROVE f \in [1..d.size -> C]
    <2>0. PICK g \in [1..d.size -> C] : CountsFromOne(g, Start(d), step, d.size)
        <3> HIDE DEF C, Is
        <3> QED BY <1>2, <1>3, <1>4, CountedFromOne
    <2>1. g = [j \in 1..d.size |-> IF j = 1 THEN Start(d) ELSE step[g[j - 1]]]
        BY <2>0 DEF CountsFromOne
    <2> DEFINE U == {n \in Nat : n \in 1..d.size => f[n] = g[n]}
    <2>2. 0 \in U
        OBVIOUS
    <2>3. ASSUME NEW n \in Nat, n \in U PROVE n + 1 \in U
        <3>1. SUFFICES ASSUME n + 1 \in 1..d.size PROVE f[n + 1] = g[n + 1]
            OBVIOUS
        <3>2. CASE n = 0
            BY <1>5, <2>1, <3>1, <3>2
        <3>3. CASE n # 0
            <4>1. n \in 1..d.size /\ n + 1 # 1 /\ n + 1 - 1 = n
                BY <1>4, <3>1, <3>3
            <4>2. f[n] = g[n] /\ g[n] \in C
                BY <2>1, <2>3, <4>1
            <4>3. f[n + 1] = IF f[n].at = 0 THEN f[n] ELSE Onward(d, s, f[n])
                BY <1>5, <3>1, <4>1
            <4>4. g[n + 1] = step[g[n]]
                BY <2>1, <3>1, <4>1
            <4> QED BY <1>1, <4>2, <4>3, <4>4
        <3> QED BY <3>2, <3>3
    <2>4. \A n \in Nat : n \in U
        <3> HIDE DEF U
        <3> QED BY <2>2, <2>3, Induction
    <2>5. \A n \in 1..d.size : f[n] = g[n]
        BY <1>4, <2>4
    <2>6. f = [n \in 1..d.size |-> f[n]]
        BY <1>5
    <2>7. \A n \in 1..d.size : f[n] \in C
        BY <2>1, <2>5
    <2> QED BY <2>6, <2>7
<1>6. \E f : Is(f)
    <2>0. PICK g \in [1..d.size -> C] : CountsFromOne(g, Start(d), step, d.size)
        <3> HIDE DEF C, Is
        <3> QED BY <1>2, <1>3, <1>4, CountedFromOne
    <2>1. g = [j \in 1..d.size |-> IF j = 1 THEN Start(d) ELSE step[g[j - 1]]]
        BY <2>0 DEF CountsFromOne
    <2>2. ASSUME NEW n \in 1..d.size
          PROVE  (IF n = 1 THEN Start(d) ELSE step[g[n - 1]])
                  = (IF n = 1 THEN Start(d)
                     ELSE IF g[n - 1].at = 0 THEN g[n - 1] ELSE Onward(d, s, g[n - 1]))
        <3>1. CASE n = 1
            BY <3>1
        <3>2. CASE n # 1
            <4>1. n - 1 \in 1..d.size
                BY <1>4, <3>2
            <4>2. g[n - 1] \in C
                BY <2>1, <4>1
            <4> QED BY <1>1, <3>2, <4>2
        <3> QED BY <3>1, <3>2
    <2>3. g = [n \in 1..d.size |->
                 IF n = 1 THEN Start(d)
                 ELSE IF g[n - 1].at = 0 THEN g[n - 1] ELSE Onward(d, s, g[n - 1])]
        BY <2>1, <2>2
    <2> QED BY <2>3
<1>7. Is(CHOOSE f : Is(f))
    <2> HIDE DEF Is
    <2> QED BY <1>6
<1>8. PICK f : f = (CHOOSE f_1 : Is(f_1))
    OBVIOUS
<1>9. Visits(d, s) = [n \in {j \in 1..d.size : f[j].at # 0} |-> f[n]]
    BY <1>8 DEF Visits
<1>10. Is(f)
    <2> HIDE DEF Is
    <2> QED BY <1>7, <1>8
<1>11. f \in [1..d.size -> C]
    <2> HIDE DEF Is
    <2> QED BY <1>5, <1>10
<1>12. \A n \in 1..d.size :
          f[n] = IF n = 1 THEN Start(d)
                 ELSE IF f[n - 1].at = 0 THEN f[n - 1] ELSE Onward(d, s, f[n - 1])
    BY <1>10
<1> QED
    BY <1>9, <1>11, <1>12

LEMMA OnwardStep ==
    ASSUME NEW d, NEW T, NEW L, NEW D, Shape(d.root, d.node, T, L, D),
           NEW s \in Key, NEW p, OnWay(d.node, T, L, D, s, p.at), p.i = Len(L[p.at]),
           Onward(d, s, p).at # 0
    PROVE  /\ Way(d.node[p.at], s, p.i) \in Ways
           /\ Onward(d, s, p).at = d.node[p.at].link[Way(d.node[p.at], s, p.i)]
           /\ Onward(d, s, p).at \in T
           /\ Onward(d, s, p).i = Len(L[Onward(d, s, p).at])
           /\ OnWay(d.node, T, L, D, s, Onward(d, s, p).at)
<1>1. PICK way : way = Way(d.node[p.at], s, p.i)
    OBVIOUS
<1>2. p.at \in T /\ Agree(s, L[p.at])
    BY DEF OnWay
<1>3. way \in Ways \cup {"value"}
    BY <1>1, <1>2, WayIs
<1>4. /\ Onward(d, s, p).at = IF way = "value" THEN 0 ELSE d.node[p.at].link[way]
      /\ Onward(d, s, p).i = IF way = "mid" THEN p.i + 1 ELSE p.i
    BY <1>1 DEF Onward
<1>5. way \in Ways /\ Onward(d, s, p).at = d.node[p.at].link[way]
    BY <1>3, <1>4
<1>6. PICK z : z = d.node[p.at].link[way]
    OBVIOUS
<1>7. z # 0 /\ z = Onward(d, s, p).at
    BY <1>5, <1>6
<1>8. OnWay(d.node, T, L, D, s, z) /\ Len(L[z]) = (IF way = "mid" THEN Len(L[p.at]) + 1 ELSE Len(L[p.at]))
    BY <1>1, <1>5, <1>6, <1>7, OnwardOnWay
<1>9. z \in T
    BY <1>8 DEF OnWay
<1> QED
    BY <1>1, <1>4, <1>5, <1>7, <1>8, <1>9

\* A list that is not 0 up to some place.
LEMMA UpTo ==
    ASSUME NEW n \in Nat, NEW Z, \A j \in 1..n : j # 1 /\ j \in Z => j - 1 \in Z
    PROVE  \E len \in 0..n : \A j \in 1..n : j \in Z <=> j <= len
<1> DEFINE U == {i \in Nat : i <= n => \E len \in 0..i : \A j \in 1..i : j \in Z <=> j <= len}
<1>1. 0 \in U
    OBVIOUS
<1>2. ASSUME NEW i \in Nat, i \in U PROVE i + 1 \in U
    <2>1. SUFFICES ASSUME i + 1 <= n
                   PROVE  \E len \in 0..(i + 1) : \A j \in 1..(i + 1) : j \in Z <=> j <= len
        OBVIOUS
    <2>2. PICK len \in 0..i : \A j \in 1..i : j \in Z <=> j <= len
        BY <1>2, <2>1
    <2>3. CASE i + 1 \in Z
        <3>1. i = len
            <4>1. CASE i = 0
                BY <4>1
            <4>2. CASE i # 0
                <5>1. i + 1 \in 1..n /\ i + 1 # 1 /\ i + 1 - 1 = i /\ i \in 1..i
                    BY <2>1, <4>2
                <5>2. i \in Z
                    BY <2>3, <5>1
                <5> QED BY <2>2, <5>1, <5>2
            <4> QED BY <4>1, <4>2
        <3>2. \A j \in 1..(i + 1) : j \in 1..i \/ j = i + 1
            OBVIOUS
        <3>3. \A j \in 1..(i + 1) : j \in Z <=> j <= i + 1
            BY <2>2, <2>3, <3>1, <3>2
        <3> QED BY <3>3
    <2>4. CASE i + 1 \notin Z
        <3>1. \A j \in 1..(i + 1) : j \in 1..i \/ j = i + 1
            OBVIOUS
        <3>2. \A j \in 1..(i + 1) : j \in Z <=> j <= len
            BY <2>2, <2>4, <3>1
        <3>3. len \in 0..(i + 1)
            BY <2>2
        <3> QED BY <3>2, <3>3
    <2> QED BY <2>3, <2>4
<1>3. n \in U
    <2> HIDE DEF U
    <2> QED BY <1>1, <1>2, Induction
<1> QED
    BY <1>3

LEMMA TreeSize ==
    ASSUME NEW d, NEW T, NEW L, NEW D, Tree(d, T, L, D)
    PROVE  /\ d.size \in Nat /\ Cardinality(T) \in Nat /\ Cardinality(T) <= d.size
           /\ IsFiniteSet(T)
<1>1. T \subseteq 1..d.size /\ Typed(d)
    BY DEF Tree
<1>2. d.size \in Nat
    BY <1>1, TypedIs
<1>3. IsFiniteSet(1..d.size) /\ Cardinality(1..d.size) = d.size
    BY <1>2, FS_Interval
<1>4. IsFiniteSet(T) /\ Cardinality(T) <= Cardinality(1..d.size)
    BY <1>1, <1>3, FS_Subset
<1> QED
    BY <1>2, <1>3, <1>4, FS_CardinalityType

LEMMA VisitsIs ==
    ASSUME NEW d, NEW T, NEW L, NEW D, Tree(d, T, L, D), NEW s \in Key
    PROVE  /\ OnPath(d, T, L, D, s, Visits(d, s))
           /\ Visits(d, s) # << >> => Ends(d, s, Visits(d, s)[Len(Visits(d, s))])
<1> DEFINE N == d.node
<1>1. Typed(d) /\ Shape(d.root, N, T, L, D) /\ T \subseteq 1..d.size
    BY DEF Tree
<1>2. PICK f \in [1..d.size -> [at : 0..d.size, i : 1..Len(s)]] :
         /\ \A n \in 1..d.size :
               f[n] = IF n = 1 THEN Start(d)
                      ELSE IF f[n - 1].at = 0 THEN f[n - 1] ELSE Onward(d, s, f[n - 1])
         /\ Visits(d, s) = [n \in {j \in 1..d.size : f[j].at # 0} |-> f[n]]
    BY <1>1, VisitsAre
<1>3. PICK rank \in [T -> 1..Cardinality(T)] : \A x \in T, way \in Ways :
         N[x].link[way] # 0 => rank[N[x].link[way]] < rank[x]
    BY <1>1, Rank
<1>4. d.size \in Nat /\ Cardinality(T) \in Nat /\ Cardinality(T) <= d.size
    BY TreeSize
<1> DEFINE Good(n) == /\ f[n].at \in T /\ f[n].i = Len(L[f[n].at])
                      /\ OnWay(N, T, L, D, s, f[n].at)
                      /\ rank[f[n].at] <= Cardinality(T) - n + 1
           Next2(n) == /\ f[n - 1].at # 0 /\ f[n] = Onward(d, s, f[n - 1])
                       /\ Way(N[f[n - 1].at], s, f[n - 1].i) \in Ways
           U == {n \in Nat : n \in 1..d.size /\ f[n].at # 0 => Good(n) /\ (n # 1 => Next2(n))}
<1>5. ASSUME NEW p, OnWay(N, T, L, D, s, p.at), p.i = Len(L[p.at]), Onward(d, s, p).at # 0
      PROVE  /\ Way(N[p.at], s, p.i) \in Ways
             /\ Onward(d, s, p).at \in T
             /\ Onward(d, s, p).i = Len(L[Onward(d, s, p).at])
             /\ OnWay(N, T, L, D, s, Onward(d, s, p).at)
             /\ rank[Onward(d, s, p).at] < rank[p.at]
    <2>1. /\ Way(N[p.at], s, p.i) \in Ways
          /\ Onward(d, s, p).at = N[p.at].link[Way(N[p.at], s, p.i)]
          /\ Onward(d, s, p).at \in T
          /\ Onward(d, s, p).i = Len(L[Onward(d, s, p).at])
          /\ OnWay(N, T, L, D, s, Onward(d, s, p).at)
        BY <1>1, <1>5, OnwardStep
    <2>2. p.at \in T
        BY <1>5 DEF OnWay
    <2>3. rank[Onward(d, s, p).at] < rank[p.at]
        BY <1>3, <1>5, <2>1, <2>2
    <2> QED BY <2>1, <2>3
<1>6. 0 \in U
    OBVIOUS
<1>7. ASSUME NEW n \in Nat, n \in U PROVE n + 1 \in U
    <2>1. SUFFICES ASSUME n + 1 \in 1..d.size, f[n + 1].at # 0
                   PROVE  Good(n + 1) /\ (n + 1 # 1 => Next2(n + 1))
        OBVIOUS
    <2>2. CASE n = 0
        <3>1. f[n + 1] = Start(d)
            BY <1>2, <2>1, <2>2
        <3>2. f[n + 1].at = d.root /\ f[n + 1].i = 1
            BY <3>1 DEF Start
        <3>3. d.root \in T /\ Len(L[d.root]) = 1
            BY <1>1, <2>1, <3>2 DEF Shape
        <3>4. OnWay(N, T, L, D, s, d.root)
            BY <1>1, <2>1, <3>2, RootOnWay
        <3>5. rank[d.root] <= Cardinality(T) - (n + 1) + 1
            BY <1>3, <1>4, <2>2, <3>3
        <3> QED BY <2>2, <3>2, <3>3, <3>4, <3>5
    <2>3. CASE n # 0
        <3>1. n \in 1..d.size /\ n + 1 # 1 /\ n + 1 - 1 = n
            BY <1>4, <2>1, <2>3
        <3>2. f[n + 1] = IF f[n].at = 0 THEN f[n] ELSE Onward(d, s, f[n])
            BY <1>2, <2>1, <3>1
        <3>3. f[n].at # 0 /\ f[n + 1] = Onward(d, s, f[n])
            BY <2>1, <3>2
        <3>4. Good(n)
            BY <1>7, <3>1, <3>3
        <3>5. Onward(d, s, f[n]).at # 0
            BY <2>1, <3>3
        <3>6. /\ Way(N[f[n].at], s, f[n].i) \in Ways
              /\ f[n + 1].at \in T /\ f[n + 1].i = Len(L[f[n + 1].at])
              /\ OnWay(N, T, L, D, s, f[n + 1].at)
              /\ rank[f[n + 1].at] < rank[f[n].at]
            BY <1>5, <3>3, <3>4, <3>5
        <3>7. rank[f[n + 1].at] <= Cardinality(T) - (n + 1) + 1
            <4>1. rank[f[n + 1].at] \in Nat /\ rank[f[n].at] \in Nat
                BY <1>3, <3>4, <3>6
            <4> QED BY <1>4, <3>4, <3>6, <4>1
        <3> QED BY <3>1, <3>3, <3>6, <3>7
    <2> QED BY <2>2, <2>3
<1>8. ASSUME NEW n \in 1..d.size, f[n].at # 0 PROVE Good(n) /\ (n # 1 => Next2(n))
    <2>1. \A i \in Nat : i \in U
        <3> HIDE DEF U
        <3> QED BY <1>6, <1>7, Induction
    <2>2. n \in U
        BY <2>1
    <2> QED BY <1>8, <2>2
<1> DEFINE Z == {j \in 1..d.size : f[j].at # 0}
<1>9. PICK len \in 0..d.size : \A j \in 1..d.size : j \in Z <=> j <= len
    <2>1. ASSUME NEW j \in 1..d.size, j # 1, j \in Z PROVE j - 1 \in Z
        <3>1. j - 1 \in 1..d.size
            BY <1>4, <2>1
        <3> QED BY <1>8, <2>1, <3>1
    <2> HIDE DEF Z
    <2> QED BY <1>4, <2>1, UpTo
<1>10. Z = 1..len
    BY <1>4, <1>9
<1>11. PICK path : path = Visits(d, s)
    OBVIOUS
<1>12. path = [n \in 1..len |-> f[n]]
    BY <1>2, <1>10, <1>11
<1>13. \A n \in 1..len : n \in 1..d.size /\ f[n].at # 0 /\ path[n] = f[n] /\ Good(n) /\ (n # 1 => Next2(n))
    <2>1. ASSUME NEW n \in 1..len PROVE n \in 1..d.size /\ f[n].at # 0 /\ path[n] = f[n]
        BY <1>4, <1>10, <1>12
    <2> QED BY <1>8, <2>1
<1>14. path \in Seq([at : T, i : Nat]) /\ Len(path) = len
    <2>1. ASSUME NEW n \in 1..len PROVE f[n] \in [at : T, i : Nat]
        <3>1. f[n] \in [at : 0..d.size, i : 1..Len(s)] /\ f[n].at \in T
            BY <1>2, <1>13
        <3>2. Len(s) \in Nat
            BY DEF Key
        <3> QED BY <3>1, <3>2
    <2>2. len \in Nat
        BY <1>4
    <2>3. path \in [1..len -> [at : T, i : Nat]]
        BY <1>12, <2>1
    <2> HIDE DEF Good, Next2, U, Z, N
    <2>4. path \in Seq([at : T, i : Nat])
        <3>1. PICK S : S = [at : T, i : Nat]
            OBVIOUS
        <3>2. path \in [1..len -> S]
            BY <2>3, <3>1
        <3>3. path \in Seq(S)
            BY <2>2, <3>2, SeqDef
        <3> QED BY <3>1, <3>3
    <2>5. 1..Len(path) = 1..len /\ Len(path) \in Nat
        BY <2>3, <2>4, LenProperties
    <2> QED BY <2>2, <2>4, <2>5
<1>15. len \in 0..Cardinality(T)
    <2>1. CASE len # 0
        <3>1. len \in 1..len
            BY <1>4, <2>1
        <3>2. f[len].at \in T /\ rank[f[len].at] <= Cardinality(T) - len + 1
            BY <1>13, <3>1
        <3>3. rank[f[len].at] \in 1..Cardinality(T)
            BY <1>3, <3>2
        <3> QED BY <1>4, <3>2, <3>3
    <2> QED BY <1>4, <2>1
<1>16. path = << >> <=> len = 0
    BY <1>14
<1>17. len = 0 <=> d.root = 0
    <2>1. CASE d.size = 0
        <3>1. d.root = 0
            BY <1>1, <2>1, TypedIs
        <3> QED BY <1>9, <2>1, <3>1
    <2>2. CASE d.size # 0
        <3>1. 1 \in 1..d.size
            BY <1>4, <2>2
        <3>2. f[1].at = d.root
            BY <1>2, <3>1 DEF Start
        <3> QED BY <1>9, <3>1, <3>2
    <2> QED BY <2>1, <2>2
<1>18. path # << >> => path[1].at = d.root
    <2>1. ASSUME path # << >> PROVE path[1].at = d.root
        <3>1. 1 \in 1..len
            BY <1>16, <2>1
        <3>2. path[1] = Start(d)
            BY <1>2, <1>13, <3>1
        <3> QED BY <3>2 DEF Start
    <2> QED BY <2>1
<1>19. ASSUME NEW n \in 1..(len - 1)
       PROVE  Way(N[path[n].at], s, path[n].i) \in Ways /\ path[n + 1] = Onward(d, s, path[n])
    <2>1. n \in 1..len /\ n + 1 \in 1..len /\ n + 1 # 1 /\ n + 1 - 1 = n
        BY <1>4
    <2>2. path[n] = f[n] /\ path[n + 1] = f[n + 1]
        BY <1>13, <2>1
    <2>3. Next2(n + 1)
        BY <1>13, <2>1
    <2> QED BY <2>1, <2>2, <2>3
<1>20. ASSUME path # << >> PROVE Onward(d, s, path[len]).at = 0
    <2>1. len \in 1..len
        BY <1>4, <1>16, <1>20
    <2>2. Good(len) /\ path[len] = f[len]
        BY <1>13, <2>1
    <2>3. CASE len = d.size
        <3>1. SUFFICES ASSUME Onward(d, s, f[len]).at # 0 PROVE FALSE
            BY <2>2
        <3>2. /\ Onward(d, s, f[len]).at \in T
              /\ rank[Onward(d, s, f[len]).at] < rank[f[len].at]
            BY <1>5, <2>2, <3>1
        <3>3. rank[Onward(d, s, f[len]).at] \in 1..Cardinality(T) /\ rank[f[len].at] \in 1..Cardinality(T)
            BY <1>3, <2>2, <3>2
        <3>4. rank[f[len].at] <= 1
            BY <1>4, <2>2, <2>3, <3>3
        <3> QED BY <3>2, <3>3, <3>4
    <2>4. CASE len # d.size
        <3>0. len \in Nat /\ len # 0 /\ len <= d.size
            BY <1>4, <2>1
        <3>1. len + 1 \in 1..d.size /\ len + 1 # 1 /\ len + 1 - 1 = len /\ ~ (len + 1 <= len)
            BY <1>4, <2>4, <3>0
        <3>2. f[len + 1].at = 0
            BY <1>9, <3>1
        <3>3. f[len + 1] = IF f[len].at = 0 THEN f[len] ELSE Onward(d, s, f[len])
            BY <1>2, <3>1
        <3>4. f[len].at # 0
            BY <1>13, <2>1
        <3> QED BY <2>2, <3>2, <3>3, <3>4
    <2> QED BY <2>3, <2>4
<1> QED
    <2>1. \A n \in 1..Len(path) :
             /\ path[n].at \in T
             /\ path[n].i = Len(L[path[n].at])
             /\ OnWay(d.node, T, L, D, s, path[n].at)
        BY <1>13, <1>14
    <2>2. OnPath(d, T, L, D, s, path)
        BY <1>14, <1>15, <1>16, <1>17, <1>18, <1>19, <2>1 DEF OnPath
    <2> QED BY <1>11, <1>14, <1>20, <2>2 DEF Ends

LEMMA PathIs ==
    ASSUME NEW d, NEW T, NEW L, NEW D, Tree(d, T, L, D), NEW s \in Key,
           NEW path, OnPath(d, T, L, D, s, path)
    PROVE  /\ Len(path) \in Nat /\ DOMAIN path = 1..Len(path)
           /\ path # << >> => Len(path) \in 1..Len(path)
           /\ \A n \in 1..Len(path) :
                 /\ path[n].at \in T /\ path[n].at # 0
                 /\ OnWay(d.node, T, L, D, s, path[n].at)
                 /\ Agree(s, L[path[n].at]) /\ path[n].i = Len(L[path[n].at])
           /\ \A n \in 1..(Len(path) - 1) :
                 /\ n \in 1..Len(path) /\ n + 1 \in 1..Len(path)
                 /\ Way(d.node[path[n].at], s, path[n].i) \in Ways
                 /\ path[n + 1].at = d.node[path[n].at].link[Way(d.node[path[n].at], s, path[n].i)]
<1>1. path \in Seq([at : T, i : Nat]) /\ T \subseteq 1..d.size
    BY DEF OnPath, Tree
<1>2. Len(path) \in Nat /\ (path # << >> => Len(path) # 0) /\ DOMAIN path = 1..Len(path)
    <2>1. PICK R : R = [at : T, i : Nat]
        OBVIOUS
    <2>2. path \in Seq(R)
        BY <1>1, <2>1
    <2> QED BY <2>2
<1>3. ASSUME NEW n \in 1..Len(path)
      PROVE  /\ path[n].at \in T /\ path[n].at # 0
             /\ OnWay(d.node, T, L, D, s, path[n].at)
             /\ Agree(s, L[path[n].at]) /\ path[n].i = Len(L[path[n].at])
    <2>1. path[n].at \in T /\ OnWay(d.node, T, L, D, s, path[n].at) /\ path[n].i = Len(L[path[n].at])
        BY DEF OnPath
    <2> QED BY <1>1, <2>1 DEF OnWay
<1>4. ASSUME NEW n \in 1..(Len(path) - 1)
      PROVE  /\ n \in 1..Len(path) /\ n + 1 \in 1..Len(path)
             /\ Way(d.node[path[n].at], s, path[n].i) \in Ways
             /\ path[n + 1].at = d.node[path[n].at].link[Way(d.node[path[n].at], s, path[n].i)]
    <2>1. n \in 1..Len(path) /\ n + 1 \in 1..Len(path)
        BY <1>2
    <2>2. /\ Way(d.node[path[n].at], s, path[n].i) \in Ways
          /\ path[n + 1] = Onward(d, s, path[n])
        BY DEF OnPath
    <2>3. Way(d.node[path[n].at], s, path[n].i) # "value"
        BY <2>2 DEF Ways
    <2> QED BY <2>1, <2>2, <2>3 DEF Onward
<1> QED
    BY <1>2, <1>3, <1>4

\* search finds the node of its key, if there is one.
LEMMA FindIs ==
    ASSUME NEW d, NEW T, NEW L, NEW D, Tree(d, T, L, D), NEW s \in Key
    PROVE  /\ Find(d, s) # 0 => /\ Find(d, s) \in T /\ L[Find(d, s)] = s
                                /\ Visits(d, s) # << >>
                                /\ Find(d, s) = Visits(d, s)[Len(Visits(d, s))].at
           /\ \A y \in T : L[y] = s => Find(d, s) = y
           /\ Visits(d, s) # << >> =>
                 (Way(d.node[Visits(d, s)[Len(Visits(d, s))].at], s,
                      Visits(d, s)[Len(Visits(d, s))].i) = "value" <=> Find(d, s) # 0)
<1>1. Shape(d.root, d.node, T, L, D)
    BY DEF Tree
<1>2. PICK path : path = Visits(d, s)
    OBVIOUS
<1>3. OnPath(d, T, L, D, s, path) /\ (path # << >> => Ends(d, s, path[Len(path)]))
    BY <1>2, VisitsIs
<1>4. CASE path = << >>
    <2>1. d.root = 0
        BY <1>3, <1>4 DEF OnPath
    <2>2. T = {}
        BY <1>1, <2>1 DEF Shape
    <2>3. Find(d, s) = 0
        BY <1>2, <1>4 DEF Find
    <2> QED BY <1>2, <1>4, <2>2, <2>3
<1>5. CASE path # << >>
    <2>1. PICK end : end = path[Len(path)]
        OBVIOUS
    <2>2. /\ end.at \in T /\ end.at # 0 /\ Agree(s, L[end.at]) /\ end.i = Len(L[end.at])
          /\ Len(path) \in 1..Len(path) /\ Len(path) \in Nat
        BY <1>3, <1>5, <2>1, PathIs
    <2>3. PICK way : way = Way(d.node[end.at], s, end.i)
        OBVIOUS
    <2>4. way \in Ways \cup {"value"} /\ (way = "value" => s = L[end.at])
        BY <1>1, <2>2, <2>3, WayIs
    <2>5. Find(d, s) = IF way = "value" THEN end.at ELSE 0
        BY <1>2, <1>5, <2>1, <2>3 DEF Find
    <2>6. ASSUME NEW y \in T, L[y] = s PROVE Find(d, s) = y
        <3> DEFINE U == {n \in Nat : n \in 1..Len(path) => y \in D[path[n].at]}
        <3>1. 0 \in U
            OBVIOUS
        <3>2. ASSUME NEW n \in Nat, n \in U PROVE n + 1 \in U
            <4>1. SUFFICES ASSUME n + 1 \in 1..Len(path) PROVE y \in D[path[n + 1].at]
                OBVIOUS
            <4>2. CASE n = 0
                <5>1. path[n + 1].at = d.root /\ D[d.root] = T
                    BY <1>1, <1>3, <1>5, <4>2 DEF OnPath, Shape
                <5> QED BY <5>1
            <4>3. CASE n # 0
                <5>1. n \in 1..(Len(path) - 1)
                    BY <2>2, <4>1, <4>3
                <5>2. /\ n \in 1..Len(path)
                      /\ Way(d.node[path[n].at], s, path[n].i) \in Ways
                      /\ path[n + 1].at = d.node[path[n].at].link[Way(d.node[path[n].at], s, path[n].i)]
                    BY <1>3, <5>1, PathIs
                <5>3. path[n].at \in T /\ path[n].i = Len(L[path[n].at])
                    BY <1>3, <5>2, PathIs
                <5>4. y \in D[path[n].at]
                    BY <3>2, <5>2
                <5>5. Way(d.node[path[n].at], s, path[n].i) # "value"
                    BY <5>2 DEF Ways
                <5> QED BY <1>1, <2>6, <5>2, <5>3, <5>4, <5>5, OnwardFinds
            <4> QED BY <4>2, <4>3
        <3>3. \A n \in Nat : n \in U
            <4> HIDE DEF U
            <4> QED BY <3>1, <3>2, Induction
        <3>4. y \in D[end.at]
            BY <2>1, <2>2, <3>3
        <3>5. way = "value"
            <4>1. CASE y = end.at
                BY <1>1, <2>2, <2>3, <2>6, <3>4, <4>1, OnwardFinds
            <4>2. CASE y # end.at
                <5>1. way \in Ways /\ y \in D[d.node[end.at].link[way]]
                    BY <1>1, <2>2, <2>3, <2>6, <3>4, <4>2, OnwardFinds
                <5>2. d.node[end.at].link[way] # 0
                    BY <1>1, <5>1 DEF Shape
                <5>3. way # "value"
                    BY <5>1 DEF Ways
                <5>4. Onward(d, s, end).at = d.node[end.at].link[way]
                    BY <2>3, <5>3 DEF Onward
                <5> QED BY <1>3, <1>5, <2>1, <5>2, <5>4 DEF Ends
            <4> QED BY <4>1, <4>2
        <3>6. L[end.at] = L[y]
            BY <2>4, <2>6, <3>5
        <3>7. end.at = y
            BY <1>1, <2>2, <3>6, LabelsDiffer
        <3> QED BY <2>5, <3>5, <3>7
    <2> QED BY <1>2, <1>5, <2>1, <2>2, <2>3, <2>4, <2>5, <2>6
<1> QED
    BY <1>4, <1>5

-----------------------------------------------------------------------------
(* Taking nodes and giving them back.                                      *)

\* F is the list of the freed nodes, which are those outside the tree.
FreeList(d, T, F) ==
    /\ F \in Seq(1..d.size)
    /\ d.fhead = IF F = << >> THEN 0 ELSE F[1]
    /\ \A i \in 1..Len(F) :
          d.node[F[i]].link["mid"] = IF i = Len(F) THEN 0 ELSE F[i + 1]
    /\ \A i, j \in 1..Len(F) : F[i] = F[j] => i = j
    /\ \A x \in 1..d.size : x \in T <=> \A i \in 1..Len(F) : F[i] # x

LEMMA BlankIs ==
    /\ \A n \in Nat : Blank \in NodeOf(n)
    /\ Blank.c = 0 /\ Blank.parent = 0 /\ Blank.value = 0
    /\ \A way \in Ways : Blank.link[way] = 0
<1>1. PICK l : l = [way \in Ways |-> 0]
    OBVIOUS
<1>2. Blank = [c |-> 0, link |-> l, parent |-> 0, value |-> 0]
    BY <1>1 DEF Blank
<1>3. ASSUME NEW n \in Nat PROVE l \in [Ways -> 0..n]
    BY <1>1
<1>4. ASSUME NEW n \in Nat PROVE Blank \in NodeOf(n)
    BY <1>2, <1>3 DEF NodeOf
<1>5. \A way \in Ways : l[way] = 0
    BY <1>1
<1> QED
    BY <1>2, <1>4, <1>5

\* A node of a small array is a node of a larger one.
LEMMA NodeGrows ==
    ASSUME NEW n \in Nat, NEW n2 \in Nat, n <= n2
    PROVE  \A x \in NodeOf(n) : x \in NodeOf(n2)
<1>1. 0..n \subseteq 0..n2
    OBVIOUS
<1>2. [Ways -> 0..n] \subseteq [Ways -> 0..n2]
    BY <1>1
<1> QED
    BY <1>1, <1>2 DEF NodeOf

\* What is the same when a node has been handed out.
Taken(d, e, x) ==
    /\ Typed(e) /\ e.size < e.cap /\ e.node[0] = Blank
    /\ e.root = d.root /\ d.size <= e.size
    /\ x \in 1..e.size /\ e.node[x] = Blank
    /\ \A y \in 0..d.size : y # x => e.node[y] = d.node[y]

\* The first of the list.
LEMMA FreeListHead ==
    ASSUME NEW d, NEW T, NEW F, FreeList(d, T, F)
    PROVE  /\ F = << >> <=> d.fhead = 0
           /\ F # << >> => /\ 1 \in 1..Len(F) /\ d.fhead = F[1] /\ F[1] \in 1..d.size
           /\ \A i \in 1..Len(F) : F[i] \in 1..d.size /\ F[i] # 0
<1>1. F \in Seq(1..d.size) /\ Len(F) \in Nat
    BY DEF FreeList
<1>2. ASSUME NEW i \in 1..Len(F) PROVE F[i] \in 1..d.size
    <2>1. PICK S : S = 1..d.size
        OBVIOUS
    <2>2. F \in Seq(S)
        BY <1>1, <2>1
    <2>3. F[i] \in S
        BY <2>2
    <2> QED BY <2>1, <2>3
<1>3. F # << >> => 1 \in 1..Len(F)
    BY <1>1
<1>4. d.fhead = IF F = << >> THEN 0 ELSE F[1]
    BY DEF FreeList
<1>5. 0 \notin 1..d.size
    OBVIOUS
<1> QED
    BY <1>2, <1>3, <1>4, <1>5

LEMMA NewNodeIs ==
    ASSUME NEW d, NEW T, NEW L, NEW D, Tree(d, T, L, D), NEW F, FreeList(d, T, F)
    PROVE  /\ Taken(d, NewNode(d).db, NewNode(d).at)
           /\ NewNode(d).at \notin T
           /\ \E F2 : FreeList(NewNode(d).db, T \cup {NewNode(d).at}, F2)
<1>0. /\ Typed(d) /\ d.size < d.cap /\ d.node[0] = Blank /\ d.size \in Nat /\ d.cap \in Nat
      /\ d.root \in 0..d.size /\ d.fhead \in 0..d.size /\ d.node \in [0..d.size -> NodeOf(d.size)]
      /\ d \in [root : 0..d.size, size : {d.size}, cap : Nat, fhead : 0..d.size,
                node : [0..d.size -> NodeOf(d.size)]]
      /\ T \subseteq 1..d.size
    BY TypedIs DEF Tree, Typed, DbOf
<1>01. F \in Seq(1..d.size) /\ Len(F) \in Nat
    BY DEF FreeList
<1>1. CASE d.fhead = 0
    <2>1. PICK n : n = d.size + 1
        OBVIOUS
    <2>2. PICK cap : cap = IF IsFull(d) THEN 2 * d.cap ELSE d.cap
        OBVIOUS
    <2>3. PICK N : N = [x \in 0..n |-> IF x = n THEN Blank ELSE d.node[x]]
        OBVIOUS
    <2>4. PICK e : e = [d EXCEPT !.size = n, !.cap = cap, !.node = N]
        OBVIOUS
    <2>5. NewNode(d) = [at |-> n, db |-> e]
        BY <1>1, <2>1, <2>2, <2>3, <2>4 DEF NewNode
    <2>6. /\ e.size = n /\ e.cap = cap /\ e.node = N /\ e.root = d.root /\ e.fhead = 0
          /\ e = [root |-> d.root, size |-> n, cap |-> cap, fhead |-> 0, node |-> N]
        BY <1>0, <1>1, <2>4
    <2>7. n \in Nat /\ cap \in Nat /\ n < cap
        BY <1>0, <2>1, <2>2 DEF IsFull
    <2>8. DOMAIN N = 0..n /\ N[n] = Blank /\ \A y \in 0..d.size : N[y] = d.node[y]
        <3>1. \A y \in 0..d.size : y \in 0..n /\ y # n
            BY <1>0, <2>1
        <3> QED BY <2>3, <2>7, <3>1
    <2>9. N \in [0..n -> NodeOf(n)]
        <3>2. ASSUME NEW y \in 0..n PROVE N[y] \in NodeOf(n)
            <4>1. CASE y = n
                BY <2>7, <2>8, <4>1, BlankIs
            <4>2. CASE y # n
                <5>1. y \in 0..d.size /\ d.size <= n
                    BY <1>0, <2>1, <4>2
                <5> QED BY <1>0, <2>7, <2>8, <5>1, NodeGrows
            <4> QED BY <4>1, <4>2
        <3> QED BY <2>3, <3>2
    <2>10. Typed(e)
        <3>1. d.root \in 0..n /\ 0 \in 0..n /\ n \in {n}
            BY <1>0, <2>1
        <3> QED BY <2>6, <2>7, <2>9, <3>1 DEF Typed, DbOf
    <2>11. Taken(d, e, n)
        <3>1. 0 \in 0..d.size /\ n \in 1..n /\ d.size <= n
            BY <1>0, <2>1
        <3> QED BY <1>0, <2>6, <2>7, <2>8, <2>10, <3>1 DEF Taken
    <2>12. n \notin T
        BY <1>0, <2>1
    <2>13. F = << >>
        BY <1>1, FreeListHead
    <2>14. FreeList(e, T \cup {n}, << >>)
        <3>1. \A x \in 1..d.size : x \in T
            BY <2>13 DEF FreeList
        <3>2. \A x \in 1..n : x \in T \cup {n}
            BY <1>0, <2>1, <3>1
        <3> QED BY <2>6, <3>2 DEF FreeList
    <2> QED BY <2>5, <2>11, <2>12, <2>14
<1>2. CASE d.fhead # 0
    <2>1. PICK n : n = d.fhead
        OBVIOUS
    <2>2. F # << >> /\ n = F[1] /\ 1 \in 1..Len(F) /\ n \in 1..d.size
        BY <1>2, <2>1, FreeListHead
    <2>3. PICK next : next = d.node[n].link["mid"]
        OBVIOUS
    <2>4. PICK e : e = [d EXCEPT !.fhead = next, !.node[n] = Blank]
        OBVIOUS
    <2>5. NewNode(d) = [at |-> n, db |-> e]
        BY <1>2, <2>1, <2>3, <2>4 DEF NewNode
    <2>6. PICK N : N = [d.node EXCEPT ![n] = Blank]
        OBVIOUS
    <2>7. /\ e.size = d.size /\ e.cap = d.cap /\ e.node = N /\ e.root = d.root /\ e.fhead = next
          /\ e = [root |-> d.root, size |-> d.size, cap |-> d.cap, fhead |-> next, node |-> N]
        BY <1>0, <2>4, <2>6
    <2>8. N[n] = Blank /\ \A y \in 0..d.size : y # n => N[y] = d.node[y]
        BY <1>0, <2>2, <2>6
    <2>9. N \in [0..d.size -> NodeOf(d.size)]
        BY <1>0, <2>6, BlankIs
    <2>10. next \in 0..d.size
        <3>1. n \in 0..d.size
            BY <1>0, <2>2
        <3> QED BY <1>0, <2>3, <3>1, TypedIs DEF Ways
    <2>11. Typed(e)
        BY <1>0, <2>7, <2>9, <2>10 DEF Typed, DbOf
    <2>12. Taken(d, e, n)
        <3>1. 0 \in 0..d.size /\ 0 # n
            BY <1>0, <2>2
        <3>2. e.node[0] = Blank
            BY <1>0, <2>7, <2>8, <3>1
        <3> QED BY <1>0, <2>2, <2>7, <2>8, <2>11, <3>2 DEF Taken
    <2>13. n \notin T
        BY <2>2 DEF FreeList
    <2>14. PICK G : G = Tail(F)
        OBVIOUS
    <2>15. /\ G \in Seq(1..d.size) /\ Len(G) = Len(F) - 1
           /\ \A i \in 1..Len(G) : G[i] = F[i + 1] /\ i + 1 \in 1..Len(F)
        BY <1>01, <2>2, <2>14
    <2>16. FreeList(e, T \cup {n}, G)
        <3>1. next = IF G = << >> THEN 0 ELSE G[1]
            <4>1. next = IF 1 = Len(F) THEN 0 ELSE F[1 + 1]
                BY <2>2, <2>3 DEF FreeList
            <4>2. G = << >> <=> Len(F) = 1
                BY <1>01, <2>2, <2>15
            <4>3. G # << >> => G[1] = F[2]
                BY <1>01, <2>2, <2>15
            <4> QED BY <4>1, <4>2, <4>3
        <3>2. ASSUME NEW i \in 1..Len(G) PROVE G[i] # n /\ G[i] \in 1..d.size
            <4>1. i + 1 \in 1..Len(F) /\ i + 1 # 1 /\ G[i] = F[i + 1]
                BY <1>01, <2>15
            <4>2. F[i + 1] # F[1]
                BY <2>2, <4>1 DEF FreeList
            <4>3. F[i + 1] \in 1..d.size
                BY <4>1, FreeListHead
            <4> QED BY <2>2, <4>1, <4>2, <4>3
        <3>3. ASSUME NEW i \in 1..Len(G)
              PROVE  N[G[i]].link["mid"] = IF i = Len(G) THEN 0 ELSE G[i + 1]
            <4>1. i + 1 \in 1..Len(F) /\ G[i] = F[i + 1] /\ (i = Len(G) <=> i + 1 = Len(F))
                BY <1>01, <2>15
            <4>2. N[G[i]] = d.node[F[i + 1]]
                <5>1. G[i] \in 0..d.size
                    BY <1>0, <3>2
                <5> QED BY <2>8, <3>2, <4>1, <5>1
            <4>3. d.node[F[i + 1]].link["mid"] = IF i + 1 = Len(F) THEN 0 ELSE F[i + 1 + 1]
                BY <4>1 DEF FreeList
            <4>4. i # Len(G) => G[i + 1] = F[i + 1 + 1]
                <5>1. i # Len(G) => i + 1 \in 1..Len(G)
                    BY <1>01, <2>15
                <5> QED BY <2>15, <5>1
            <4> QED BY <4>1, <4>2, <4>3, <4>4
        <3>4. ASSUME NEW i \in 1..Len(G), NEW j \in 1..Len(G), G[i] = G[j] PROVE i = j
            <4>1. i + 1 \in 1..Len(F) /\ j + 1 \in 1..Len(F) /\ F[i + 1] = F[j + 1]
                BY <2>15, <3>4
            <4>2. i + 1 = j + 1
                BY <4>1 DEF FreeList
            <4> QED BY <4>2
        <3>5. ASSUME NEW x \in 1..d.size
              PROVE  x \in T \cup {n} <=> \A i \in 1..Len(G) : G[i] # x
            <4>1. CASE x = n
                BY <3>2, <4>1
            <4>2. CASE x # n
                <5>1. x \in T <=> \A i \in 1..Len(F) : F[i] # x
                    BY DEF FreeList
                <5>2. ASSUME NEW i \in 1..Len(F), F[i] = x PROVE \E j \in 1..Len(G) : G[j] = x
                    <6>1. i # 1
                        BY <2>2, <4>2, <5>2
                    <6>2. i - 1 \in 1..Len(G)
                        BY <1>01, <2>15, <6>1
                    <6>3. G[i - 1] = F[i]
                        BY <2>15, <6>2
                    <6> QED BY <5>2, <6>2, <6>3
                <5>3. ASSUME NEW i \in 1..Len(G), G[i] = x PROVE \E j \in 1..Len(F) : F[j] = x
                    BY <2>15, <5>3
                <5> QED BY <4>2, <5>1, <5>2, <5>3
            <4> QED BY <4>1, <4>2
        <3> QED BY <2>7, <2>15, <3>1, <3>3, <3>4, <3>5 DEF FreeList
    <2> QED BY <2>5, <2>12, <2>13, <2>16
<1> QED
    BY <1>1, <1>2

\* The array with another node at x.
WithNode(d, x, n) == [d EXCEPT !.node[x] = n]

LEMMA SetNode ==
    ASSUME NEW d, Typed(d), NEW x \in 0..d.size, NEW n \in NodeOf(d.size),
           NEW e, e = WithNode(d, x, n)
    PROVE  /\ Typed(e)
           /\ e.root = d.root /\ e.size = d.size /\ e.cap = d.cap /\ e.fhead = d.fhead
           /\ e.node[x] = n
           /\ \A y \in 0..d.size : y # x => e.node[y] = d.node[y]
<1>1. /\ d.size \in Nat /\ d.node \in [0..d.size -> NodeOf(d.size)]
      /\ d \in [root : 0..d.size, size : {d.size}, cap : Nat, fhead : 0..d.size,
                node : [0..d.size -> NodeOf(d.size)]]
    BY TypedIs DEF Typed, DbOf
<1>2. PICK N : N = [d.node EXCEPT ![x] = n]
    OBVIOUS
<1>4. /\ e.root = d.root /\ e.size = d.size /\ e.cap = d.cap /\ e.fhead = d.fhead /\ e.node = N
      /\ e = [root |-> d.root, size |-> d.size, cap |-> d.cap, fhead |-> d.fhead, node |-> N]
    BY <1>1, <1>2 DEF WithNode
<1>5. N \in [0..d.size -> NodeOf(d.size)]
    BY <1>1, <1>2
<1>6. N[x] = n /\ \A y \in 0..d.size : y # x => N[y] = d.node[y]
    BY <1>1, <1>2
<1>7. e \in [root : 0..d.size, size : {d.size}, cap : Nat, fhead : 0..d.size,
             node : [0..d.size -> NodeOf(d.size)]]
    BY <1>1, <1>4, <1>5
<1>8. Typed(e)
    BY <1>1, <1>4, <1>7 DEF Typed, DbOf
<1> QED
    BY <1>4, <1>6, <1>8

\* The free list is in the links of the freed nodes.
LEMMA SameFree ==
    ASSUME NEW d, NEW T, NEW F, FreeList(d, T, F),
           NEW e, e.size = d.size, e.fhead = d.fhead,
           \A z \in 1..d.size : z \notin T => e.node[z].link["mid"] = d.node[z].link["mid"]
    PROVE  FreeList(e, T, F)
<1>1. \A i \in 1..Len(F) : F[i] \in 1..d.size /\ F[i] \notin T
    <2>1. \A i \in 1..Len(F) : F[i] \in 1..d.size
        BY FreeListHead
    <2> QED BY <2>1 DEF FreeList
<1>2. \A i \in 1..Len(F) : e.node[F[i]].link["mid"] = d.node[F[i]].link["mid"]
    BY <1>1
<1> QED
    BY <1>2 DEF FreeList

\* The parts of a node that are set.
LEMMA NodeParts ==
    ASSUME NEW n \in Nat, NEW b \in NodeOf(n)
    PROVE  /\ b = [c |-> b.c, link |-> b.link, parent |-> b.parent, value |-> b.value]
           /\ b.c \in Int /\ b.link \in [Ways -> 0..n] /\ b.parent \in 0..n
           /\ b.value \in Values \cup {0}
BY DEF NodeOf

\* A new leaf y, below x or as the root.
Leaved(d, T, x, way, ch, e, y) ==
    /\ y \notin T /\ y \in 1..e.size /\ d.size <= e.size
    /\ Typed(e) /\ e.size < e.cap /\ e.node[0] = Blank
    /\ e.root = IF x = 0 THEN y ELSE d.root
    /\ e.node[y].c = ch /\ e.node[y].parent = x /\ e.node[y].value = 0
    /\ \A v \in Ways : e.node[y].link[v] = 0
    /\ \A z \in T :
          /\ e.node[z].c = d.node[z].c /\ e.node[z].value = d.node[z].value
          /\ e.node[z].parent = d.node[z].parent
          /\ \A v \in Ways : e.node[z].link[v] =
                IF z = x /\ v = way THEN y ELSE d.node[z].link[v]
    /\ \E F2 : FreeList(e, T \cup {y}, F2)

LEMMA LeafTyped ==
    ASSUME NEW d, NEW T, NEW L, NEW D, Tree(d, T, L, D), NEW F, FreeList(d, T, F),
           NEW x \in T \cup {0}, NEW way \in Ways, NEW ch \in Int,
           NEW e, NEW y, e = Leaf(d, x, way, ch).db, y = Leaf(d, x, way, ch).at
    PROVE  Leaved(d, T, x, way, ch, e, y)
<1>1. Typed(d) /\ d.size \in Nat /\ T \subseteq 1..d.size
    BY TypedIs DEF Tree
<1>2. PICK g : g = NewNode(d).db
    OBVIOUS
<1>3. y = NewNode(d).at
    BY DEF Leaf
<1>4. Taken(d, g, y) /\ y \notin T
    BY <1>2, <1>3, NewNodeIs
<1>5. PICK F2 : FreeList(g, T \cup {y}, F2)
    BY <1>2, <1>3, NewNodeIs
<1>6. /\ Typed(g) /\ g.size < g.cap /\ g.node[0] = Blank /\ g.root = d.root /\ d.size <= g.size
      /\ y \in 1..g.size /\ g.node[y] = Blank /\ \A z \in 0..d.size : z # y => g.node[z] = d.node[z]
    BY <1>4 DEF Taken
<1>7. g.size \in Nat /\ \A z \in 0..g.size : g.node[z] \in NodeOf(g.size)
    BY <1>6, TypedIs
<1>8. PICK n : n = [Blank EXCEPT !.c = ch, !.parent = x]
    OBVIOUS
<1>9. /\ n.c = ch /\ n.link = Blank.link /\ n.parent = x /\ n.value = 0
      /\ n \in NodeOf(g.size)
    <2>1. Blank \in NodeOf(g.size) /\ Blank.value = 0
        BY <1>7, BlankIs
    <2>2. x \in 0..g.size
        <3>1. x \in 0..d.size
            BY <1>1
        <3> QED BY <1>1, <1>6, <1>7, <3>1
    <2>3. n = [c |-> ch, link |-> Blank.link, parent |-> x, value |-> Blank.value]
        BY <1>8 DEF Blank
    <2>4. Blank.link \in [Ways -> 0..g.size] /\ Blank.value \in Values \cup {0}
        BY <1>7, <2>1, NodeParts
    <2> QED BY <2>1, <2>2, <2>3, <2>4 DEF NodeOf
<1>10. PICK d1 : d1 = WithNode(g, y, n)
    OBVIOUS
<1>11. d1 = [g EXCEPT !.node[y].c = ch, !.node[y].parent = x]
    <2>1. g \in [root : 0..g.size, size : {g.size}, cap : Nat, fhead : 0..g.size,
                 node : [0..g.size -> NodeOf(g.size)]]
        BY <1>6 DEF Typed, DbOf
    <2>2. y \in 0..g.size
        BY <1>6, <1>7
    <2> QED BY <1>6, <1>8, <1>10, <2>1, <2>2 DEF WithNode
<1>12. y \in 0..g.size
    BY <1>6, <1>7
<1>13. /\ Typed(d1)
       /\ d1.root = g.root /\ d1.size = g.size /\ d1.cap = g.cap /\ d1.fhead = g.fhead
       /\ d1.node[y] = n /\ \A z \in 0..g.size : z # y => d1.node[z] = g.node[z]
    BY <1>6, <1>9, <1>10, <1>12, SetNode
<1>14. e = IF x = 0 THEN [d1 EXCEPT !.root = y] ELSE [d1 EXCEPT !.node[x].link[way] = y]
    BY <1>2, <1>3, <1>11 DEF Leaf
<1>15. /\ Typed(e) /\ e.size = g.size /\ e.cap = g.cap /\ e.fhead = g.fhead
       /\ e.root = IF x = 0 THEN y ELSE d.root
       /\ e.node[y] = n
       /\ \A z \in 0..g.size : z # y /\ (z # x \/ x = 0) => e.node[z] = g.node[z]
       /\ x # 0 => e.node[x] = [g.node[x] EXCEPT !.link[way] = y]
    <2>1. CASE x = 0
        <3>1. d1 \in [root : 0..d1.size, size : {d1.size}, cap : Nat, fhead : 0..d1.size,
                      node : [0..d1.size -> NodeOf(d1.size)]]
            BY <1>13 DEF Typed, DbOf
        <3>2. e = [root |-> y, size |-> d1.size, cap |-> d1.cap, fhead |-> d1.fhead, node |-> d1.node]
            BY <1>14, <2>1, <3>1
        <3>3. Typed(e)
            BY <1>7, <1>12, <1>13, <3>1, <3>2 DEF Typed, DbOf
        <3> QED BY <1>13, <2>1, <3>2, <3>3
    <2>2. CASE x # 0
        <3>1. x \in 0..g.size /\ x # y
            BY <1>1, <1>4, <1>6, <1>7, <2>2
        <3>2. PICK n2 : n2 = [d1.node[x] EXCEPT !.link[way] = y]
            OBVIOUS
        <3>3. d1.node[x] = g.node[x] /\ g.node[x] \in NodeOf(g.size)
            BY <1>7, <1>13, <3>1
        <3>4. n2 \in NodeOf(g.size)
            <4>1. PICK l : l = [g.node[x].link EXCEPT ![way] = y]
                OBVIOUS
            <4>2. l \in [Ways -> 0..g.size]
                BY <1>7, <1>12, <3>3, <4>1, NodeParts
            <4>3. n2 = [c |-> g.node[x].c, link |-> l, parent |-> g.node[x].parent,
                        value |-> g.node[x].value]
                <5>1. d1.node[x] \in [c : Int, link : [Ways -> 0..g.size], parent : 0..g.size,
                                      value : Values \cup {0}]
                    BY <3>3 DEF NodeOf
                <5> QED BY <3>2, <3>3, <4>1, <5>1
            <4> QED BY <1>7, <3>3, <4>2, <4>3, NodeParts DEF NodeOf
        <3>5. e = WithNode(d1, x, n2)
            <4>1. d1 \in [root : 0..d1.size, size : {d1.size}, cap : Nat, fhead : 0..d1.size,
                          node : [0..d1.size -> NodeOf(d1.size)]]
                BY <1>13 DEF Typed, DbOf
            <4> QED BY <1>13, <1>14, <2>2, <3>1, <3>2, <4>1 DEF WithNode
        <3>6. /\ Typed(e)
              /\ e.root = d1.root /\ e.size = d1.size /\ e.cap = d1.cap /\ e.fhead = d1.fhead
              /\ e.node[x] = n2 /\ \A z \in 0..d1.size : z # x => e.node[z] = d1.node[z]
            BY <1>13, <3>1, <3>4, <3>5, SetNode
        <3>7. e.node[y] = n
            BY <1>12, <1>13, <3>1, <3>6
        <3> QED BY <1>6, <1>13, <2>2, <3>2, <3>3, <3>6, <3>7
    <2> QED BY <2>1, <2>2
<1>16. e.node[0] = Blank
    <2>1. 0 \in 0..g.size /\ 0 # y
        BY <1>6, <1>7
    <2> QED BY <1>6, <1>15, <2>1
<1>17. ASSUME NEW z \in T
       PROVE  /\ e.node[z].c = d.node[z].c /\ e.node[z].value = d.node[z].value
              /\ e.node[z].parent = d.node[z].parent
              /\ \A v \in Ways : e.node[z].link[v] =
                    IF z = x /\ v = way THEN y ELSE d.node[z].link[v]
    <2>1. z \in 0..d.size /\ z \in 0..g.size /\ z # y /\ z # 0
        BY <1>1, <1>4, <1>6, <1>7
    <2>2. g.node[z] = d.node[z] /\ g.node[z] \in NodeOf(g.size)
        BY <1>6, <1>7, <2>1
    <2>3. CASE z # x
        BY <1>15, <2>1, <2>2, <2>3
    <2>4. CASE z = x
        <3>1. e.node[z] = [d.node[z] EXCEPT !.link[way] = y]
            BY <1>15, <2>1, <2>2, <2>4
        <3>2. d.node[z].link \in [Ways -> 0..g.size]
            BY <1>7, <2>2, NodeParts
        <3>3. e.node[z].link = [d.node[z].link EXCEPT ![way] = y]
            BY <1>7, <2>2, <3>1, NodeParts
        <3>4. /\ e.node[z].c = d.node[z].c /\ e.node[z].value = d.node[z].value
              /\ e.node[z].parent = d.node[z].parent
            BY <1>7, <2>2, <3>1, NodeParts
        <3> QED BY <2>4, <3>2, <3>3, <3>4
    <2> QED BY <2>3, <2>4
<1>18. FreeList(e, T \cup {y}, F2)
    <2>1. ASSUME NEW z \in 1..g.size, z \notin T \cup {y}
          PROVE  e.node[z].link["mid"] = g.node[z].link["mid"]
        <3>1. z \in 0..g.size /\ z # y /\ z # x
            BY <1>7, <2>1
        <3> QED BY <1>15, <3>1
    <2> QED BY <1>5, <1>15, <2>1, SameFree
<1> QED
    <2>1. \A v \in Ways : e.node[y].link[v] = 0
        BY <1>9, <1>15, BlankIs
    <2>2. /\ e.size = g.size /\ e.cap = g.cap /\ Typed(e) /\ e.node[0] = Blank
          /\ e.root = IF x = 0 THEN y ELSE d.root
          /\ e.node[y].c = ch /\ e.node[y].parent = x /\ e.node[y].value = 0
        BY <1>9, <1>15, <1>16
    <2> QED BY <1>4, <1>6, <1>17, <1>18, <2>1, <2>2 DEF Leaved

-----------------------------------------------------------------------------
(* A leaf in the tree.                                                     *)

Beginning(s, n) == [j \in 1..n |-> s[j]]

LEMMA BeginningIs ==
    ASSUME NEW s \in Key, NEW n \in 1..Len(s)
    PROVE  /\ Beginning(s, n) \in Key /\ Len(Beginning(s, n)) = n
           /\ \A j \in 1..n : Beginning(s, n)[j] = s[j]
           /\ n = Len(s) => Beginning(s, n) = s
<1>1. s \in Seq(Int) /\ Len(s) \in Nat /\ n \in Nat /\ n # 0 /\ n <= Len(s)
    BY DEF Key
<1>2. \A j \in 1..n : s[j] \in Int
    BY <1>1
<1>3. Beginning(s, n) \in [1..n -> Int]
    BY <1>2 DEF Beginning
<1>4. Beginning(s, n) \in Seq(Int)
    BY <1>1, <1>3
<1>5. Len(Beginning(s, n)) = n
    BY <1>1, <1>3, <1>4, LenProperties
<1>6. \A j \in 1..n : Beginning(s, n)[j] = s[j]
    BY DEF Beginning
<1>7. n = Len(s) => Beginning(s, n) = s
    BY <1>1, <1>4, <1>5, <1>6, SeqEqual
<1> QED
    BY <1>1, <1>4, <1>5, <1>6, <1>7 DEF Key

\* At the nodes above x, and at x, the first i characters of s go where s goes.
LEMMA SameDirection ==
    ASSUME NEW root, NEW N, NEW T, NEW L, NEW D, Shape(root, N, T, L, D),
           NEW s \in Key, NEW x, OnWay(N, T, L, D, s, x),
           NEW way \in Ways, way = Way(N[x], s, Len(L[x])),
           NEW i, i = (IF way = "mid" THEN Len(L[x]) + 1 ELSE Len(L[x])),
           NEW z \in T, x \in D[z]
    PROVE  /\ i \in 1..Len(s) /\ Agree(s, L[z])
           /\ Agree(Beginning(s, i), L[z])
           /\ Way(N[z], s, Len(L[z])) \in Ways
           /\ Way(N[z], Beginning(s, i), Len(L[z])) = Way(N[z], s, Len(L[z]))
           /\ z # x => x \in D[N[z].link[Way(N[z], s, Len(L[z]))]]
<1>1. x \in T /\ Agree(s, L[x])
    BY DEF OnWay
<1>2. Len(L[x]) \in 1..Len(s) /\ Len(s) \in Nat /\ (way = "mid" => Len(L[x]) < Len(s))
    BY <1>1, WayIs
<1>3. i \in 1..Len(s) /\ Len(L[x]) <= i /\ i \in Nat
    BY <1>2
<1>4. Agree(L[x], L[z])
    BY <1>1, OnwardFinds
<1>5. L[z] \in Key /\ L[x] \in Key
    BY <1>1 DEF Shape
<1>6. Len(L[z]) \in 1..Len(L[x])
    <2>1. Len(L[z]) \in Nat /\ Len(L[z]) # 0 /\ Len(L[x]) \in Nat
        BY <1>5 DEF Key
    <2> QED BY <1>4, <2>1 DEF Agree
<1>7. Agree(s, L[z])
    <2>1. \A j \in 1..(Len(L[z]) - 1) : j \in 1..(Len(L[x]) - 1)
        BY <1>2, <1>6
    <2> QED BY <1>1, <1>2, <1>4, <1>6, <2>1 DEF Agree
<1>8. PICK b : b = Beginning(s, i)
    OBVIOUS
<1>9. b \in Key /\ Len(b) = i /\ \A j \in 1..i : b[j] = s[j]
    BY <1>3, <1>8, BeginningIs
<1>10. Agree(b, L[z])
    <2>1. \A j \in 1..(Len(L[z]) - 1) : j \in 1..i
        BY <1>2, <1>3, <1>6
    <2> QED BY <1>2, <1>3, <1>6, <1>7, <1>9, <2>1 DEF Agree
<1>11. PICK v : v = Way(N[z], s, Len(L[z]))
    OBVIOUS
<1>12. v \in Ways /\ (z # x => x \in D[N[z].link[v]])
    <2>1. CASE z = x
        BY <1>11, <2>1
    <2>2. CASE z # x
        BY <1>11, <2>2 DEF OnWay
    <2> QED BY <2>1, <2>2
<1>13. v = "mid" => Len(L[z]) < i
    <2>1. CASE z = x
        BY <1>2, <1>11, <2>1
    <2>2. CASE z # x
        <3>1. ASSUME v = "mid" PROVE Len(L[z]) < i
            <4>1. x \in D[N[z].link["mid"]] /\ "mid" \in Ways
                BY <1>12, <2>2, <3>1
            <4>2. Way(N[z], L[x], Len(L[z])) = "mid"
                BY <4>1, LinkIs
            <4>3. Len(L[z]) < Len(L[x])
                BY <1>4, <1>5, <4>2, WayIs
            <4> QED BY <1>2, <1>3, <1>6, <4>3
        <3> QED BY <3>1
    <2> QED BY <2>1, <2>2
<1>14. b[Len(L[z])] = s[Len(L[z])]
    BY <1>2, <1>3, <1>6, <1>9
<1>15. N[z].c \in Int /\ s[Len(L[z])] \in Int
    <2>1. N[z].c = L[z][Len(L[z])]
        BY NodeIs
    <2>2. Len(L[z]) \in 1..Len(L[z]) /\ Len(L[z]) \in 1..Len(s)
        BY <1>2, <1>6
    <2>3. L[z] \in Seq(Int) /\ s \in Seq(Int)
        BY <1>5 DEF Key
    <2> QED BY <2>1, <2>2, <2>3
<1>16. Way(N[z], b, Len(L[z])) = v
    BY <1>9, <1>11, <1>12, <1>13, <1>14, <1>15 DEF Way, Ways
<1> QED
    BY <1>3, <1>7, <1>8, <1>10, <1>11, <1>12, <1>16

\* The labels and domains with the leaf y below x.
WithLabel(T, L, y, b) == [z \in T \cup {y} |-> IF z = y THEN b ELSE L[z]]

WithLeaf(T, D, x, y) ==
    [z \in T \cup {y} \cup {0} |->
        IF z = y THEN {y} ELSE IF x \in D[z] THEN D[z] \cup {y} ELSE D[z]]

NewLeaf(N, T, x, way, N2, y, ch) ==
    /\ N2[y].c = ch
    /\ \A v \in Ways : N2[y].link[v] = 0
    /\ \A z \in T : /\ N2[z].c = N[z].c
                    /\ \A v \in Ways : N2[z].link[v] =
                          IF z = x /\ v = way THEN y ELSE N[z].link[v]

LEMMA LeafBelow ==
    ASSUME NEW root, NEW N, NEW T, NEW L, NEW D, Shape(root, N, T, L, D),
           NEW s \in Key, NEW x, OnWay(N, T, L, D, s, x),
           NEW way \in Ways, way = Way(N[x], s, Len(L[x])), N[x].link[way] = 0,
           NEW i, i = (IF way = "mid" THEN Len(L[x]) + 1 ELSE Len(L[x])),
           NEW y \in Nat \ {0}, y \notin T, NEW N2, NewLeaf(N, T, x, way, N2, y, s[i]),
           NEW T2, T2 = T \cup {y}, NEW L2, L2 = WithLabel(T, L, y, Beginning(s, i)),
           NEW D2, D2 = WithLeaf(T, D, x, y)
    PROVE  Shape(root, N2, T2, L2, D2) /\ OnWay(N2, T2, L2, D2, s, y)
<1> DEFINE b == Beginning(s, i)
<1>0. /\ N2[y].c = s[i] /\ \A v \in Ways : N2[y].link[v] = 0
      /\ \A z \in T : /\ N2[z].c = N[z].c
                      /\ \A v \in Ways : N2[z].link[v] =
                            IF z = x /\ v = way THEN y ELSE N[z].link[v]
    BY DEF NewLeaf
<1> USE <1>0
<1>1. x \in T /\ x \in D[x]
    BY NodeIs DEF OnWay
<1>2. i \in 1..Len(s)
    BY <1>1, SameDirection
<1>3. b \in Key /\ Len(b) = i /\ b[i] = s[i] /\ Agree(s, b) /\ \A j \in 1..i : b[j] = s[j]
    <2>1. b \in Key /\ Len(b) = i /\ \A j \in 1..i : b[j] = s[j]
        BY <1>2, BeginningIs
    <2>2. Len(s) \in Nat /\ i \in Nat /\ i <= Len(s) /\ i \in 1..i /\ \A j \in 1..(i - 1) : j \in 1..i
        BY <1>2 DEF Key
    <2> QED BY <2>1, <2>2 DEF Agree
<1> HIDE DEF b
<1>4. L2[y] = b /\ \A z \in T : L2[z] = L[z]
    BY DEF WithLabel, b
<1>5. /\ D2[y] = {y}
      /\ \A z \in T \cup {0} : D2[z] = IF x \in D[z] THEN D[z] \cup {y} ELSE D[z]
    BY DEF WithLeaf
<1>6. ASSUME NEW z \in T, x \in D[z]
      PROVE  /\ Agree(b, L[z]) /\ Way(N[z], s, Len(L[z])) \in Ways
             /\ Way(N[z], b, Len(L[z])) = Way(N[z], s, Len(L[z]))
             /\ z # x => x \in D[N[z].link[Way(N[z], s, Len(L[z]))]]
    BY <1>6, SameDirection DEF b
<1>7. \A z \in T : \A t, j : Way(N2[z], t, j) = Way(N[z], t, j)
    BY WayByCharacter
<1>8. ASSUME NEW z \in T, NEW v \in Ways
      PROVE  /\ N[z].link[v] \in T \cup {0} /\ N[z].link[v] # y
             /\ N[z].link[v] # 0 => N2[z].link[v] = N[z].link[v]
             /\ ~ (z = x /\ v = way) => N2[z].link[v] = N[z].link[v]
    <2>1. N[z].link[v] \in T \cup {0}
        BY LinkIs
    <2> QED BY <2>1
<1>9. /\ IsFiniteSet(T2) /\ T2 \subseteq Nat \ {0}
      /\ L2 \in [T2 -> Key]
      /\ D2 \in [T2 \cup {0} -> SUBSET T2]
    <2>1. IsFiniteSet(T) /\ T \subseteq Nat \ {0} /\ L \in [T -> Key] /\ D \in [T \cup {0} -> SUBSET T]
        BY DEF Shape
    <2>2. IsFiniteSet(T2)
        BY <2>1, FS_AddElement
    <2>3. L2 \in [T2 -> Key]
        BY <1>3, <2>1 DEF WithLabel, b
    <2>4. D2 \in [T2 \cup {0} -> SUBSET T2]
        <3>1. D2 = [z \in T2 \cup {0} |-> D2[z]]
            BY DEF WithLeaf
        <3>2. ASSUME NEW z \in T2 \cup {0} PROVE D2[z] \subseteq T2
            <4>1. CASE z = y
                BY <1>5, <4>1
            <4>2. CASE z # y
                <5>1. z \in T \cup {0} /\ D[z] \subseteq T
                    BY <2>1, <4>2
                <5>2. D2[z] = IF x \in D[z] THEN D[z] \cup {y} ELSE D[z]
                    BY <1>5, <5>1
                <5> QED BY <5>1, <5>2
            <4> QED BY <4>1, <4>2
        <3> QED BY <3>1, <3>2
    <2> QED BY <2>1, <2>2, <2>3, <2>4
<1>10. root \in T2 \cup {0} /\ D2[root] = T2 /\ D2[0] = {} /\ (root # 0 => Len(L2[root]) = 1)
    <2>1. root \in T \cup {0} /\ D[root] = T /\ D[0] = {} /\ (root # 0 => Len(L[root]) = 1)
        BY DEF Shape
    <2> QED BY <1>1, <1>4, <1>5, <2>1
<1>11. ASSUME NEW z \in T2
       PROVE  /\ N2[z].c = L2[z][Len(L2[z])]
              /\ z \in D2[z]
              /\ \A w \in T2 : w \in D2[z] => w = z \/ \E v \in Ways : w \in D2[N2[z].link[v]]
    <2>1. CASE z = y
        BY <1>3, <1>4, <1>5, <2>1
    <2>2. CASE z # y
        <3>1. z \in T
            BY <2>2
        <3>2. /\ N[z].c = L[z][Len(L[z])] /\ z \in D[z]
              /\ \A w \in T : w \in D[z] => w = z \/ \E v \in Ways : w \in D[N[z].link[v]]
            BY <3>1, NodeIs
        <3>3. N2[z].c = L2[z][Len(L2[z])] /\ z \in D2[z]
            BY <1>4, <1>5, <3>1, <3>2
        <3>4. ASSUME NEW w \in T, w \in D[z], w # z
              PROVE  \E v \in Ways : w \in D2[N2[z].link[v]]
            <4>1. PICK v \in Ways : w \in D[N[z].link[v]]
                BY <3>2, <3>4
            <4>2. N[z].link[v] # 0
                BY <4>1 DEF Shape
            <4>3. N2[z].link[v] = N[z].link[v] /\ N[z].link[v] \in T \cup {0}
                BY <1>8, <3>1, <4>2
            <4> QED BY <1>5, <4>1, <4>3
        <3>5. ASSUME x \in D[z] PROVE \E v \in Ways : y \in D2[N2[z].link[v]]
            <4>1. CASE z = x
                <5>1. N2[z].link[way] = y
                    BY <3>1, <4>1
                <5> QED BY <1>5, <5>1
            <4>2. CASE z # x
                <5>1. PICK v \in Ways : x \in D[N[z].link[v]]
                    BY <1>6, <3>1, <3>5, <4>2
                <5>2. N2[z].link[v] = N[z].link[v] /\ N[z].link[v] \in T \cup {0}
                    BY <1>8, <3>1, <4>2
                <5> QED BY <1>5, <5>1, <5>2
            <4> QED BY <4>1, <4>2
        <3>6. \A w \in T2 : w \in D2[z] => (w \in T /\ w \in D[z]) \/ (w = y /\ x \in D[z])
            <4>1. D[z] \subseteq T
                BY <3>1, NodeIs
            <4> QED BY <1>5, <3>1, <4>1
        <3> QED BY <3>3, <3>4, <3>5, <3>6
    <2> QED BY <2>1, <2>2
<1>12. ASSUME NEW z \in T2, NEW v \in Ways
       PROVE  /\ N2[z].link[v] \in T2 \cup {0}
              /\ D2[N2[z].link[v]] \subseteq D2[z]
              /\ N2[z].link[v] # 0 =>
                    Len(L2[N2[z].link[v]]) = (IF v = "mid" THEN Len(L2[z]) + 1 ELSE Len(L2[z]))
              /\ \A w \in D2[N2[z].link[v]] :
                    Agree(L2[w], L2[z]) /\ Way(N2[z], L2[w], Len(L2[z])) = v
    <2>1. CASE z = y
        BY <1>10, <2>1
    <2>2. CASE z # y /\ z = x /\ v = way
        <3>1. N2[z].link[v] = y
            BY <1>1, <2>2
        <3>2. Agree(b, L[x]) /\ Way(N2[x], b, Len(L[x])) = way
            BY <1>1, <1>6, <1>7
        <3>3. y \in D2[x]
            BY <1>1, <1>5
        <3> QED BY <1>1, <1>3, <1>4, <1>5, <2>2, <3>1, <3>2, <3>3
    <2>3. CASE z # y /\ ~ (z = x /\ v = way)
        <3>1. z \in T
            BY <2>3
        <3>2. PICK l : l = N[z].link[v]
            OBVIOUS
        <3>3. N2[z].link[v] = l /\ l \in T \cup {0}
            BY <1>8, <2>3, <3>1, <3>2
        <3>4. /\ D[l] \subseteq D[z] /\ D[l] \subseteq T
              /\ l # 0 => Len(L[l]) = (IF v = "mid" THEN Len(L[z]) + 1 ELSE Len(L[z]))
              /\ \A w \in D[l] : Agree(L[w], L[z]) /\ Way(N[z], L[w], Len(L[z])) = v
            <4>1. D[z] \subseteq T
                BY <3>1, NodeIs
            <4> QED BY <3>1, <3>2, <4>1, LinkIs
        <3>5. D2[l] \subseteq D2[z]
            BY <1>5, <3>1, <3>3, <3>4
        <3>6. ASSUME NEW w \in D2[l] PROVE Agree(L2[w], L2[z]) /\ Way(N2[z], L2[w], Len(L2[z])) = v
            <4>1. CASE w \in D[l]
                BY <1>4, <1>7, <3>1, <3>4, <4>1
            <4>2. CASE w \notin D[l]
                <5>1. w = y /\ x \in D[l]
                    BY <1>5, <3>3, <4>2
                <5>2. x \in D[z] /\ z # x
                    BY <3>1, <3>2, <3>4, <5>1, Apart
                <5>3. x \in D[N[z].link[Way(N[z], s, Len(L[z]))]] /\ Way(N[z], s, Len(L[z])) \in Ways
                    BY <1>6, <3>1, <5>2
                <5>4. PICK u \in Ways : u = Way(N[z], s, Len(L[z])) /\ x \in D[N[z].link[u]]
                    BY <5>3
                <5>5. v = u
                    BY <3>1, <3>2, <5>1, <5>4, Apart
                <5>6. Agree(b, L[z]) /\ Way(N[z], b, Len(L[z])) = v
                    BY <1>6, <3>1, <5>2, <5>4, <5>5
                <5>7. L2[w] = b /\ L2[z] = L[z]
                    BY <1>4, <3>1, <5>1
                <5>8. Way(N2[z], b, Len(L[z])) = Way(N[z], b, Len(L[z]))
                    BY <1>7, <3>1
                <5> QED BY <5>6, <5>7, <5>8
            <4> QED BY <4>1, <4>2
        <3> QED BY <1>4, <3>1, <3>3, <3>4, <3>5, <3>6
    <2> QED BY <2>1, <2>2, <2>3
<1>13. Shape(root, N2, T2, L2, D2)
    BY <1>9, <1>10, <1>11, <1>12 DEF Shape
<1>14. ASSUME NEW z \in T2, y \in D2[z], z # y
       PROVE  /\ Way(N2[z], s, Len(L2[z])) \in Ways
              /\ y \in D2[N2[z].link[Way(N2[z], s, Len(L2[z]))]]
    <2>1. z \in T /\ x \in D[z]
        <3>1. z \in T
            BY <1>14
        <3>2. D[z] \subseteq T
            BY <3>1, NodeIs
        <3> QED BY <1>5, <1>14, <3>1, <3>2
    <2>2. PICK v : v = Way(N[z], s, Len(L[z]))
        OBVIOUS
    <2>3. v \in Ways /\ Way(N2[z], s, Len(L2[z])) = v
        <3>1. L2[z] = L[z]
            BY <1>4, <2>1
        <3>2. Way(N2[z], s, Len(L[z])) = Way(N[z], s, Len(L[z]))
            BY <1>7, <2>1
        <3> QED BY <1>6, <2>1, <2>2, <3>1, <3>2
    <2>4. CASE z = x
        BY <1>1, <1>5, <2>2, <2>3, <2>4
    <2>5. CASE z # x
        <3>1. x \in D[N[z].link[v]]
            BY <1>6, <2>1, <2>2, <2>5
        <3>2. N2[z].link[v] = N[z].link[v] /\ N[z].link[v] \in T \cup {0}
            BY <1>8, <2>1, <2>3, <2>5
        <3>3. y \in D2[N2[z].link[v]]
            BY <1>5, <3>1, <3>2
        <3> QED BY <2>3, <3>3
    <2> QED BY <2>4, <2>5
<1> QED
    BY <1>3, <1>4, <1>13, <1>14 DEF OnWay

LEMMA FirstLeaf ==
    ASSUME NEW N, NEW T, NEW L, NEW D, Shape(0, N, T, L, D),
           NEW s \in Key, NEW y \in Nat \ {0}, NEW N2,
           N2[y].c = s[1], \A v \in Ways : N2[y].link[v] = 0,
           NEW T2, T2 = T \cup {y}, NEW L2, L2 = WithLabel(T, L, y, Beginning(s, 1)),
           NEW D2, D2 = WithLeaf(T, D, 0, y)
    PROVE  Shape(y, N2, T2, L2, D2) /\ OnWay(N2, T2, L2, D2, s, y)
<1>1. T = {} /\ D[0] = {}
    BY DEF Shape
<1>2. Len(s) \in Nat /\ 1 \in 1..Len(s)
    BY DEF Key
<1>3. PICK b : b = Beginning(s, 1)
    OBVIOUS
<1>4. b \in Key /\ Len(b) = 1 /\ b[1] = s[1]
    <2>1. 1 \in 1..1
        OBVIOUS
    <2> QED BY <1>2, <1>3, <2>1, BeginningIs
<1>5. T2 = {y} /\ L2 = [z \in {y} |-> b]
    BY <1>1, <1>3 DEF WithLabel
<1>6. D2 = [z \in {y} \cup {0} |-> IF z = y THEN {y} ELSE {}]
    <2>1. \A z \in {y} \cup {0} : (IF z = y THEN {y} ELSE IF 0 \in D[z] THEN D[z] \cup {y} ELSE D[z])
                                   = IF z = y THEN {y} ELSE {}
        BY <1>1
    <2>2. T \cup {y} \cup {0} = {y} \cup {0}
        BY <1>1
    <2> QED BY <2>1, <2>2 DEF WithLeaf
<1>7. L2[y] = b /\ D2[y] = {y} /\ D2[0] = {}
    BY <1>5, <1>6
<1>8. IsFiniteSet(T2) /\ T2 \subseteq Nat \ {0}
    <2>1. IsFiniteSet({y})
        BY FS_Singleton
    <2> QED BY <1>5, <2>1
<1>9. L2 \in [T2 -> Key] /\ D2 \in [T2 \cup {0} -> SUBSET T2]
    BY <1>4, <1>5, <1>6
<1>10. Shape(y, N2, T2, L2, D2)
    <2>1. y \in T2 /\ D2[y] = T2 /\ Len(L2[y]) = 1
        BY <1>4, <1>5, <1>7
    <2>2. ASSUME NEW x \in T2
          PROVE  /\ N2[x].c = L2[x][Len(L2[x])]
                 /\ x \in D2[x]
                 /\ \A z \in T2 : z \in D2[x] => z = x \/ \E way \in Ways : z \in D2[N2[x].link[way]]
        BY <1>4, <1>5, <1>7
    <2>3. ASSUME NEW x \in T2, NEW way \in Ways PROVE N2[x].link[way] = 0 /\ 0 \in T2 \cup {0}
        BY <1>5
    <2>4. ASSUME NEW x \in T2, NEW way \in Ways
          PROVE  /\ N2[x].link[way] \in T2 \cup {0}
                 /\ D2[N2[x].link[way]] \subseteq D2[x]
                 /\ N2[x].link[way] # 0 =>
                       Len(L2[N2[x].link[way]]) = (IF way = "mid" THEN Len(L2[x]) + 1 ELSE Len(L2[x]))
                 /\ \A z \in D2[N2[x].link[way]] :
                       Agree(L2[z], L2[x]) /\ Way(N2[x], L2[z], Len(L2[x])) = way
        BY <1>7, <2>3
    <2> QED BY <1>7, <1>8, <1>9, <2>1, <2>2, <2>4 DEF Shape
<1>11. Agree(s, b)
    BY <1>2, <1>4 DEF Agree
<1> QED
    BY <1>5, <1>7, <1>10, <1>11 DEF OnWay

-----------------------------------------------------------------------------
(* The state of the tree between calls and inside them.                    *)

\* Left and middle children know their parents.
Known(d, T) ==
    \A x \in T, way \in {"left", "mid"} :
        d.node[x].link[way] # 0 => d.node[d.node[x].link[way]].parent = x

\* No node but the one at hand is empty.
Alive(d, T, x0) ==
    \A x \in T : x = x0 \/ d.node[x].link["mid"] # 0 \/ d.node[x].value # 0

\* The nodes have the values that the map mp gives to their labels.
Holds(d, T, L, mp) ==
    /\ mp \in [Keys -> Values \cup {0}]
    /\ \A x \in T : d.node[x].value = IF L[x] \in Keys THEN mp[L[x]] ELSE 0
    /\ \A k \in Keys : mp[k] # 0 => \E x \in T : L[x] = k

State(d, T, L, D, F, mp, x0) ==
    /\ Tree(d, T, L, D)
    /\ FreeList(d, T, F)
    /\ Known(d, T)
    /\ Alive(d, T, x0)
    /\ Holds(d, T, L, mp)

\* Where a leaf for the i-th character of s may be made.
Place(d, T, L, D, s, i, x, way) ==
    /\ x = 0 => d.root = 0 /\ i = 1
    /\ x # 0 => /\ OnWay(d.node, T, L, D, s, x)
                /\ way = Way(d.node[x], s, Len(L[x])) /\ d.node[x].link[way] = 0
                /\ i = IF way = "mid" THEN Len(L[x]) + 1 ELSE Len(L[x])

\* The links there were in T are there.
Extends(d, T, e) ==
    /\ d.root # 0 => e.root = d.root
    /\ \A z \in T, v \in Ways : d.node[z].link[v] # 0 => e.node[z].link[v] = d.node[z].link[v]

LEMMA PlaceIs ==
    ASSUME NEW d, NEW T, NEW L, NEW D, Tree(d, T, L, D),
           NEW s \in Key, NEW i, NEW x, NEW way \in Ways, Place(d, T, L, D, s, i, x, way)
    PROVE  x \in T \cup {0} /\ i \in 1..Len(s) /\ s[i] \in Int
<1>2. Shape(d.root, d.node, T, L, D)
    BY DEF Tree
<1>3. x \in T \cup {0}
    BY DEF Place, OnWay
<1>4. i \in 1..Len(s) /\ s[i] \in Int
    <2>1. Len(s) \in Nat /\ 1 \in 1..Len(s)
        BY DEF Key
    <2>2. i \in 1..Len(s)
        <3>1. CASE x = 0
            BY <2>1, <3>1 DEF Place
        <3>2. CASE x # 0
            <4>1. x \in T /\ x \in D[x]
                BY <1>2, <1>3, <3>2, NodeIs
            <4>2. /\ OnWay(d.node, T, L, D, s, x) /\ way = Way(d.node[x], s, Len(L[x]))
                  /\ i = IF way = "mid" THEN Len(L[x]) + 1 ELSE Len(L[x])
                BY <3>2 DEF Place
            <4> QED BY <1>2, <4>1, <4>2, SameDirection
        <3> QED BY <3>1, <3>2
    <2> QED BY <2>2 DEF Key
<1> QED
    BY <1>3, <1>4

\* With the new node y the tree is one still, and has the first i characters
\* of s.
Growing(d, T, s, mp, e, y, i) ==
    \E T2, L2, D2, F2 :
        /\ State(e, T2, L2, D2, F2, mp, y) /\ OnWay(e.node, T2, L2, D2, s, y)
        /\ T \subseteq T2 /\ L2[y] = Beginning(s, i) /\ i \in 1..Len(s)
        /\ \A v \in Ways : e.node[y].link[v] = 0
        /\ Extends(d, T, e)

LEMMA LeafIs ==
    ASSUME NEW d, NEW T, NEW L, NEW D, NEW F, NEW mp, NEW x0, State(d, T, L, D, F, mp, x0),
           NEW s \in Key, NEW i, NEW x, NEW way \in Ways, Place(d, T, L, D, s, i, x, way),
           x0 = 0 \/ (x0 = x /\ way = "mid"),
           NEW e, NEW y, Leaved(d, T, x, way, s[i], e, y)
    PROVE  Growing(d, T, s, mp, e, y, i)
<1>1. Tree(d, T, L, D) /\ FreeList(d, T, F) /\ Known(d, T) /\ Alive(d, T, x0) /\ Holds(d, T, L, mp)
    BY DEF State
<1>2. Typed(d) /\ T \subseteq 1..d.size /\ Shape(d.root, d.node, T, L, D)
    BY <1>1 DEF Tree
<1>3. x \in T \cup {0}
    BY <1>1, PlaceIs
<1>4. i \in 1..Len(s) /\ s[i] \in Int
    BY <1>1, PlaceIs
<1>5. /\ y \notin T /\ y \in 1..e.size /\ d.size <= e.size
      /\ Typed(e) /\ e.size < e.cap /\ e.node[0] = Blank
      /\ e.root = IF x = 0 THEN y ELSE d.root
      /\ e.node[y].c = s[i] /\ e.node[y].parent = x /\ e.node[y].value = 0
      /\ \A v \in Ways : e.node[y].link[v] = 0
      /\ \A z \in T :
            /\ e.node[z].c = d.node[z].c /\ e.node[z].value = d.node[z].value
            /\ e.node[z].parent = d.node[z].parent
            /\ \A v \in Ways : e.node[z].link[v] =
                  IF z = x /\ v = way THEN y ELSE d.node[z].link[v]
      /\ \E F2 : FreeList(e, T \cup {y}, F2)
    BY DEF Leaved
<1>6. PICK T2, L2, D2 : /\ T2 = T \cup {y} /\ L2 = WithLabel(T, L, y, Beginning(s, i))
                        /\ D2 = WithLeaf(T, D, x, y)
    OBVIOUS
<1>7. PICK F2 : FreeList(e, T2, F2)
    BY <1>5, <1>6
<1>8. y \in Nat \ {0} /\ e.size \in Nat /\ d.size \in Nat
    <2>1. e.size \in Nat /\ d.size \in Nat
        BY <1>2, <1>5, TypedIs
    <2> QED BY <1>5, <2>1
<1>9. Shape(e.root, e.node, T2, L2, D2) /\ OnWay(e.node, T2, L2, D2, s, y)
    <2>1. CASE x = 0
        <3>1. d.root = 0 /\ i = 1 /\ e.root = y
            BY <1>5, <2>1 DEF Place
        <3> QED BY <1>2, <1>5, <1>6, <1>8, <2>1, <3>1, FirstLeaf
    <2>2. CASE x # 0
        <3>1. /\ OnWay(d.node, T, L, D, s, x) /\ way = Way(d.node[x], s, Len(L[x]))
              /\ d.node[x].link[way] = 0
              /\ i = IF way = "mid" THEN Len(L[x]) + 1 ELSE Len(L[x])
            BY <2>2 DEF Place
        <3>2. e.root = d.root
            BY <1>5, <2>2
        <3>3. NewLeaf(d.node, T, x, way, e.node, y, s[i])
            BY <1>5 DEF NewLeaf
        <3>5. y \notin T /\ y \in Nat \ {0}
            BY <1>5, <1>8
        <3>6. Shape(d.root, e.node, T2, L2, D2) /\ OnWay(e.node, T2, L2, D2, s, y)
            BY <1>2, <1>6, <3>1, <3>3, <3>5, LeafBelow
        <3> QED BY <3>2, <3>6
    <2> QED BY <2>1, <2>2
<1>10. Tree(e, T2, L2, D2)
    <2>1. T2 \subseteq 1..e.size
        <3>1. 1..d.size \subseteq 1..e.size
            BY <1>5, <1>8
        <3> QED BY <1>2, <1>5, <1>6, <3>1
    <2> QED BY <1>5, <1>9, <2>1 DEF Tree
<1>11. L2[y] = Beginning(s, i) /\ \A z \in T : L2[z] = L[z]
    BY <1>5, <1>6 DEF WithLabel
<1>12. Known(e, T2)
    <2>1. ASSUME NEW z \in T2, NEW v \in {"left", "mid"}, e.node[z].link[v] # 0
          PROVE  e.node[e.node[z].link[v]].parent = z
        <3>1. v \in Ways
            BY DEF Ways
        <3>2. z \in T
            BY <1>5, <1>6, <2>1, <3>1
        <3>3. CASE z = x /\ v = way
            BY <1>5, <3>1, <3>2, <3>3
        <3>4. CASE ~ (z = x /\ v = way)
            <4>1. e.node[z].link[v] = d.node[z].link[v]
                BY <1>5, <3>1, <3>2, <3>4
            <4>2. d.node[z].link[v] \in T
                BY <1>2, <2>1, <3>1, <3>2, <4>1, LinkIs
            <4>3. d.node[d.node[z].link[v]].parent = z
                BY <1>1, <2>1, <3>2, <4>1 DEF Known
            <4> QED BY <1>5, <4>1, <4>2, <4>3
        <3> QED BY <3>3, <3>4
    <2> QED BY <2>1 DEF Known
<1>13. Alive(e, T2, y)
    <2>1. ASSUME NEW z \in T2, z # y PROVE e.node[z].link["mid"] # 0 \/ e.node[z].value # 0
        <3>1. z \in T /\ "mid" \in Ways
            BY <1>6, <2>1 DEF Ways
        <3>2. /\ e.node[z].value = d.node[z].value
              /\ e.node[z].link["mid"] = IF z = x /\ "mid" = way THEN y ELSE d.node[z].link["mid"]
            BY <1>5, <3>1
        <3>3. z = x0 \/ d.node[z].link["mid"] # 0 \/ d.node[z].value # 0
            BY <1>1, <3>1 DEF Alive
        <3>4. z # 0
            BY <1>2, <3>1
        <3> QED BY <1>8, <3>2, <3>3, <3>4
    <2> QED BY <2>1 DEF Alive
<1>14. Holds(e, T2, L2, mp)
    <2>1. /\ mp \in [Keys -> Values \cup {0}]
          /\ \A z \in T : d.node[z].value = IF L[z] \in Keys THEN mp[L[z]] ELSE 0
          /\ \A k \in Keys : mp[k] # 0 => \E z \in T : L[z] = k
        BY <1>1 DEF Holds
    <2>2. ASSUME NEW z \in T
          PROVE  e.node[z].value = IF L2[z] \in Keys THEN mp[L2[z]] ELSE 0
        BY <1>5, <1>11, <2>1
    <2>3. ASSUME L2[y] \in Keys PROVE mp[L2[y]] = 0
        <3>1. SUFFICES ASSUME NEW z \in T, L[z] = L2[y] PROVE FALSE
            BY <2>1, <2>3
        <3>2. z \in T2 /\ y \in T2 /\ L2[z] = L2[y]
            BY <1>6, <1>11, <3>1
        <3>3. z = y
            BY <1>9, <3>2, LabelsDiffer
        <3> QED BY <1>5, <3>3
    <2>4. \A z \in T2 : e.node[z].value = IF L2[z] \in Keys THEN mp[L2[z]] ELSE 0
        BY <1>5, <1>6, <2>2, <2>3
    <2>5. \A k \in Keys : mp[k] # 0 => \E z \in T2 : L2[z] = k
        <3>1. T \subseteq T2
            BY <1>6
        <3> QED BY <1>11, <2>1, <3>1
    <2> QED BY <2>1, <2>4, <2>5 DEF Holds
<1>15. Extends(d, T, e)
    <2>1. d.root # 0 => e.root = d.root
        BY <1>5 DEF Place
    <2>2. ASSUME NEW z \in T, NEW v \in Ways, d.node[z].link[v] # 0
          PROVE  e.node[z].link[v] = d.node[z].link[v]
        <3>1. z = x /\ v = way => d.node[z].link[v] = 0
            <4>1. z # 0
                BY <1>2
            <4> QED BY <4>1 DEF Place
        <3> QED BY <1>5, <2>2, <3>1
    <2> QED BY <2>1, <2>2 DEF Extends
<1>16. State(e, T2, L2, D2, F2, mp, y)
    BY <1>7, <1>10, <1>12, <1>13, <1>14 DEF State
<1>17. T \subseteq T2
    BY <1>6
<1> QED
    BY <1>4, <1>5, <1>9, <1>11, <1>15, <1>16, <1>17 DEF Growing

\* The nodes that insert makes, one after the other.
GrownAt(f, d, s, i, x, way, n) ==
    f = [j \in 0..n |->
           IF j = 0 THEN [at |-> x, db |-> d]
           ELSE Leaf(f[j - 1].db, f[j - 1].at, IF j = 1 THEN way ELSE "mid", s[i + j - 1])]

LEMMA GrownExists ==
    ASSUME NEW d, NEW s, NEW i, NEW x, NEW way, NEW n \in Nat
    PROVE  \E f : GrownAt(f, d, s, i, x, way, n)
<1> DEFINE T == {u \in Nat : \E f : GrownAt(f, d, s, i, x, way, u)}
<1>1. 0 \in T
    <2>1. PICK f : f = [j \in 0..0 |-> [at |-> x, db |-> d]]
        OBVIOUS
    <2>2. \A j \in 0..0 : j = 0
        OBVIOUS
    <2>3. f = [j \in 0..0 |->
                 IF j = 0 THEN [at |-> x, db |-> d]
                 ELSE Leaf(f[j - 1].db, f[j - 1].at, IF j = 1 THEN way ELSE "mid", s[i + j - 1])]
        BY <2>1, <2>2
    <2> QED BY <2>3 DEF GrownAt
<1>2. ASSUME NEW u \in Nat, u \in T PROVE u + 1 \in T
    <2>1. PICK f : GrownAt(f, d, s, i, x, way, u)
        BY <1>2
    <2>2. PICK a : a = Leaf(f[u].db, f[u].at, IF u + 1 = 1 THEN way ELSE "mid", s[i + (u + 1) - 1])
        OBVIOUS
    <2>3. PICK g : g = [j \in 0..(u + 1) |-> IF j = u + 1 THEN a ELSE f[j]]
        OBVIOUS
    <2>4. ASSUME NEW j \in 0..(u + 1)
          PROVE  g[j] = IF j = 0 THEN [at |-> x, db |-> d]
                        ELSE Leaf(g[j - 1].db, g[j - 1].at, IF j = 1 THEN way ELSE "mid", s[i + j - 1])
        <3>1. CASE j = u + 1
            <4>1. j - 1 = u /\ u \in 0..(u + 1) /\ u # u + 1 /\ j # 0
                BY <3>1
            <4>2. g[u] = f[u] /\ g[j] = a
                BY <2>3, <3>1, <4>1
            <4> QED BY <2>2, <3>1, <4>1, <4>2
        <3>2. CASE j # u + 1
            <4>1. j \in 0..u /\ g[j] = f[j]
                BY <2>3, <3>2
            <4>2. f[j] = IF j = 0 THEN [at |-> x, db |-> d]
                         ELSE Leaf(f[j - 1].db, f[j - 1].at, IF j = 1 THEN way ELSE "mid", s[i + j - 1])
                BY <2>1, <4>1 DEF GrownAt
            <4>3. j # 0 => g[j - 1] = f[j - 1]
                <5>1. j # 0 => j - 1 \in 0..(u + 1) /\ j - 1 # u + 1
                    BY <4>1
                <5> QED BY <2>3, <5>1
            <4> QED BY <4>1, <4>2, <4>3
        <3> QED BY <3>1, <3>2
    <2>5. g = [j \in 0..(u + 1) |->
                 IF j = 0 THEN [at |-> x, db |-> d]
                 ELSE Leaf(g[j - 1].db, g[j - 1].at, IF j = 1 THEN way ELSE "mid", s[i + j - 1])]
        BY <2>3, <2>4
    <2>6. GrownAt(g, d, s, i, x, way, u + 1)
        BY <2>5 DEF GrownAt
    <2> QED BY <2>6
<1>3. n \in T
    <2> HIDE DEF T
    <2> QED BY <1>1, <1>2, Induction
<1> QED
    BY <1>3

LEMMA GrownRuns ==
    ASSUME NEW d, NEW s, NEW i, NEW x, NEW way, Len(s) - i + 1 \in Nat
    PROVE  \E f : /\ GrownAt(f, d, s, i, x, way, Len(s) - i + 1)
                  /\ Grown(d, s, i, x, way) = f[Len(s) - i + 1]
<1>0. PICK n : n = Len(s) - i + 1
    OBVIOUS
<1> DEFINE Is(f) == f = [j \in 0..n |->
                           IF j = 0 THEN [at |-> x, db |-> d]
                           ELSE LET g == f[j - 1] IN
                                Leaf(g.db, g.at, IF j = 1 THEN way ELSE "mid", s[i + j - 1])]
<1>1. \E f : Is(f)
    <2>1. PICK f : GrownAt(f, d, s, i, x, way, n)
        BY <1>0, GrownExists
    <2>2. Is(f)
        BY <2>1 DEF GrownAt
    <2> QED BY <2>2
<1>2. Is(CHOOSE f : Is(f))
    <2> HIDE DEF Is
    <2> QED BY <1>1
<1>3. PICK f : f = (CHOOSE f_1 : Is(f_1))
    OBVIOUS
<1>4. Grown(d, s, i, x, way) = f[n]
    BY <1>0, <1>3 DEF Grown
<1>5. Is(f)
    <2> HIDE DEF Is
    <2> QED BY <1>2, <1>3
<1>6. GrownAt(f, d, s, i, x, way, n)
    BY <1>5 DEF GrownAt
<1> QED
    BY <1>0, <1>4, <1>6

LEMMA ExtendsOn ==
    ASSUME NEW d, NEW e, NEW g, NEW T, NEW T2, T \subseteq T2, Extends(d, T, e), Extends(e, T2, g)
    PROVE  Extends(d, T, g)
BY DEF Extends

\* Below a new leaf there is a place for the next character.
LEMMA NextPlace ==
    ASSUME NEW d, NEW T, NEW L, NEW D, Tree(d, T, L, D), NEW s \in Key,
           NEW y, OnWay(d.node, T, L, D, s, y), NEW i \in 1..Len(s), i < Len(s),
           L[y] = Beginning(s, i), \A v \in Ways : d.node[y].link[v] = 0
    PROVE  Place(d, T, L, D, s, i + 1, y, "mid")
<1>1. Shape(d.root, d.node, T, L, D) /\ T \subseteq 1..d.size /\ y \in T
    BY DEF Tree, OnWay
<1>2. Len(L[y]) = i /\ L[y][i] = s[i] /\ i \in 1..i /\ i \in Nat /\ Len(s) \in Nat /\ s[i] \in Int
    <2>1. i \in 1..i /\ i \in Nat /\ Len(s) \in Nat
        BY DEF Key
    <2>2. s[i] \in Int
        BY DEF Key
    <2> QED BY <2>1, <2>2, BeginningIs
<1>3. d.node[y].c = s[i]
    BY <1>1, <1>2, NodeIs
<1>4. Way(d.node[y], s, Len(L[y])) = "mid" /\ "mid" \in Ways
    BY <1>2, <1>3 DEF Way, Ways
<1>5. y # 0
    BY <1>1
<1> QED
    BY <1>2, <1>4, <1>5 DEF Place

\* All that grow is the key s, whose node is the last.
GrownWell(d, T, s, mp, g, i) == Growing(d, T, s, mp, g.db, g.at, i)

LEMMA GrownIs ==
    ASSUME NEW d, NEW T, NEW L, NEW D, NEW F, NEW mp, State(d, T, L, D, F, mp, 0),
           NEW s \in Key, NEW i, NEW x, NEW way \in Ways, Place(d, T, L, D, s, i, x, way)
    PROVE  GrownWell(d, T, s, mp, Grown(d, s, i, x, way), Len(s))
<1>1. PICK a : a = Leaf(d, x, way, s[i])
    OBVIOUS
<1>2. GrownWell(d, T, s, mp, a, i)
    <2>1. PICK e, y : e = a.db /\ y = a.at
        OBVIOUS
    <2>2. Growing(d, T, s, mp, e, y, i)
        <3>1. s[i] \in Int /\ x \in T \cup {0}
            BY PlaceIs DEF State
        <3>2. PICK ch : ch = s[i]
            OBVIOUS
        <3>3. Leaved(d, T, x, way, ch, e, y)
            BY <1>1, <2>1, <3>1, <3>2, LeafTyped DEF State
        <3> QED BY <3>2, <3>3, LeafIs
    <2> QED BY <2>1, <2>2 DEF GrownWell
<1>3. i \in 1..Len(s) /\ Len(s) \in Nat /\ i \in Nat
    <2>1. i \in 1..Len(s)
        BY <1>2 DEF GrownWell, Growing
    <2> QED BY <2>1 DEF Key
<1>4. PICK n : n = Len(s) - i + 1
    OBVIOUS
<1>5. n \in Nat /\ n # 0
    BY <1>3, <1>4
<1>6. PICK f : GrownAt(f, d, s, i, x, way, n) /\ Grown(d, s, i, x, way) = f[n]
    <2>1. Len(s) - i + 1 \in Nat
        BY <1>4, <1>5
    <2>2. PICK f : /\ GrownAt(f, d, s, i, x, way, Len(s) - i + 1)
                   /\ Grown(d, s, i, x, way) = f[Len(s) - i + 1]
        BY <2>1, GrownRuns
    <2> QED BY <1>4, <2>2
<1> DEFINE U == {j \in Nat : j \in 1..n => GrownWell(d, T, s, mp, f[j], i + j - 1)}
<1>7. 0 \in U
    OBVIOUS
<1>8. ASSUME NEW j \in Nat, j \in U PROVE j + 1 \in U
    <2>1. SUFFICES ASSUME j + 1 \in 1..n PROVE GrownWell(d, T, s, mp, f[j + 1], i + (j + 1) - 1)
        OBVIOUS
    <2>2. CASE j = 0
        <3>1. f[1] = Leaf(f[1 - 1].db, f[1 - 1].at, way, s[i + 1 - 1])
            BY <1>5, <1>6, <2>1, <2>2 DEF GrownAt
        <3>2. f[0] = [at |-> x, db |-> d]
            BY <1>5, <1>6 DEF GrownAt
        <3>3. i + 1 - 1 = i /\ 1 - 1 = 0
            BY <1>3
        <3>4. f[1] = a
            BY <1>1, <3>1, <3>2, <3>3
        <3> QED BY <1>2, <2>2, <3>3, <3>4
    <2>3. CASE j # 0
        <3>1. j \in 1..n /\ j + 1 # 0 /\ j + 1 # 1 /\ j + 1 - 1 = j /\ j + 1 \in 0..n
            BY <1>5, <2>1, <2>3
        <3>2. PICK g, k : g = f[j] /\ k = i + j - 1
            OBVIOUS
        <3>3. k \in Nat /\ k + 1 = i + (j + 1) - 1 /\ k < Len(s)
            BY <1>3, <1>4, <1>5, <2>1, <3>1, <3>2
        <3>4. f[j + 1] = Leaf(g.db, g.at, "mid", s[k + 1])
            BY <1>6, <3>1, <3>2, <3>3 DEF GrownAt
        <3>5. GrownWell(d, T, s, mp, g, k)
            BY <1>8, <3>1, <3>2
        <3>6. PICK T2, L2, D2, F2 :
                 /\ State(g.db, T2, L2, D2, F2, mp, g.at) /\ OnWay(g.db.node, T2, L2, D2, s, g.at)
                 /\ T \subseteq T2 /\ L2[g.at] = Beginning(s, k) /\ k \in 1..Len(s)
                 /\ \A v \in Ways : g.db.node[g.at].link[v] = 0
                 /\ Extends(d, T, g.db)
            BY <3>5 DEF GrownWell, Growing
        <3>7. Place(g.db, T2, L2, D2, s, k + 1, g.at, "mid")
            BY <3>3, <3>6, NextPlace DEF State
        <3>8. PICK e, y : e = f[j + 1].db /\ y = f[j + 1].at
            OBVIOUS
        <3>9. "mid" \in Ways
            BY DEF Ways
        <3>10. PICK T3, L3, D3, F3 :
                  /\ State(e, T3, L3, D3, F3, mp, y) /\ OnWay(e.node, T3, L3, D3, s, y)
                  /\ T2 \subseteq T3 /\ L3[y] = Beginning(s, k + 1) /\ k + 1 \in 1..Len(s)
                  /\ \A v \in Ways : e.node[y].link[v] = 0
                  /\ Extends(g.db, T2, e)
            <4>1. s[k + 1] \in Int /\ g.at \in T2 \cup {0}
                BY <3>6, <3>7, <3>9, PlaceIs DEF State
            <4>2. PICK ch, h, x2, k2, w : ch = s[k + 1] /\ h = g.db /\ x2 = g.at /\ k2 = k + 1 /\ w = "mid"
                OBVIOUS
            <4>3. /\ State(h, T2, L2, D2, F2, mp, x2) /\ Place(h, T2, L2, D2, s, k2, x2, w)
                  /\ e = Leaf(h, x2, w, ch).db /\ y = Leaf(h, x2, w, ch).at
                  /\ x2 \in T2 \cup {0} /\ ch \in Int
                BY <3>4, <3>6, <3>7, <3>8, <4>1, <4>2
            <4>4. Leaved(h, T2, x2, w, ch, e, y) /\ w \in Ways
                BY <3>9, <4>2, <4>3, LeafTyped DEF State
            <4>5. Leaved(h, T2, x2, w, s[k2], e, y)
                BY <4>2, <4>4
            <4>7. x2 = 0 \/ (x2 = x2 /\ w = "mid")
                BY <4>2
            <4>6. Growing(h, T2, s, mp, e, y, k2)
                BY <4>3, <4>4, <4>5, <4>7, LeafIs
            <4> QED BY <4>2, <4>6 DEF Growing
        <3>11. Extends(d, T, e) /\ T \subseteq T3
            BY <3>6, <3>10, ExtendsOn
        <3>12. GrownWell(d, T, s, mp, f[j + 1], k + 1)
            BY <3>8, <3>10, <3>11 DEF GrownWell, Growing
        <3> QED BY <3>3, <3>12
    <2> QED BY <2>2, <2>3
<1>9. n \in U
    <2> HIDE DEF U
    <2> QED BY <1>5, <1>7, <1>8, Induction
<1>10. i + n - 1 = Len(s) /\ n \in 1..n
    BY <1>3, <1>4, <1>5
<1> QED
    BY <1>6, <1>9, <1>10

-----------------------------------------------------------------------------
(* What tst_put makes of the tree.                                         *)

\* The tree and the free list are in the characters and links alone.
LEMMA SameTree ==
    ASSUME NEW d, NEW T, NEW L, NEW D, NEW F, Tree(d, T, L, D), FreeList(d, T, F),
           NEW e, Typed(e), e.size = d.size, e.cap = d.cap, e.root = d.root, e.fhead = d.fhead,
           e.node[0] = Blank,
           \A z \in 1..d.size : e.node[z].c = d.node[z].c /\ e.node[z].link = d.node[z].link
    PROVE  Tree(e, T, L, D) /\ FreeList(e, T, F)
<1>1. T \subseteq 1..d.size /\ Shape(d.root, d.node, T, L, D) /\ d.size < d.cap
    BY DEF Tree
<1>2. \A z \in T : e.node[z].c = d.node[z].c /\ e.node[z].link = d.node[z].link
    BY <1>1
<1>3. Shape(e.root, e.node, T, L, D)
    BY <1>1, <1>2, SameShape
<1>4. Tree(e, T, L, D)
    BY <1>1, <1>3 DEF Tree
<1>5. FreeList(e, T, F)
    BY SameFree
<1> QED
    BY <1>4, <1>5

\* The value of the node x of the key s is set.
LEMMA ValueIs ==
    ASSUME NEW d, NEW T, NEW L, NEW D, NEW F, NEW mp, NEW x0, State(d, T, L, D, F, mp, x0),
           NEW s \in Keys, NEW x \in T, L[x] = s, x0 \in {0, x}, NEW v \in Values \cup {0},
           NEW e, e = [d EXCEPT !.node[x].value = v]
    PROVE  /\ State(e, T, L, D, F, [mp EXCEPT ![s] = v], IF v = 0 THEN x ELSE 0)
           /\ e.size = d.size /\ e.root = d.root
           /\ \A z \in 0..d.size : e.node[z].parent = d.node[z].parent /\ e.node[z].link = d.node[z].link
<1>1. Tree(d, T, L, D) /\ FreeList(d, T, F) /\ Known(d, T) /\ Alive(d, T, x0) /\ Holds(d, T, L, mp)
    BY DEF State
<1>2. Typed(d) /\ T \subseteq 1..d.size /\ Shape(d.root, d.node, T, L, D) /\ d.node[0] = Blank
    BY <1>1 DEF Tree
<1>3. d.size \in Nat /\ x \in 0..d.size /\ x # 0 /\ d.node[x] \in NodeOf(d.size)
    <2>1. d.size \in Nat /\ x \in 0..d.size /\ x # 0
        BY <1>2, TypedIs
    <2> QED BY <1>2, <2>1, TypedIs
<1>4. PICK n : n = [d.node[x] EXCEPT !.value = v]
    OBVIOUS
<1>5. /\ n.c = d.node[x].c /\ n.link = d.node[x].link /\ n.parent = d.node[x].parent /\ n.value = v
      /\ n \in NodeOf(d.size)
    <2>1. /\ d.node[x] = [c |-> d.node[x].c, link |-> d.node[x].link,
                          parent |-> d.node[x].parent, value |-> d.node[x].value]
          /\ d.node[x].c \in Int /\ d.node[x].link \in [Ways -> 0..d.size]
          /\ d.node[x].parent \in 0..d.size
        BY <1>3, NodeParts
    <2>2. n = [c |-> d.node[x].c, link |-> d.node[x].link, parent |-> d.node[x].parent, value |-> v]
        BY <1>4, <2>1
    <2> QED BY <2>1, <2>2 DEF NodeOf
<1>60. PICK e2 : e2 = WithNode(d, x, n)
    OBVIOUS
<1>6. e = e2
    <2>1. d \in [root : 0..d.size, size : {d.size}, cap : Nat, fhead : 0..d.size,
                 node : [0..d.size -> NodeOf(d.size)]]
        BY <1>2 DEF Typed, DbOf
    <2> QED BY <1>3, <1>4, <1>60, <2>1 DEF WithNode
<1>7. /\ Typed(e)
      /\ e.root = d.root /\ e.size = d.size /\ e.cap = d.cap /\ e.fhead = d.fhead
      /\ e.node[x] = n /\ \A z \in 0..d.size : z # x => e.node[z] = d.node[z]
    <2>1. Typed(d) /\ x \in 0..d.size /\ n \in NodeOf(d.size)
        BY <1>2, <1>3, <1>5
    <2>2. /\ Typed(e2)
          /\ e2.root = d.root /\ e2.size = d.size /\ e2.cap = d.cap /\ e2.fhead = d.fhead
          /\ e2.node[x] = n /\ \A z \in 0..d.size : z # x => e2.node[z] = d.node[z]
        BY <1>60, <2>1, SetNode
    <2> QED BY <1>6, <2>2
<1>8. \A z \in 0..d.size : /\ e.node[z].parent = d.node[z].parent /\ e.node[z].link = d.node[z].link
                           /\ e.node[z].c = d.node[z].c
                           /\ e.node[z].value = IF z = x THEN v ELSE d.node[z].value
    BY <1>5, <1>7
<1>9. Tree(e, T, L, D) /\ FreeList(e, T, F)
    <2>1. e.node[0] = Blank
        <3>1. 0 \in 0..d.size
            BY <1>3
        <3> QED BY <1>2, <1>3, <1>7, <3>1
    <2>2. \A z \in 1..d.size : e.node[z].c = d.node[z].c /\ e.node[z].link = d.node[z].link
        <3>1. \A z \in 1..d.size : z \in 0..d.size
            BY <1>3
        <3> QED BY <1>8, <3>1
    <2> QED BY <1>1, <1>7, <2>1, <2>2, SameTree
<1>10. \A z \in T : z \in 0..d.size
    BY <1>2, <1>3
<1>11. Known(e, T)
    <2>1. ASSUME NEW z \in T, NEW w \in {"left", "mid"}, e.node[z].link[w] # 0
          PROVE  e.node[e.node[z].link[w]].parent = z
        <3>1. w \in Ways /\ e.node[z].link = d.node[z].link
            BY <1>8, <1>10 DEF Ways
        <3>2. d.node[z].link[w] \in T
            BY <1>2, <2>1, <3>1, LinkIs
        <3>3. d.node[d.node[z].link[w]].parent = z
            BY <1>1, <2>1, <3>1 DEF Known
        <3> QED BY <1>8, <1>10, <3>1, <3>2, <3>3
    <2> QED BY <2>1 DEF Known
<1>12. Alive(e, T, IF v = 0 THEN x ELSE 0)
    <2>1. ASSUME NEW z \in T, z # x PROVE e.node[z].link["mid"] # 0 \/ e.node[z].value # 0
        <3>1. z # x0 /\ z \in 0..d.size
            BY <1>2, <1>10, <2>1
        <3> QED BY <1>1, <1>8, <2>1, <3>1 DEF Alive
    <2>2. e.node[x].value = v
        BY <1>3, <1>8
    <2> QED BY <2>1, <2>2 DEF Alive
<1>13. Holds(e, T, L, [mp EXCEPT ![s] = v])
    <2>1. /\ mp \in [Keys -> Values \cup {0}]
          /\ \A z \in T : d.node[z].value = IF L[z] \in Keys THEN mp[L[z]] ELSE 0
          /\ \A k \in Keys : mp[k] # 0 => \E z \in T : L[z] = k
        BY <1>1 DEF Holds
    <2>2. PICK mp2 : mp2 = [mp EXCEPT ![s] = v]
        OBVIOUS
    <2>3. mp2 \in [Keys -> Values \cup {0}] /\ mp2[s] = v /\ \A k \in Keys : k # s => mp2[k] = mp[k]
        BY <2>1, <2>2
    <2>4. ASSUME NEW z \in T PROVE e.node[z].value = IF L[z] \in Keys THEN mp2[L[z]] ELSE 0
        <3>1. CASE z = x
            BY <1>3, <1>8, <2>3, <3>1
        <3>2. CASE z # x
            <4>1. L[z] # s
                BY <1>2, <3>2, LabelsDiffer
            <4> QED BY <1>8, <1>10, <2>1, <2>3, <3>2, <4>1
        <3> QED BY <3>1, <3>2
    <2>5. \A k \in Keys : mp2[k] # 0 => \E z \in T : L[z] = k
        BY <2>1, <2>3
    <2> QED BY <2>2, <2>3, <2>4, <2>5 DEF Holds
<1> QED
    BY <1>7, <1>8, <1>9, <1>11, <1>12, <1>13 DEF State

\* The nodes on the path have their parents written.
Parenting(d, path, e) ==
    /\ Typed(e) /\ e.root = d.root /\ e.size = d.size /\ e.cap = d.cap /\ e.fhead = d.fhead
    /\ e.node[0] = d.node[0]
    /\ \A x \in 0..d.size :
          /\ e.node[x].c = d.node[x].c /\ e.node[x].link = d.node[x].link
          /\ e.node[x].value = d.node[x].value
          /\ (\A n \in 1..Len(path) : path[n].at # x) => e.node[x].parent = d.node[x].parent
          /\ (\E n \in 1..Len(path) : path[n].at = x) =>
                \E n \in 1..Len(path) :
                   path[n].at = x /\ e.node[x].parent = IF n = 1 THEN 0 ELSE path[n - 1].at

LEMMA ParentedNodes ==
    ASSUME NEW d, Typed(d), NEW path, Len(path) \in Nat, DOMAIN path = 1..Len(path),
           \A n \in 1..Len(path) : path[n].at \in 1..d.size,
           NEW e, e = Parented(d, path)
    PROVE  Parenting(d, path, e)
<1> DEFINE passed(x) == {n \in DOMAIN path : path[n].at = x}
           above(n)  == IF n = 1 THEN 0 ELSE path[n - 1].at
           node(x)   == IF passed(x) = {} THEN d.node[x]
                        ELSE [d.node[x] EXCEPT !.parent = above(CHOOSE n \in passed(x) : TRUE)]
<1>1. /\ d.size \in Nat /\ d.node \in [0..d.size -> NodeOf(d.size)]
      /\ d \in [root : 0..d.size, size : {d.size}, cap : Nat, fhead : 0..d.size,
                node : [0..d.size -> NodeOf(d.size)]]
    BY TypedIs DEF Typed, DbOf
<1>2. DOMAIN path = 1..Len(path) /\ Len(path) \in Nat
    OBVIOUS
<1>3. \A n \in 1..Len(path) : path[n].at \in 1..d.size
    OBVIOUS
<1>4. ASSUME NEW n \in 1..Len(path) PROVE above(n) \in 0..d.size
    <2>1. CASE n = 1
        BY <1>1, <2>1
    <2>2. CASE n # 1
        <3>1. n - 1 \in 1..Len(path)
            BY <1>2, <2>2
        <3>2. path[n - 1].at \in 1..d.size
            BY <1>3, <3>1
        <3> QED BY <1>1, <2>2, <3>2
    <2> QED BY <2>1, <2>2
<1>5. ASSUME NEW x \in 0..d.size
      PROVE  /\ node(x) \in NodeOf(d.size)
             /\ node(x).c = d.node[x].c /\ node(x).link = d.node[x].link /\ node(x).value = d.node[x].value
             /\ passed(x) = {} => node(x) = d.node[x]
             /\ passed(x) # {} => \E n \in passed(x) : node(x).parent = above(n)
    <2>0. d.node[x] \in NodeOf(d.size)
        BY <1>1
    <2>1. CASE passed(x) = {}
        BY <2>0, <2>1
    <2>2. CASE passed(x) # {}
        <3>1. PICK n : n = (CHOOSE n_1 \in passed(x) : TRUE)
            OBVIOUS
        <3>2. n \in passed(x)
            BY <2>2, <3>1
        <3>3. PICK p : p = above(n)
            OBVIOUS
        <3>4. p \in 0..d.size
            BY <1>2, <1>4, <3>2, <3>3
        <3>5. node(x) = [d.node[x] EXCEPT !.parent = p]
            BY <2>2, <3>1, <3>3
        <3>6. /\ d.node[x] = [c |-> d.node[x].c, link |-> d.node[x].link,
                              parent |-> d.node[x].parent, value |-> d.node[x].value]
              /\ d.node[x].c \in Int /\ d.node[x].link \in [Ways -> 0..d.size]
              /\ d.node[x].value \in Values \cup {0}
            BY <1>1, <2>0, NodeParts
        <3> HIDE DEF node, above, passed
        <3>7. node(x) = [c |-> d.node[x].c, link |-> d.node[x].link, parent |-> p,
                         value |-> d.node[x].value]
            BY <3>5, <3>6
        <3>8. node(x) \in NodeOf(d.size)
            BY <3>4, <3>6, <3>7 DEF NodeOf
        <3> QED BY <2>2, <3>2, <3>3, <3>7, <3>8
    <2> QED BY <2>1, <2>2
<1>6. PICK N : N = [x \in 0..d.size |-> node(x)]
    OBVIOUS
<1>7. e = [d EXCEPT !.node = N]
    <2>1. DOMAIN d.node = 0..d.size
        BY <1>1
    <2> QED BY <1>6, <2>1 DEF Parented
<1>8. e = [root |-> d.root, size |-> d.size, cap |-> d.cap, fhead |-> d.fhead, node |-> N]
    BY <1>1, <1>7
<1> HIDE DEF node
<1>9. N \in [0..d.size -> NodeOf(d.size)] /\ \A x \in 0..d.size : N[x] = node(x)
    BY <1>5, <1>6
<1>10. Typed(e)
    BY <1>1, <1>8, <1>9 DEF Typed, DbOf
<1>11. ASSUME NEW x \in 0..d.size
       PROVE  /\ N[x].c = d.node[x].c /\ N[x].link = d.node[x].link /\ N[x].value = d.node[x].value
              /\ (\A n \in 1..Len(path) : path[n].at # x) => N[x] = d.node[x]
              /\ (\E n \in 1..Len(path) : path[n].at = x) =>
                    \E n \in 1..Len(path) :
                       path[n].at = x /\ N[x].parent = IF n = 1 THEN 0 ELSE path[n - 1].at
    <2>1. N[x] = node(x)
        BY <1>9
    <2>2. (\A n \in 1..Len(path) : path[n].at # x) => passed(x) = {}
        BY <1>2
    <2>3. (\E n \in 1..Len(path) : path[n].at = x) => passed(x) # {}
        BY <1>2
    <2>4. ASSUME NEW n \in passed(x) PROVE n \in 1..Len(path) /\ path[n].at = x
        BY <1>2
    <2> HIDE DEF passed
    <2>5. /\ N[x].c = d.node[x].c /\ N[x].link = d.node[x].link /\ N[x].value = d.node[x].value
          /\ (\A n \in 1..Len(path) : path[n].at # x) => N[x] = d.node[x]
        BY <1>5, <2>1, <2>2
    <2>6. ASSUME \E n \in 1..Len(path) : path[n].at = x
          PROVE  \E n \in 1..Len(path) :
                    path[n].at = x /\ N[x].parent = IF n = 1 THEN 0 ELSE path[n - 1].at
        <3>1. PICK n \in passed(x) : node(x).parent = above(n)
            BY <1>5, <2>3, <2>6
        <3> QED BY <2>1, <2>4, <3>1
    <2> QED BY <2>5, <2>6
<1>12. N[0] = d.node[0]
    <2>1. 0 \in 0..d.size
        BY <1>1
    <2>2. \A n \in 1..Len(path) : path[n].at # 0
        BY <1>3
    <2> QED BY <1>11, <2>1, <2>2
<1>13. e.root = d.root /\ e.size = d.size /\ e.cap = d.cap /\ e.fhead = d.fhead /\ e.node = N
    BY <1>8
<1>14. ASSUME NEW x \in 0..d.size, \A n \in 1..Len(path) : path[n].at # x
       PROVE  N[x].parent = d.node[x].parent
    BY <1>11, <1>14
<1> QED
    BY <1>10, <1>11, <1>12, <1>13, <1>14 DEF Parenting

LEMMA ParentedIs ==
    ASSUME NEW d, NEW T, NEW L, NEW D, Tree(d, T, L, D), NEW s \in Key,
           NEW path, OnPath(d, T, L, D, s, path),
           NEW e, NEW T2, NEW L2, NEW D2, NEW F2, NEW mp, State(e, T2, L2, D2, F2, mp, 0),
           T \subseteq T2, Extends(d, T, e)
    PROVE  State(Parented(e, path), T2, L2, D2, F2, mp, 0)
<1>1. /\ Tree(e, T2, L2, D2) /\ FreeList(e, T2, F2) /\ Known(e, T2) /\ Alive(e, T2, 0)
      /\ Holds(e, T2, L2, mp)
    BY DEF State
<1>2. /\ Typed(e) /\ T2 \subseteq 1..e.size /\ e.node[0] = Blank
      /\ Shape(e.root, e.node, T2, L2, D2) /\ e.size \in Nat
    BY <1>1, TypedIs DEF Tree
<1>3. T \subseteq 1..e.size
    BY <1>2
<1>4. PICK g : g = Parented(e, path)
    OBVIOUS
<1>5. /\ Typed(g) /\ g.root = e.root /\ g.size = e.size /\ g.cap = e.cap /\ g.fhead = e.fhead
      /\ g.node[0] = e.node[0]
      /\ \A x \in 0..e.size :
            /\ g.node[x].c = e.node[x].c /\ g.node[x].link = e.node[x].link
            /\ g.node[x].value = e.node[x].value
            /\ (\A n \in 1..Len(path) : path[n].at # x) => g.node[x].parent = e.node[x].parent
            /\ (\E n \in 1..Len(path) : path[n].at = x) =>
                  \E n \in 1..Len(path) :
                     /\ path[n].at = x
                     /\ g.node[x].parent = IF n = 1 THEN 0 ELSE path[n - 1].at
    <2>1. Typed(e) /\ T \subseteq 1..e.size
        BY <1>2, <1>3
    <2>2. /\ DOMAIN path = 1..Len(path) /\ Len(path) \in Nat
          /\ \A n \in 1..Len(path) : path[n].at \in 1..e.size
        <3>1. /\ DOMAIN path = 1..Len(path) /\ Len(path) \in Nat
              /\ \A n \in 1..Len(path) : path[n].at \in T
            BY PathIs
        <3> QED BY <2>1, <3>1
    <2>3. Parenting(e, path, g)
        BY <1>4, <2>1, <2>2, ParentedNodes
    <2> QED BY <2>3 DEF Parenting
<1>6. \A x \in T2 : x \in 0..e.size /\ x # 0
    BY <1>2
<1>7. Tree(g, T2, L2, D2) /\ FreeList(g, T2, F2)
    <2>1. \A z \in 1..e.size : g.node[z].c = e.node[z].c /\ g.node[z].link = e.node[z].link
        <3>1. \A z \in 1..e.size : z \in 0..e.size
            BY <1>2
        <3> QED BY <1>5, <3>1
    <2> QED BY <1>1, <1>2, <1>5, <2>1, SameTree
<1>8. \A x \in T2 : g.node[x].link = e.node[x].link /\ g.node[x].value = e.node[x].value
    BY <1>5, <1>6
<1>9. Alive(g, T2, 0) /\ Holds(g, T2, L2, mp)
    BY <1>1, <1>8 DEF Alive, Holds
<1>10. ASSUME NEW x \in T2, NEW way \in {"left", "mid"}, g.node[x].link[way] # 0
       PROVE  g.node[g.node[x].link[way]].parent = x
    <2>1. PICK z : z = e.node[x].link[way]
        OBVIOUS
    <2>2. way \in Ways /\ z = g.node[x].link[way] /\ z # 0
        BY <1>8, <1>10, <2>1 DEF Ways
    <2>3. z \in T2 /\ e.node[z].parent = x
        <3>1. Shape(e.root, e.node, T2, L2, D2)
            BY <1>2
        <3>2. z \in T2 \cup {0}
            <4>1. way \in Ways
                BY <2>2
            <4>2. e.node[x].link[way] \in T2 \cup {0}
                BY <3>1, <4>1, LinkIs
            <4> QED BY <2>1, <4>2
        <3> QED BY <1>1, <2>1, <2>2, <3>2 DEF Known
    <2>4. CASE \A n \in 1..Len(path) : path[n].at # z
        BY <1>5, <1>6, <2>2, <2>3, <2>4
    <2>5. CASE \E n \in 1..Len(path) : path[n].at = z
        <3>1. PICK n \in 1..Len(path) :
                 path[n].at = z /\ g.node[z].parent = IF n = 1 THEN 0 ELSE path[n - 1].at
            BY <1>5, <1>6, <2>3, <2>5
        <3>2. Len(path) \in Nat
            BY PathIs
        <3>3. n # 1
            <4>1. SUFFICES ASSUME n = 1 PROVE FALSE
                OBVIOUS
            <4>2. z = d.root /\ d.root # 0
                BY <2>2, <3>1, <4>1 DEF OnPath
            <4>3. z = e.root
                BY <4>2 DEF Extends
            <4>4. Shape(e.root, e.node, T2, L2, D2)
                BY <1>2
            <4>5. way \in Ways
                BY <2>2
            <4>6. e.node[x].link[way] # 0 => e.node[x].link[way] # e.root
                BY <4>4, <4>5, RootHasNone
            <4> QED BY <2>1, <2>2, <4>3, <4>6
        <3>4. PICK k : k = n - 1
            OBVIOUS
        <3>5. k \in 1..(Len(path) - 1) /\ k + 1 = n
            BY <3>1, <3>2, <3>3, <3>4
        <3>6. /\ k \in 1..Len(path)
              /\ Way(d.node[path[k].at], s, path[k].i) \in Ways
              /\ path[n].at = d.node[path[k].at].link[Way(d.node[path[k].at], s, path[k].i)]
            BY <3>5, PathIs
        <3>7. PICK v, y : v = Way(d.node[path[k].at], s, path[k].i) /\ y = path[k].at
            OBVIOUS
        <3>8. y \in T /\ v \in Ways /\ d.node[y].link[v] = z
            BY <3>1, <3>6, <3>7, PathIs
        <3>9. e.node[y].link[v] = z
            BY <2>2, <3>8 DEF Extends
        <3>10. y = x
            <4>1. Shape(e.root, e.node, T2, L2, D2) /\ y \in T2
                BY <1>2, <3>8
            <4>2. way \in Ways /\ v \in Ways
                BY <2>2, <3>8
            <4>3. e.node[y].link[v] # 0 /\ e.node[y].link[v] = e.node[x].link[way]
                BY <2>1, <2>2, <3>9
            <4> QED BY <4>1, <4>2, <4>3, OneParent
        <3> QED BY <2>2, <3>1, <3>3, <3>4, <3>7, <3>10
    <2> QED BY <2>4, <2>5
<1>11. Known(g, T2)
    BY <1>10 DEF Known
<1> QED
    BY <1>4, <1>7, <1>9, <1>11 DEF State

LEMMA PutIs ==
    ASSUME NEW d, NEW T, NEW L, NEW D, NEW F, NEW mp, State(d, T, L, D, F, mp, 0),
           NEW s \in Keys, s \in Key, NEW v \in Values
    PROVE  \E T2, L2, D2, F2 : State(TstPut(d, s, v), T2, L2, D2, F2, [mp EXCEPT ![s] = v], 0)
<1>1. Tree(d, T, L, D) /\ Shape(d.root, d.node, T, L, D) /\ T \subseteq 1..d.size
    BY DEF State, Tree
<1>2. PICK path : path = Visits(d, s)
    OBVIOUS
<1>3. OnPath(d, T, L, D, s, path) /\ (path # << >> => Ends(d, s, path[Len(path)]))
    BY <1>1, <1>2, VisitsIs
<1>4. PICK last : last = path[Len(path)]
    OBVIOUS
<1>5. PICK way : way = Way(d.node[last.at], s, last.i)
    OBVIOUS
<1>6. PICK end : end = IF path = << >> THEN Grown(d, s, 1, 0, "mid")
                       ELSE IF way = "value" THEN [at |-> last.at, db |-> d]
                       ELSE Grown(d, s, Onward(d, s, last).i, last.at, way)
    OBVIOUS
<1>7. TstPut(d, s, v) = Parented([end.db EXCEPT !.node[end.at].value = v], path)
    BY <1>2, <1>4, <1>5, <1>6 DEF TstPut
<1>8. \E T2, L2, D2, F2, x0 :
         /\ State(end.db, T2, L2, D2, F2, mp, x0) /\ x0 \in {0, end.at}
         /\ end.at \in T2 /\ L2[end.at] = s /\ T \subseteq T2 /\ Extends(d, T, end.db)
    <2>1. ASSUME NEW i, NEW x, NEW w \in Ways, Place(d, T, L, D, s, i, x, w),
                 end = Grown(d, s, i, x, w)
          PROVE  \E T2, L2, D2, F2, x0 :
                    /\ State(end.db, T2, L2, D2, F2, mp, x0) /\ x0 \in {0, end.at}
                    /\ end.at \in T2 /\ L2[end.at] = s /\ T \subseteq T2 /\ Extends(d, T, end.db)
        <3>1. GrownWell(d, T, s, mp, end, Len(s))
            BY <2>1, GrownIs
        <3>2. PICK T2, L2, D2, F2 :
                 /\ State(end.db, T2, L2, D2, F2, mp, end.at) /\ OnWay(end.db.node, T2, L2, D2, s, end.at)
                 /\ T \subseteq T2 /\ L2[end.at] = Beginning(s, Len(s)) /\ Len(s) \in 1..Len(s)
                 /\ Extends(d, T, end.db)
            BY <3>1 DEF GrownWell, Growing
        <3>3. L2[end.at] = s /\ end.at \in T2
            BY <3>2, BeginningIs DEF OnWay
        <3> QED BY <3>2, <3>3
    <2>2. CASE path = << >>
        <3>1. d.root = 0
            BY <1>3, <2>2 DEF OnPath
        <3>2. Place(d, T, L, D, s, 1, 0, "mid") /\ "mid" \in Ways
            BY <3>1 DEF Place, Ways
        <3> QED BY <1>6, <2>1, <2>2, <3>2
    <2>3. CASE path # << >>
        <3>1. /\ Len(path) \in 1..Len(path) /\ last.at \in T /\ last.at # 0
              /\ OnWay(d.node, T, L, D, s, last.at)
              /\ Agree(s, L[last.at]) /\ last.i = Len(L[last.at])
            BY <1>1, <1>3, <1>4, <2>3, PathIs
        <3>2. way \in Ways \cup {"value"} /\ (way = "value" => s = L[last.at])
            BY <1>1, <1>5, <3>1, WayIs
        <3>3. CASE way = "value"
            <4>1. end.at = last.at /\ end.db = d
                BY <1>6, <2>3, <3>3
            <4>2. Extends(d, T, d)
                BY DEF Extends
            <4> QED BY <3>1, <3>2, <3>3, <4>1, <4>2
        <3>4. CASE way \in Ways
            <4>1. way # "value"
                BY <3>4 DEF Ways
            <4>2. /\ Onward(d, s, last).at = d.node[last.at].link[way]
                  /\ Onward(d, s, last).i = IF way = "mid" THEN last.i + 1 ELSE last.i
                BY <1>5, <4>1 DEF Onward
            <4>3. d.node[last.at].link[way] = 0
                BY <1>3, <1>4, <2>3, <4>2 DEF Ends
            <4>4. Place(d, T, L, D, s, Onward(d, s, last).i, last.at, way)
                BY <1>5, <3>1, <4>2, <4>3 DEF Place
            <4>5. end = Grown(d, s, Onward(d, s, last).i, last.at, way)
                BY <1>6, <2>3, <4>1
            <4> QED BY <2>1, <3>4, <4>4, <4>5
        <3> QED BY <3>2, <3>3, <3>4
    <2> QED BY <2>2, <2>3
<1>9. PICK T2, L2, D2, F2, x0 :
         /\ State(end.db, T2, L2, D2, F2, mp, x0) /\ x0 \in {0, end.at}
         /\ end.at \in T2 /\ L2[end.at] = s /\ T \subseteq T2 /\ Extends(d, T, end.db)
    BY <1>8
<1>10. PICK e, mp2 : e = [end.db EXCEPT !.node[end.at].value = v] /\ mp2 = [mp EXCEPT ![s] = v]
    OBVIOUS
<1>11. PICK g, x : g = end.db /\ x = end.at
    OBVIOUS
<1>12. /\ State(g, T2, L2, D2, F2, mp, x0) /\ x0 \in {0, x}
       /\ x \in T2 /\ L2[x] = s /\ T \subseteq T2 /\ Extends(d, T, g)
       /\ e = [g EXCEPT !.node[x].value = v]
    BY <1>9, <1>10, <1>11
<1>13. v \in Values \cup {0} /\ v # 0
    BY KeysAssumption
<1>14. /\ State(e, T2, L2, D2, F2, [mp EXCEPT ![s] = v], IF v = 0 THEN x ELSE 0)
       /\ e.size = g.size /\ e.root = g.root
       /\ \A z \in 0..g.size : e.node[z].link = g.node[z].link
    BY <1>12, <1>13, ValueIs
<1>15. State(e, T2, L2, D2, F2, mp2, 0)
    BY <1>10, <1>13, <1>14
<1>16. Extends(d, T, e)
    <2>1. T2 \subseteq 1..g.size /\ g.size \in Nat
        BY <1>12, TypedIs DEF State, Tree
    <2>2. \A z \in T : z \in 0..g.size
        BY <1>12, <2>1
    <2> QED BY <1>12, <1>14, <2>2 DEF Extends
<1>17. State(Parented(e, path), T2, L2, D2, F2, mp2, 0)
    BY <1>1, <1>3, <1>12, <1>15, <1>16, ParentedIs
<1> QED
    BY <1>7, <1>10, <1>17

-----------------------------------------------------------------------------
(* The largest node of a level.                                            *)

LEMMA RightmostRuns ==
    ASSUME NEW d, Typed(d), NEW x \in 0..d.size
    PROVE  \E f \in [0..d.size -> 0..d.size] :
              /\ f[0] = x
              /\ \A n \in 0..d.size : n # 0 =>
                    f[n] = IF d.node[f[n - 1]].link["right"] = 0 THEN f[n - 1]
                           ELSE d.node[f[n - 1]].link["right"]
              /\ Rightmost(d, x) = f[d.size]
<1> DEFINE S == 0..d.size
           Is(f) == f = [n \in 0..d.size |->
                           IF n = 0 THEN x
                           ELSE LET y == f[n - 1]  r == d.node[y].link["right"]
                                IN  IF r = 0 THEN y ELSE r]
<1>1. d.size \in Nat
    BY TypedIs
<1>2. PICK step : step = [y \in S |-> IF d.node[y].link["right"] = 0 THEN y
                                      ELSE d.node[y].link["right"]]
    OBVIOUS
<1>3. step \in [S -> S]
    <2>1. ASSUME NEW y \in S PROVE d.node[y].link["right"] \in S
        BY TypedIs DEF Ways
    <2> QED BY <1>2, <2>1
<1>4. PICK steps : steps = [j \in Nat |-> step]
    OBVIOUS
<1>5. steps \in [Nat -> [S -> S]]
    BY <1>3, <1>4
<1>6. PICK g \in [0..d.size -> S] : Counts(g, x, steps, d.size)
    <2> HIDE DEF S
    <2>1. x \in S
        BY DEF S
    <2> QED BY <1>1, <1>5, <2>1, CountedExists
<1>7. \A n \in 0..d.size : g[n] = IF n = 0 THEN x ELSE step[g[n - 1]]
    <2>1. ASSUME NEW n \in 0..d.size PROVE g[n] = IF n = 0 THEN x ELSE steps[n][g[n - 1]]
        BY <1>6 DEF Counts
    <2>2. \A n \in 0..d.size : steps[n] = step
        BY <1>1, <1>4
    <2> QED BY <2>1, <2>2
<1>8. \A n \in 0..d.size : n # 0 => n - 1 \in 0..d.size
    BY <1>1
<1>9. \E f : Is(f)
    <2>1. ASSUME NEW n \in 0..d.size
          PROVE  g[n] = IF n = 0 THEN x
                        ELSE IF d.node[g[n - 1]].link["right"] = 0 THEN g[n - 1]
                        ELSE d.node[g[n - 1]].link["right"]
        <3>1. CASE n = 0
            BY <1>7, <3>1
        <3>2. CASE n # 0
            <4>1. g[n - 1] \in S
                BY <1>6, <1>8, <3>2
            <4> QED BY <1>2, <1>7, <3>2, <4>1
        <3> QED BY <3>1, <3>2
    <2>2. g = [n \in 0..d.size |->
                 IF n = 0 THEN x
                 ELSE IF d.node[g[n - 1]].link["right"] = 0 THEN g[n - 1]
                 ELSE d.node[g[n - 1]].link["right"]]
        BY <1>6, <2>1
    <2> QED BY <2>2
<1>10. PICK f : f = (CHOOSE f_1 : Is(f_1))
    OBVIOUS
<1>11. Is(f)
    <2> HIDE DEF Is
    <2> QED BY <1>9, <1>10
<1>12. Rightmost(d, x) = f[d.size]
    BY <1>10 DEF Rightmost
<1>13. \A n \in 0..d.size :
          f[n] = IF n = 0 THEN x
                 ELSE IF d.node[f[n - 1]].link["right"] = 0 THEN f[n - 1]
                 ELSE d.node[f[n - 1]].link["right"]
    BY <1>11
<1>14. f \in [0..d.size -> S]
    <2> DEFINE U == {n \in Nat : n \in 0..d.size => f[n] \in S}
    <2>1. 0 \in U
        BY <1>13
    <2>2. ASSUME NEW n \in Nat, n \in U PROVE n + 1 \in U
        <3>1. SUFFICES ASSUME n + 1 \in 0..d.size PROVE f[n + 1] \in S
            OBVIOUS
        <3>2. n \in 0..d.size /\ n + 1 # 0 /\ n + 1 - 1 = n
            BY <1>1, <3>1
        <3>3. f[n] \in S
            BY <2>2, <3>2
        <3>4. d.node[f[n]].link["right"] \in S
            BY <3>3, TypedIs DEF Ways
        <3>5. f[n + 1] = IF d.node[f[n]].link["right"] = 0 THEN f[n] ELSE d.node[f[n]].link["right"]
            BY <1>13, <3>1, <3>2
        <3> QED BY <3>3, <3>4, <3>5
    <2>3. \A n \in Nat : n \in U
        <3> HIDE DEF U
        <3> QED BY <2>1, <2>2, Induction
    <2>4. \A n \in 0..d.size : f[n] \in S
        BY <1>1, <2>3
    <2> HIDE DEF S
    <2>5. f = [n \in 0..d.size |-> f[n]]
        BY <1>11
    <2> QED BY <2>4, <2>5
<1> HIDE DEF Is
<1>15. 0 \in 0..d.size
    BY <1>1
<1>16. f[0] = x /\ \A n \in 0..d.size : n # 0 =>
          f[n] = IF d.node[f[n - 1]].link["right"] = 0 THEN f[n - 1]
                 ELSE d.node[f[n - 1]].link["right"]
    BY <1>13, <1>15
<1> QED
    BY <1>12, <1>14, <1>16

\* M is got from the node l by links to the right, and has none.
Largest(N, L, D, l, M) ==
    /\ M \in D[l] /\ N[M].link["right"] = 0
    /\ \A y \in D[l] : M \in D[y] =>
          Len(L[y]) = Len(L[l]) /\ (y # M => M \in D[N[y].link["right"]])

LEMMA RightmostIs ==
    ASSUME NEW d, NEW T, NEW L, NEW D, Tree(d, T, L, D), NEW e, Typed(e), e.size = d.size,
           \A z \in 0..d.size : e.node[z].link["right"] = d.node[z].link["right"],
           NEW l \in T
    PROVE  Largest(d.node, L, D, l, Rightmost(e, l))
<1> DEFINE N == d.node
           Over(t) == \A y \in D[l] : t \in D[y] =>
                         Len(L[y]) = Len(L[l]) /\ (y # t => t \in D[N[y].link["right"]])
<1>1. Typed(d) /\ T \subseteq 1..d.size /\ Shape(d.root, N, T, L, D)
    BY DEF Tree
<1>2. d.size \in Nat /\ Cardinality(T) \in Nat /\ Cardinality(T) <= d.size
    BY TreeSize
<1>3. l \in 0..d.size
    BY <1>1, <1>2
<1>4. PICK f \in [0..e.size -> 0..e.size] :
         /\ f[0] = l
         /\ \A n \in 0..e.size : n # 0 =>
               f[n] = IF e.node[f[n - 1]].link["right"] = 0 THEN f[n - 1]
                      ELSE e.node[f[n - 1]].link["right"]
         /\ Rightmost(e, l) = f[e.size]
    <2>1. l \in 0..e.size
        BY <1>3
    <2> QED BY <2>1, RightmostRuns
<1>5. PICK rank \in [T -> 1..Cardinality(T)] : \A x \in T, way \in Ways :
         N[x].link[way] # 0 => rank[N[x].link[way]] < rank[x]
    BY <1>1, Rank
<1>6. "right" \in Ways
    BY DEF Ways
<1> DEFINE Good(n) == /\ f[n] \in D[l] /\ f[n] \in T /\ Len(L[f[n]]) = Len(L[l]) /\ Over(f[n])
                      /\ N[f[n]].link["right"] = 0 \/ rank[f[n]] <= Cardinality(T) - n
           U == {n \in Nat : n \in 0..d.size => Good(n)}
<1>7. 0 \in U
    <2>1. l \in D[l]
        BY <1>1, NodeIs
    <2>2. rank[l] <= Cardinality(T) - 0
        BY <1>2, <1>5
    <2>3. ASSUME NEW y \in D[l], l \in D[y], y # l PROVE FALSE
        <3>1. y \in T
            BY <1>1, NodeIs
        <3>2. PICK v \in Ways : y \in D[N[l].link[v]]
            BY <1>1, <2>3, <3>1, NodeIs
        <3>3. D[y] \subseteq D[N[l].link[v]]
            <4>1. N[l].link[v] \in T \cup {0}
                BY <1>1, LinkIs
            <4> QED BY <1>1, <3>1, <3>2, <4>1, Within
        <3> QED BY <1>1, <2>3, <3>3, Apart
    <2> QED BY <1>4, <2>1, <2>2, <2>3
<1>8. ASSUME NEW n \in Nat, n \in U PROVE n + 1 \in U
    <2>1. SUFFICES ASSUME n + 1 \in 0..d.size PROVE Good(n + 1)
        OBVIOUS
    <2>2. n \in 0..d.size /\ n + 1 # 0 /\ n + 1 - 1 = n
        BY <1>2, <2>1
    <2>3. Good(n)
        BY <1>8, <2>2
    <2>4. PICK t : t = f[n]
        OBVIOUS
    <2>5. t \in D[l] /\ t \in T /\ t \in 0..d.size /\ Len(L[t]) = Len(L[l]) /\ Over(t)
        BY <1>1, <1>4, <2>2, <2>3, <2>4
    <2>6. PICK r : r = N[t].link["right"]
        OBVIOUS
    <2>7. f[n + 1] = IF r = 0 THEN t ELSE r
        <3>1. e.node[t].link["right"] = r
            BY <2>5, <2>6
        <3>2. f[n + 1] = IF e.node[f[n]].link["right"] = 0 THEN f[n] ELSE e.node[f[n]].link["right"]
            BY <1>4, <2>1, <2>2
        <3> QED BY <2>4, <3>1, <3>2
    <2>8. CASE r = 0
        BY <2>3, <2>4, <2>6, <2>7, <2>8
    <2>9. CASE r # 0
        <3>1. f[n + 1] = r
            BY <2>7, <2>9
        <3>2. r \in T /\ D[r] \subseteq D[t] /\ Len(L[r]) = Len(L[t])
            BY <1>1, <1>6, <2>5, <2>6, <2>9, LinkIs
        <3>3. r \in D[r] /\ D[t] \subseteq D[l]
            BY <1>1, <2>5, <3>2, NodeIs, Within
        <3>4. rank[r] <= Cardinality(T) - (n + 1)
            <4>1. rank[r] < rank[t] /\ rank[t] \in Nat /\ rank[r] \in Nat
                <5>1. rank[t] \in 1..Cardinality(T) /\ rank[r] \in 1..Cardinality(T)
                    BY <1>5, <2>5, <3>2
                <5>2. rank[r] < rank[t]
                    BY <1>5, <1>6, <2>5, <2>6, <2>9
                <5> QED BY <5>1, <5>2
            <4>2. rank[t] <= Cardinality(T) - n
                BY <2>3, <2>4, <2>6, <2>9
            <4> QED BY <1>2, <4>1, <4>2
        <3>5. ASSUME NEW y \in D[l], r \in D[y]
              PROVE  Len(L[y]) = Len(L[l]) /\ (y # r => r \in D[N[y].link["right"]])
            <4>1. y \in T
                BY <1>1, NodeIs
            <4>2. CASE y = r
                BY <2>5, <3>2, <4>2
            <4>3. CASE y # r
                <5>1. t \in D[y]
                    BY <1>1, <1>6, <2>5, <2>6, <2>9, <3>5, <4>1, <4>3, AboveLink
                <5>2. Len(L[y]) = Len(L[l]) /\ (y # t => t \in D[N[y].link["right"]])
                    BY <2>5, <5>1
                <5>3. CASE y = t
                    BY <2>6, <3>3, <5>2, <5>3
                <5>4. CASE y # t
                    <6>1. N[y].link["right"] \in T \cup {0}
                        BY <1>1, <1>6, <4>1, LinkIs
                    <6>2. D[t] \subseteq D[N[y].link["right"]]
                        BY <1>1, <2>5, <5>2, <5>4, <6>1, Within
                    <6> QED BY <3>2, <3>3, <5>2, <6>2
                <5> QED BY <5>3, <5>4
            <4> QED BY <4>2, <4>3
        <3>6. Over(r)
            BY <3>5
        <3> HIDE DEF Over
        <3> QED BY <2>5, <3>1, <3>2, <3>3, <3>4, <3>6
    <2> QED BY <2>8, <2>9
<1>9. Good(d.size)
    <2>1. \A n \in Nat : n \in U
        <3> HIDE DEF U
        <3> QED BY <1>7, <1>8, Induction
    <2>2. d.size \in 0..d.size
        BY <1>2
    <2> HIDE DEF Good
    <2> QED BY <1>2, <2>1, <2>2
<1>10. PICK M : M = f[d.size]
    OBVIOUS
<1>11. M \in D[l] /\ M \in T /\ Over(M) /\ (N[M].link["right"] = 0 \/ rank[M] <= Cardinality(T) - d.size)
    BY <1>9, <1>10
<1>12. N[M].link["right"] = 0
    <2>1. SUFFICES ASSUME N[M].link["right"] # 0 PROVE FALSE
        OBVIOUS
    <2>2. rank[M] \in 1..Cardinality(T)
        BY <1>5, <1>11
    <2>3. rank[M] <= Cardinality(T) - d.size
        BY <1>11, <2>1
    <2> QED BY <1>2, <2>2, <2>3
<1> QED
    BY <1>4, <1>10, <1>11, <1>12 DEF Largest

-----------------------------------------------------------------------------
(* The writes of free_node, remove_node and tst_delete.                    *)

\* One link, one parent number, or one node's mid and value are written.
LinkSet(d, x, way, y, e) ==
    /\ Typed(e) /\ e.size = d.size /\ e.cap = d.cap /\ e.root = d.root /\ e.fhead = d.fhead
    /\ \A z \in 0..d.size :
          /\ e.node[z].c = d.node[z].c /\ e.node[z].value = d.node[z].value
          /\ e.node[z].parent = d.node[z].parent
          /\ z # x => e.node[z] = d.node[z]
          /\ \A v \in Ways : e.node[z].link[v] = IF z = x /\ v = way THEN y ELSE d.node[z].link[v]

ParentSet(d, x, y, e) ==
    /\ Typed(e) /\ e.size = d.size /\ e.cap = d.cap /\ e.root = d.root /\ e.fhead = d.fhead
    /\ \A z \in 0..d.size :
          /\ e.node[z].c = d.node[z].c /\ e.node[z].value = d.node[z].value
          /\ e.node[z].link = d.node[z].link
          /\ z # x => e.node[z] = d.node[z]
          /\ e.node[z].parent = IF z = x THEN y ELSE d.node[z].parent

NodeFreed(d, x, e) ==
    /\ Typed(e) /\ e.size = d.size /\ e.cap = d.cap /\ e.root = d.root /\ e.fhead = x
    /\ \A z \in 0..d.size :
          /\ e.node[z].c = d.node[z].c
          /\ e.node[z].value = IF z = x THEN 0 ELSE d.node[z].value
          /\ e.node[z].parent = d.node[z].parent
          /\ z # x => e.node[z] = d.node[z]
          /\ \A v \in Ways : e.node[z].link[v] =
                IF z = x /\ v = "mid" THEN d.fhead ELSE d.node[z].link[v]

LEMMA SetLink ==
    ASSUME NEW d, Typed(d), NEW x \in 0..d.size, NEW way \in Ways, NEW y \in 0..d.size
    PROVE  LinkSet(d, x, way, y, [d EXCEPT !.node[x].link[way] = y])
<1>1. /\ d \in [root : 0..d.size, size : {d.size}, cap : Nat, fhead : 0..d.size,
                node : [0..d.size -> NodeOf(d.size)]]
      /\ d.size \in Nat /\ d.node[x] \in NodeOf(d.size)
    BY TypedIs DEF Typed, DbOf
<1>2. PICK l : l = [d.node[x].link EXCEPT ![way] = y]
    OBVIOUS
<1>3. PICK n : n = [d.node[x] EXCEPT !.link[way] = y]
    OBVIOUS
<1>4. PICK e : e = [d EXCEPT !.node[x].link[way] = y]
    OBVIOUS
<1>5. /\ d.node[x] = [c |-> d.node[x].c, link |-> d.node[x].link,
                      parent |-> d.node[x].parent, value |-> d.node[x].value]
      /\ d.node[x].c \in Int /\ d.node[x].link \in [Ways -> 0..d.size]
      /\ d.node[x].parent \in 0..d.size /\ d.node[x].value \in Values \cup {0}
    BY <1>1, NodeParts
<1>6. l \in [Ways -> 0..d.size] /\ \A v \in Ways : l[v] = IF v = way THEN y ELSE d.node[x].link[v]
    BY <1>2, <1>5
<1>7. n = [c |-> d.node[x].c, link |-> l, parent |-> d.node[x].parent, value |-> d.node[x].value]
    BY <1>2, <1>3, <1>5
<1>8. n \in NodeOf(d.size)
    BY <1>5, <1>6, <1>7 DEF NodeOf
<1>9. PICK e2 : e2 = WithNode(d, x, n)
    OBVIOUS
<1>10. e = e2
    BY <1>1, <1>3, <1>4, <1>9 DEF WithNode
<1>11. /\ Typed(e2)
       /\ e2.root = d.root /\ e2.size = d.size /\ e2.cap = d.cap /\ e2.fhead = d.fhead
       /\ e2.node[x] = n /\ \A z \in 0..d.size : z # x => e2.node[z] = d.node[z]
    BY <1>8, <1>9, SetNode
<1>12. n.c = d.node[x].c /\ n.value = d.node[x].value /\ n.parent = d.node[x].parent /\ n.link = l
    BY <1>7
<1>13. LinkSet(d, x, way, y, e2)
    BY <1>6, <1>11, <1>12 DEF LinkSet
<1> QED
    BY <1>4, <1>10, <1>13

LEMMA SetParent ==
    ASSUME NEW d, Typed(d), NEW x \in 0..d.size, NEW y \in 0..d.size
    PROVE  ParentSet(d, x, y, [d EXCEPT !.node[x].parent = y])
<1>1. /\ d \in [root : 0..d.size, size : {d.size}, cap : Nat, fhead : 0..d.size,
                node : [0..d.size -> NodeOf(d.size)]]
      /\ d.size \in Nat /\ d.node[x] \in NodeOf(d.size)
    BY TypedIs DEF Typed, DbOf
<1>3. PICK n : n = [d.node[x] EXCEPT !.parent = y]
    OBVIOUS
<1>4. PICK e : e = [d EXCEPT !.node[x].parent = y]
    OBVIOUS
<1>5. /\ d.node[x] = [c |-> d.node[x].c, link |-> d.node[x].link,
                      parent |-> d.node[x].parent, value |-> d.node[x].value]
      /\ d.node[x].c \in Int /\ d.node[x].link \in [Ways -> 0..d.size]
      /\ d.node[x].value \in Values \cup {0}
    BY <1>1, NodeParts
<1>7. n = [c |-> d.node[x].c, link |-> d.node[x].link, parent |-> y, value |-> d.node[x].value]
    BY <1>3, <1>5
<1>8. n \in NodeOf(d.size)
    BY <1>5, <1>7 DEF NodeOf
<1>9. PICK e2 : e2 = WithNode(d, x, n)
    OBVIOUS
<1>10. e = e2
    BY <1>1, <1>3, <1>4, <1>9 DEF WithNode
<1>11. /\ Typed(e2)
       /\ e2.root = d.root /\ e2.size = d.size /\ e2.cap = d.cap /\ e2.fhead = d.fhead
       /\ e2.node[x] = n /\ \A z \in 0..d.size : z # x => e2.node[z] = d.node[z]
    BY <1>8, <1>9, SetNode
<1>12. n.c = d.node[x].c /\ n.value = d.node[x].value /\ n.parent = y /\ n.link = d.node[x].link
    BY <1>7
<1>13. ParentSet(d, x, y, e2)
    BY <1>11, <1>12 DEF ParentSet
<1> QED
    BY <1>4, <1>10, <1>13

LEMMA FreeNodeIs ==
    ASSUME NEW d, Typed(d), NEW x \in 0..d.size
    PROVE  NodeFreed(d, x, FreeNode(d, x))
<1>1. /\ d \in [root : 0..d.size, size : {d.size}, cap : Nat, fhead : 0..d.size,
                node : [0..d.size -> NodeOf(d.size)]]
      /\ d.size \in Nat /\ d.node[x] \in NodeOf(d.size) /\ d.fhead \in 0..d.size
    BY TypedIs DEF Typed, DbOf
<1>2. PICK l : l = [d.node[x].link EXCEPT !["mid"] = d.fhead]
    OBVIOUS
<1>3. PICK n : n = [d.node[x] EXCEPT !.link["mid"] = d.fhead, !.value = 0]
    OBVIOUS
<1>5. /\ d.node[x] = [c |-> d.node[x].c, link |-> d.node[x].link,
                      parent |-> d.node[x].parent, value |-> d.node[x].value]
      /\ d.node[x].c \in Int /\ d.node[x].link \in [Ways -> 0..d.size]
      /\ d.node[x].parent \in 0..d.size /\ d.node[x].value \in Values \cup {0}
    BY <1>1, NodeParts
<1>6. l \in [Ways -> 0..d.size] /\ \A v \in Ways : l[v] = IF v = "mid" THEN d.fhead ELSE d.node[x].link[v]
    BY <1>1, <1>2, <1>5 DEF Ways
<1>7. n = [c |-> d.node[x].c, link |-> l, parent |-> d.node[x].parent, value |-> 0]
    BY <1>2, <1>3, <1>5
<1>8. n \in NodeOf(d.size)
    BY <1>5, <1>6, <1>7 DEF NodeOf
<1>9. PICK e2 : e2 = WithNode(d, x, n)
    OBVIOUS
<1>10. FreeNode(d, x) = [e2 EXCEPT !.fhead = x]
    BY <1>1, <1>3, <1>9 DEF WithNode, FreeNode
<1>11. /\ Typed(e2)
       /\ e2.root = d.root /\ e2.size = d.size /\ e2.cap = d.cap /\ e2.fhead = d.fhead
       /\ e2.node[x] = n /\ \A z \in 0..d.size : z # x => e2.node[z] = d.node[z]
    BY <1>8, <1>9, SetNode
<1>12. n.c = d.node[x].c /\ n.value = 0 /\ n.parent = d.node[x].parent /\ n.link = l
    BY <1>7
<1>13. PICK e3 : e3 = [e2 EXCEPT !.fhead = x]
    OBVIOUS
<1>14. /\ Typed(e3) /\ e3.node = e2.node /\ e3.root = d.root /\ e3.size = d.size
       /\ e3.cap = d.cap /\ e3.fhead = x
    <2>1. e2 \in [root : 0..e2.size, size : {e2.size}, cap : Nat, fhead : 0..e2.size,
                  node : [0..e2.size -> NodeOf(e2.size)]] /\ e2.size \in Nat
        BY <1>11 DEF Typed, DbOf
    <2>2. e3 = [root |-> e2.root, size |-> e2.size, cap |-> e2.cap, fhead |-> x, node |-> e2.node]
        BY <1>13, <2>1
    <2>3. x \in 0..e2.size
        BY <1>11
    <2>4. e3 \in [root : 0..e2.size, size : {e2.size}, cap : Nat, fhead : 0..e2.size,
                  node : [0..e2.size -> NodeOf(e2.size)]]
        BY <2>1, <2>2, <2>3
    <2>5. Typed(e3)
        BY <2>1, <2>2, <2>4 DEF Typed, DbOf
    <2> QED BY <1>11, <2>2, <2>5
<1>15. NodeFreed(d, x, e3)
    BY <1>6, <1>11, <1>12, <1>14 DEF NodeFreed
<1> QED
    BY <1>10, <1>13, <1>15

LEMMA SetRoot ==
    ASSUME NEW d, Typed(d), NEW y \in 0..d.size, NEW e, e = [d EXCEPT !.root = y]
    PROVE  /\ Typed(e) /\ e.node = d.node /\ e.root = y /\ e.size = d.size
           /\ e.cap = d.cap /\ e.fhead = d.fhead
<1>1. d \in [root : 0..d.size, size : {d.size}, cap : Nat, fhead : 0..d.size,
             node : [0..d.size -> NodeOf(d.size)]] /\ d.size \in Nat
    BY DEF Typed, DbOf
<1>2. e = [root |-> y, size |-> d.size, cap |-> d.cap, fhead |-> d.fhead, node |-> d.node]
    BY <1>1
<1>3. e \in [root : 0..d.size, size : {d.size}, cap : Nat, fhead : 0..d.size,
             node : [0..d.size -> NodeOf(d.size)]]
    BY <1>1, <1>2
<1>4. Typed(e)
    BY <1>1, <1>2, <1>3 DEF Typed, DbOf
<1> QED
    BY <1>2, <1>4

\* What unlinking x does: at, which is left or right, takes its place.
Unlinked(d, x, p, side, left, right, at, M, e) ==
    /\ Typed(e) /\ e.size = d.size /\ e.cap = d.cap /\ e.fhead = x
    /\ e.root = IF p = 0 THEN at ELSE d.root
    /\ \A z \in 0..d.size :
          /\ e.node[z].c = d.node[z].c
          /\ e.node[z].value = IF z = x THEN 0 ELSE d.node[z].value
          /\ e.node[z].parent = IF z = at /\ at # 0 THEN p ELSE d.node[z].parent
          /\ z \notin {x, p, at, M} => e.node[z] = d.node[z]
          /\ \A v \in Ways : e.node[z].link[v] =
                IF z = p /\ p # 0 /\ v = side THEN at
                ELSE IF z = M /\ left # 0 /\ right # 0 /\ v = "right" THEN right
                ELSE IF z = x /\ v = "mid" THEN d.fhead
                ELSE d.node[z].link[v]

\* The numbers that unlinking x reads first.
UnlinkReads(d, x, p, side, left, right, at, M) ==
    /\ p = d.node[x].parent
    /\ side = CASE x = d.node[p].link["left"]  -> "left"
                [] x = d.node[p].link["right"] -> "right"
                [] OTHER                       -> "mid"
    /\ left = d.node[x].link["left"] /\ right = d.node[x].link["right"]
    /\ at = (IF left = 0 THEN right ELSE left)
    /\ M = Rightmost(FreeNode(d, x), left)

LEMMA UnlinkWrites ==
    ASSUME NEW d, Typed(d), NEW x \in 1..d.size,
           NEW p, NEW side, NEW left, NEW right, NEW at, NEW M,
           UnlinkReads(d, x, p, side, left, right, at, M)
    PROVE  Unlinked(d, x, p, side, left, right, at, M, Unlink(d, x)) /\ M \in 0..d.size
<1>1. d.size \in Nat /\ x \in 0..d.size
    BY TypedIs
<1>2. p \in 0..d.size /\ left \in 0..d.size /\ right \in 0..d.size
    BY <1>1, TypedIs DEF Ways, UnlinkReads
<1>3. at \in 0..d.size /\ side \in Ways
    BY <1>2 DEF Ways, UnlinkReads
<1>4. PICK f : f = FreeNode(d, x)
    OBVIOUS
<1>5. NodeFreed(d, x, f)
    BY <1>1, <1>4, FreeNodeIs
<1>6. Typed(f) /\ f.size = d.size
    BY <1>5 DEF NodeFreed
<1>7. M \in 0..d.size
    <2>1. left \in 0..f.size
        BY <1>2, <1>6
    <2>2. PICK g \in [0..f.size -> 0..f.size] : Rightmost(f, left) = g[f.size]
        BY <1>6, <2>1, RightmostRuns
    <2>3. f.size \in 0..f.size
        BY <1>1, <1>6
    <2> QED BY <1>4, <1>6, <2>2, <2>3 DEF UnlinkReads
<1>8. PICK g : g = IF left # 0 /\ right # 0 THEN [f EXCEPT !.node[M].link["right"] = right] ELSE f
    OBVIOUS
<1>9. RemoveNode(d, x) = [at |-> at, db |-> g]
    <2>1. CASE left = 0
        BY <1>4, <1>8, <2>1 DEF RemoveNode, UnlinkReads
    <2>2. CASE left # 0 /\ right = 0
        BY <1>4, <1>8, <2>2 DEF RemoveNode, UnlinkReads
    <2>3. CASE left # 0 /\ right # 0
        BY <1>4, <1>8, <2>3 DEF RemoveNode, UnlinkReads
    <2> QED BY <2>1, <2>2, <2>3
<1>10. /\ Typed(g) /\ g.size = d.size /\ g.cap = d.cap /\ g.root = d.root /\ g.fhead = x
       /\ \A z \in 0..d.size :
             /\ g.node[z].c = d.node[z].c
             /\ g.node[z].value = IF z = x THEN 0 ELSE d.node[z].value
             /\ g.node[z].parent = d.node[z].parent
             /\ z \notin {x, M} => g.node[z] = d.node[z]
             /\ \A v \in Ways : g.node[z].link[v] =
                   IF z = M /\ left # 0 /\ right # 0 /\ v = "right" THEN right
                   ELSE IF z = x /\ v = "mid" THEN d.fhead
                   ELSE d.node[z].link[v]
    <2>1. CASE ~ (left # 0 /\ right # 0)
        <3>1. g = f
            BY <1>8, <2>1
        <3> QED BY <1>5, <2>1, <3>1 DEF NodeFreed
    <2>2. CASE left # 0 /\ right # 0
        <3>1. M \in 0..f.size /\ right \in 0..f.size /\ "right" \in Ways
            BY <1>2, <1>6, <1>7 DEF Ways
        <3>2. PICK h : h = [f EXCEPT !.node[M].link["right"] = right]
            OBVIOUS
        <3>3. LinkSet(f, M, "right", right, h)
            BY <1>6, <3>1, <3>2, SetLink
        <3>4. g = h
            BY <1>8, <2>2, <3>2
        <3> QED BY <1>5, <2>2, <3>3, <3>4 DEF NodeFreed, LinkSet
    <2> QED BY <2>1, <2>2
<1>11. PICK d1 : d1 = IF p = 0 THEN [g EXCEPT !.root = at] ELSE [g EXCEPT !.node[p].link[side] = at]
    OBVIOUS
<1>12. /\ Typed(d1) /\ d1.size = d.size /\ d1.cap = d.cap /\ d1.fhead = x
       /\ d1.root = IF p = 0 THEN at ELSE d.root
       /\ \A z \in 0..d.size :
             /\ d1.node[z].c = g.node[z].c /\ d1.node[z].value = g.node[z].value
             /\ d1.node[z].parent = g.node[z].parent
             /\ z # p => d1.node[z] = g.node[z]
             /\ \A v \in Ways : d1.node[z].link[v] =
                   IF z = p /\ p # 0 /\ v = side THEN at ELSE g.node[z].link[v]
    <2>1. CASE p = 0
        <3>1. PICK h : h = [g EXCEPT !.root = at]
            OBVIOUS
        <3>2. Typed(g) /\ at \in 0..g.size
            BY <1>3, <1>10
        <3>3. /\ Typed(h) /\ h.node = g.node /\ h.root = at /\ h.size = g.size
              /\ h.cap = g.cap /\ h.fhead = g.fhead
            BY <3>1, <3>2, SetRoot
        <3>4. d1 = h
            BY <1>11, <2>1, <3>1
        <3> QED BY <1>10, <2>1, <3>3, <3>4
    <2>2. CASE p # 0
        <3>1. PICK h : h = [g EXCEPT !.node[p].link[side] = at]
            OBVIOUS
        <3>2. Typed(g) /\ at \in 0..g.size /\ p \in 0..g.size
            BY <1>2, <1>3, <1>10
        <3>3. LinkSet(g, p, side, at, h)
            BY <1>3, <3>1, <3>2, SetLink
        <3>4. d1 = h
            BY <1>11, <2>2, <3>1
        <3> QED BY <1>10, <2>2, <3>3, <3>4 DEF LinkSet
    <2> QED BY <2>1, <2>2
<1>13. PICK e : e = Unlink(d, x)
    OBVIOUS
<1>14. e = IF at > 0 THEN [d1 EXCEPT !.node[at].parent = p] ELSE d1
    <2> DEFINE p2    == d.node[x].parent
               r     == RemoveNode(d, x)
               side2 == CASE x = d.node[p2].link["left"]  -> "left"
                          [] x = d.node[p2].link["right"] -> "right"
                          [] OTHER                        -> "mid"
               d2    == IF p2 = 0 THEN [r.db EXCEPT !.root = r.at]
                                  ELSE [r.db EXCEPT !.node[p2].link[side2] = r.at]
    <2>1. Unlink(d, x) = IF r.at > 0 THEN [d2 EXCEPT !.node[r.at].parent = p2] ELSE d2
        BY DEF Unlink
    <2>2. r.at = at /\ r.db = g
        BY <1>9
    <2>3. p2 = p
        BY DEF UnlinkReads
    <2>4. side2 = side
        <3> HIDE DEF r, d2
        <3> QED BY <2>3 DEF UnlinkReads
    <2> HIDE DEF p2, r, side2
    <2>5. d2 = d1
        BY <1>11, <2>2, <2>3, <2>4
    <2> HIDE DEF d2
    <2> QED BY <1>13, <2>1, <2>2, <2>3, <2>5
<1>15. /\ Typed(e) /\ e.size = d.size /\ e.cap = d.cap /\ e.fhead = x /\ e.root = d1.root
       /\ \A z \in 0..d.size :
             /\ e.node[z].c = d1.node[z].c /\ e.node[z].value = d1.node[z].value
             /\ e.node[z].link = d1.node[z].link
             /\ z # at => e.node[z] = d1.node[z]
             /\ e.node[z].parent = IF z = at /\ at # 0 THEN p ELSE d1.node[z].parent
    <2>1. CASE at = 0
        <3>1. e = d1
            BY <1>14, <2>1
        <3> QED BY <1>12, <2>1, <3>1
    <2>2. CASE at # 0
        <3>1. at > 0
            BY <1>1, <1>3, <2>2
        <3>2. PICK h : h = [d1 EXCEPT !.node[at].parent = p]
            OBVIOUS
        <3>3. Typed(d1) /\ at \in 0..d1.size /\ p \in 0..d1.size
            BY <1>2, <1>3, <1>12
        <3>4. ParentSet(d1, at, p, h)
            BY <3>2, <3>3, SetParent
        <3>5. e = h
            BY <1>14, <3>1, <3>2
        <3> QED BY <1>12, <2>2, <3>4, <3>5 DEF ParentSet
    <2> QED BY <2>1, <2>2
<1>16. ASSUME NEW z \in 0..d.size
       PROVE  /\ e.node[z].c = d.node[z].c
              /\ e.node[z].value = IF z = x THEN 0 ELSE d.node[z].value
              /\ e.node[z].parent = IF z = at /\ at # 0 THEN p ELSE d.node[z].parent
              /\ z \notin {x, p, at, M} => e.node[z] = d.node[z]
              /\ \A v \in Ways : e.node[z].link[v] =
                    IF z = p /\ p # 0 /\ v = side THEN at
                    ELSE IF z = M /\ left # 0 /\ right # 0 /\ v = "right" THEN right
                    ELSE IF z = x /\ v = "mid" THEN d.fhead
                    ELSE d.node[z].link[v]
    <2>1. e.node[z].c = d.node[z].c /\ e.node[z].value = IF z = x THEN 0 ELSE d.node[z].value
        BY <1>10, <1>12, <1>15
    <2>2. e.node[z].parent = IF z = at /\ at # 0 THEN p ELSE d.node[z].parent
        BY <1>10, <1>12, <1>15
    <2>3. z \notin {x, p, at, M} => e.node[z] = d.node[z]
        BY <1>10, <1>12, <1>15
    <2>4. ASSUME NEW v \in Ways
          PROVE  e.node[z].link[v] =
                    IF z = p /\ p # 0 /\ v = side THEN at
                    ELSE IF z = M /\ left # 0 /\ right # 0 /\ v = "right" THEN right
                    ELSE IF z = x /\ v = "mid" THEN d.fhead
                    ELSE d.node[z].link[v]
        <3>1. e.node[z].link[v] = d1.node[z].link[v]
            BY <1>15
        <3>2. d1.node[z].link[v] = IF z = p /\ p # 0 /\ v = side THEN at ELSE g.node[z].link[v]
            BY <1>12
        <3>3. g.node[z].link[v] = IF z = M /\ left # 0 /\ right # 0 /\ v = "right" THEN right
                                  ELSE IF z = x /\ v = "mid" THEN d.fhead
                                  ELSE d.node[z].link[v]
            BY <1>10
        <3> QED BY <3>1, <3>2, <3>3
    <2> QED BY <2>1, <2>2, <2>3, <2>4
<1>17. Unlinked(d, x, p, side, left, right, at, M, e)
    <2>1. e.root = IF p = 0 THEN at ELSE d.root
        BY <1>12, <1>15
    <2> QED BY <1>15, <1>16, <2>1 DEF Unlinked
<1> QED
    BY <1>7, <1>13, <1>17

-----------------------------------------------------------------------------
(* remove_node.                                                            *)

\* x has no middle child, p is its parent (0 at the root), M the largest
\* node of its left level, and at the child that takes its place.
Removable(root, N, T, L, D, x, p, side, left, right, at, M) ==
    /\ x \in T /\ N[x].link["mid"] = 0
    /\ left = N[x].link["left"] /\ right = N[x].link["right"]
    /\ at = (IF left = 0 THEN right ELSE left)
    /\ left # 0 => Largest(N, L, D, left, M)
    /\ p = 0 => x = root
    /\ p # 0 => p \in T /\ side \in Ways /\ N[p].link[side] = x

\* The nodes below z without x: x's right child goes below M.
Chain(D, left, M, z) == z \in D[left] /\ M \in D[z]

Remaining(D, x, left, right, M, z) ==
    (D[z] \cup (IF Chain(D, left, M, z) THEN D[right] ELSE {})) \ {x}

WithoutLabel(T, L, x) == [z \in T \ {x} |-> L[z]]

WithoutBelow(T, D, x, left, right, M) ==
    [z \in (T \ {x}) \cup {0} |-> Remaining(D, x, left, right, M, z)]

Relinked(N, T, x, p, side, left, right, at, M, N2) ==
    \A z \in T \ {x} :
        /\ N2[z].c = N[z].c
        /\ \A v \in Ways : N2[z].link[v] =
              IF z = p /\ p # 0 /\ v = side THEN at
              ELSE IF z = M /\ left # 0 /\ right # 0 /\ v = "right" THEN right
              ELSE N[z].link[v]

\* What surrounds x.
LEMMA Around ==
    ASSUME NEW root, NEW N, NEW T, NEW L, NEW D, Shape(root, N, T, L, D),
           NEW x, NEW p, NEW side, NEW left, NEW right, NEW at, NEW M,
           Removable(root, N, T, L, D, x, p, side, left, right, at, M)
    PROVE  /\ x \in T /\ left \in T \cup {0} /\ right \in T \cup {0} /\ at \in T \cup {0}
           /\ x \notin D[left] /\ x \notin D[right] /\ left # x /\ right # x /\ at # x
           /\ D[left] \subseteq D[x] /\ D[right] \subseteq D[x] /\ D[x] \subseteq T
           /\ D[x] = {x} \cup D[left] \cup D[right]
           /\ \A y \in D[left] : y \notin D[right]
           /\ left # 0 => Len(L[left]) = Len(L[x])
           /\ right # 0 => Len(L[right]) = Len(L[x])
           /\ at # 0 => Len(L[at]) = Len(L[x])
           /\ p # 0 => p \in T /\ p # x /\ p \notin D[x]
<1>1. x \in T /\ {"left", "right", "mid"} = Ways
    BY DEF Removable, Ways
<1>2. left = N[x].link["left"] /\ right = N[x].link["right"] /\ N[x].link["mid"] = 0
    BY DEF Removable
<1>3. D[0] = {}
    BY DEF Shape
<1>4. /\ left \in T \cup {0} /\ D[left] \subseteq D[x] /\ x \notin D[left]
      /\ left # 0 => Len(L[left]) = Len(L[x])
    <2>1. "left" \in Ways /\ "left" # "mid"
        BY <1>1
    <2>2. /\ N[x].link["left"] \in T \cup {0} /\ D[N[x].link["left"]] \subseteq D[x]
          /\ N[x].link["left"] # 0 => Len(L[N[x].link["left"]]) = Len(L[x])
        BY <1>1, <2>1, LinkIs
    <2>3. x \notin D[N[x].link["left"]]
        BY <1>1, <2>1, Apart
    <2> QED BY <1>2, <2>2, <2>3
<1>5. /\ right \in T \cup {0} /\ D[right] \subseteq D[x] /\ x \notin D[right]
      /\ right # 0 => Len(L[right]) = Len(L[x])
    <2>1. "right" \in Ways /\ "right" # "mid"
        BY <1>1
    <2>2. /\ N[x].link["right"] \in T \cup {0} /\ D[N[x].link["right"]] \subseteq D[x]
          /\ N[x].link["right"] # 0 => Len(L[N[x].link["right"]]) = Len(L[x])
        BY <1>1, <2>1, LinkIs
    <2>3. x \notin D[N[x].link["right"]]
        BY <1>1, <2>1, Apart
    <2> QED BY <1>2, <2>2, <2>3
<1>6. D[x] \subseteq T /\ x \in D[x] /\ x \in Nat \ {0}
    BY <1>1, NodeIs
<1>7. left # x /\ right # x
    <2>1. left # 0 => left \in D[left]
        BY <1>4, NodeIs
    <2>2. right # 0 => right \in D[right]
        BY <1>5, NodeIs
    <2> QED BY <1>4, <1>5, <1>6, <2>1, <2>2
<1>8. at = left \/ at = right
    BY DEF Removable
<1>9. D[x] = {x} \cup D[left] \cup D[right]
    <2>1. ASSUME NEW y \in D[x], y # x PROVE y \in D[left] \/ y \in D[right]
        <3>1. PICK v \in Ways : y \in D[N[x].link[v]]
            BY <1>1, <1>6, <2>1, NodeIs
        <3>2. v # "mid"
            BY <1>2, <1>3, <3>1
        <3>3. v = "left" \/ v = "right"
            BY <1>1, <3>2
        <3> QED BY <1>2, <3>1, <3>3
    <2> QED BY <1>4, <1>5, <1>6, <2>1
<1>10. \A y \in D[left] : y \notin D[right]
    <2>1. "left" \in Ways /\ "right" \in Ways /\ "left" # "right"
        BY <1>1
    <2>2. \A y \in D[N[x].link["left"]] : y \in D[N[x].link["right"]] => "left" = "right"
        BY <1>1, <2>1, Apart
    <2> QED BY <1>2, <2>1, <2>2
<1>11. p # 0 => p \in T /\ p # x /\ p \notin D[x]
    <2>1. SUFFICES ASSUME p # 0 PROVE p \in T /\ p # x /\ p \notin D[x]
        OBVIOUS
    <2>2. p \in T /\ side \in Ways /\ N[p].link[side] = x
        BY <2>1 DEF Removable
    <2>3. p \notin D[N[p].link[side]]
        BY <2>2, Apart
    <2>4. p \notin D[x]
        BY <2>2, <2>3
    <2> QED BY <1>6, <2>2, <2>4
<1> QED
    BY <1>1, <1>4, <1>5, <1>6, <1>7, <1>8, <1>9, <1>10, <1>11

\* What is left of x's levels.
LEMMA ChainIs ==
    ASSUME NEW root, NEW N, NEW T, NEW L, NEW D, Shape(root, N, T, L, D),
           NEW x, NEW p, NEW side, NEW left, NEW right, NEW at, NEW M,
           Removable(root, N, T, L, D, x, p, side, left, right, at, M)
    PROVE  /\ \A z \in T \ {x} : Chain(D, left, M, z) =>
                 /\ left # 0 /\ Len(L[z]) = Len(L[x]) /\ z # p
                 /\ z # M => /\ N[z].link["right"] # 0
                             /\ Chain(D, left, M, N[z].link["right"])
                 /\ \A w \in D[right] : /\ Agree(L[w], L[z])
                                        /\ Way(N[z], L[w], Len(L[z])) = "right"
           /\ \A z \in T \ {x}, v \in Ways :
                 N[z].link[v] # 0 /\ Chain(D, left, M, N[z].link[v]) =>
                     Chain(D, left, M, z) /\ v = "right"
           /\ left # 0 => /\ Chain(D, left, M, left) /\ Chain(D, left, M, M)
                          /\ M \in T \ {x} /\ N[M].link["right"] = 0
           /\ ~ Chain(D, left, M, 0)
           /\ right # 0 => ~ Chain(D, left, M, right)
<1>1. /\ x \in T /\ left \in T \cup {0} /\ right \in T \cup {0} /\ at \in T \cup {0}
      /\ x \notin D[left] /\ x \notin D[right] /\ left # x /\ right # x /\ at # x
      /\ D[left] \subseteq D[x] /\ D[right] \subseteq D[x] /\ D[x] \subseteq T
      /\ \A y \in D[left] : y \notin D[right]
      /\ left # 0 => Len(L[left]) = Len(L[x])
      /\ p # 0 => p \in T /\ p # x /\ p \notin D[x]
    BY Around
<1>2. D[0] = {} /\ 0 \notin T /\ "right" \in Ways /\ "left" \in Ways
    BY DEF Shape, Ways
<1>3. left = N[x].link["left"] /\ right = N[x].link["right"]
    BY DEF Removable
<1>4. ASSUME left # 0
      PROVE  /\ M \in D[left] /\ N[M].link["right"] = 0
             /\ \A y \in D[left] : M \in D[y] =>
                   Len(L[y]) = Len(L[left]) /\ (y # M => M \in D[N[y].link["right"]])
    BY <1>4 DEF Removable, Largest
<1>5. ASSUME NEW z \in T \ {x}, Chain(D, left, M, z)
      PROVE  /\ left # 0 /\ Len(L[z]) = Len(L[x]) /\ z # p
             /\ z # M => N[z].link["right"] # 0 /\ Chain(D, left, M, N[z].link["right"])
             /\ \A w \in D[right] : Agree(L[w], L[z]) /\ Way(N[z], L[w], Len(L[z])) = "right"
    <2>1. z \in D[left] /\ M \in D[z] /\ left # 0
        BY <1>2, <1>5 DEF Chain
    <2>2. Len(L[z]) = Len(L[x]) /\ (z # M => M \in D[N[z].link["right"]])
        BY <1>1, <1>4, <2>1
    <2>3. z # p
        BY <1>1, <1>2, <2>1
    <2>4. z # M => N[z].link["right"] # 0 /\ Chain(D, left, M, N[z].link["right"])
        <3>1. SUFFICES ASSUME z # M PROVE N[z].link["right"] # 0 /\ Chain(D, left, M, N[z].link["right"])
            OBVIOUS
        <3>2. M \in D[N[z].link["right"]] /\ N[z].link["right"] # 0
            BY <1>2, <2>2, <3>1
        <3>3. N[z].link["right"] \in T /\ D[N[z].link["right"]] \subseteq D[z]
            BY <1>2, <3>2, LinkIs
        <3>4. N[z].link["right"] \in D[N[z].link["right"]]
            BY <3>3, NodeIs
        <3>5. D[z] \subseteq D[left]
            BY <1>1, <2>1, Within
        <3> QED BY <3>2, <3>3, <3>4, <3>5 DEF Chain
    <2>5. ASSUME NEW w \in D[right]
          PROVE  Agree(L[w], L[z]) /\ Way(N[z], L[w], Len(L[z])) = "right"
        <3>1. PICK n : n = Len(L[x])
            OBVIOUS
        <3>2. w \in T /\ L[w] \in Key /\ L[z] \in Key /\ L[x] \in Key
            BY <1>1, <2>5, NodeIs
        <3>3. Agree(L[w], L[x]) /\ Way(N[x], L[w], n) = "right"
            <4>1. \A y \in D[N[x].link["right"]] :
                     Agree(L[y], L[x]) /\ Way(N[x], L[y], Len(L[x])) = "right"
                BY <1>1, <1>2, LinkIs
            <4> QED BY <1>3, <2>5, <3>1, <4>1
        <3>4. Agree(L[z], L[x]) /\ Way(N[x], L[z], n) = "left"
            <4>1. \A y \in D[N[x].link["left"]] :
                     Agree(L[y], L[x]) /\ Way(N[x], L[y], Len(L[x])) = "left"
                BY <1>1, <1>2, LinkIs
            <4> QED BY <1>3, <2>1, <3>1, <4>1
        <3>5. N[z].c = L[z][n]
            <4>1. N[z].c = L[z][Len(L[z])]
                BY NodeIs
            <4> QED BY <2>2, <3>1, <4>1
        <3>6. n \in Nat /\ n \in 1..Len(L[w]) /\ n \in 1..Len(L[z]) /\ n \in 1..Len(L[x])
            <4>1. Len(L[x]) \in Nat /\ Len(L[x]) # 0 /\ Len(L[w]) \in Nat /\ Len(L[z]) \in Nat
                BY <3>2 DEF Key
            <4>2. Len(L[w]) >= Len(L[x]) /\ Len(L[z]) >= Len(L[x])
                BY <3>3, <3>4 DEF Agree
            <4> QED BY <3>1, <4>1, <4>2
        <3>7. L[w][n] \in Int /\ L[z][n] \in Int /\ N[x].c \in Int
            <4>1. L[w][n] \in Int /\ L[z][n] \in Int /\ L[x][n] \in Int
                BY <3>2, <3>6 DEF Key
            <4>2. N[x].c = L[x][n]
                BY <1>1, <3>1, NodeIs
            <4> QED BY <4>1, <4>2
        <3>8. L[w][n] > N[x].c
            <4>1. L[w][n] >= N[x].c
                BY <3>3, <3>7 DEF Way
            <4>2. L[w][n] # N[x].c
                BY <3>3, <3>7 DEF Way
            <4> QED BY <3>7, <4>1, <4>2
        <3>9. L[z][n] < N[x].c
            <4>1. ~ (L[z][n] >= N[x].c)
                BY <3>4, <3>7 DEF Way
            <4> QED BY <3>7, <4>1
        <3>10. L[w][n] > N[z].c /\ ~ (L[w][n] < N[z].c)
            BY <3>5, <3>7, <3>8, <3>9
        <3>11. Way(N[z], L[w], n) = "right"
            BY <3>10 DEF Way
        <3>12. Agree(L[w], L[z])
            <4>1. \A i \in 1..(n - 1) : L[w][i] = L[x][i] /\ L[z][i] = L[x][i]
                BY <3>1, <3>3, <3>4 DEF Agree
            <4>2. Len(L[w]) >= Len(L[z])
                BY <2>2, <3>3 DEF Agree
            <4>3. Len(L[z]) = n
                BY <2>2, <3>1
            <4> QED BY <4>1, <4>2, <4>3 DEF Agree
        <3> QED BY <2>2, <3>1, <3>11, <3>12
    <2> QED BY <2>1, <2>2, <2>3, <2>4, <2>5
<1>6. ASSUME NEW z \in T \ {x}, NEW v \in Ways, N[z].link[v] # 0, Chain(D, left, M, N[z].link[v])
      PROVE  Chain(D, left, M, z) /\ v = "right"
    <2>1. PICK u : u = N[z].link[v]
        OBVIOUS
    <2>2. u # 0 /\ u \in D[left] /\ M \in D[u] /\ left # 0
        BY <1>2, <1>6, <2>1 DEF Chain
    <2>3. left \in T /\ left = N[x].link["left"]
        BY <1>1, <1>3, <2>2
    <2>4. u # left
        <3>1. ASSUME N[z].link[v] = N[x].link["left"] PROVE FALSE
            <4>1. z = x
                BY <1>1, <1>2, <1>6, <3>1, OneParent
            <4> QED BY <4>1
        <3> QED BY <2>1, <2>3, <3>1
    <2>5. z \in D[left]
        BY <2>1, <2>2, <2>3, <2>4, AboveLink
    <2>6. D[u] \subseteq D[z]
        BY <2>1, LinkIs
    <2>7. Chain(D, left, M, z)
        BY <2>2, <2>5, <2>6 DEF Chain
    <2>8. z # M
        <3>1. z \notin D[N[z].link[v]]
            BY Apart
        <3> QED BY <2>1, <2>2, <3>1
    <2>9. M \in D[N[z].link["right"]]
        BY <1>4, <2>2, <2>5, <2>7, <2>8 DEF Chain
    <2>10. M \in D[N[z].link[v]]
        BY <2>1, <2>2
    <2>11. v = "right"
        BY <1>2, <2>9, <2>10, Apart
    <2> QED BY <2>7, <2>11
<1>7. left # 0 => /\ Chain(D, left, M, left) /\ Chain(D, left, M, M)
                  /\ M \in T \ {x} /\ N[M].link["right"] = 0
    <2>1. SUFFICES ASSUME left # 0
                   PROVE  /\ Chain(D, left, M, left) /\ Chain(D, left, M, M)
                          /\ M \in T \ {x} /\ N[M].link["right"] = 0
        OBVIOUS
    <2>2. M \in D[left] /\ N[M].link["right"] = 0
        BY <1>4, <2>1
    <2>3. M \in T \ {x} /\ left \in T
        BY <1>1, <2>1, <2>2
    <2>4. M \in D[M] /\ left \in D[left]
        BY <2>3, NodeIs
    <2> QED BY <2>2, <2>3, <2>4 DEF Chain
<1>8. ~ Chain(D, left, M, 0)
    BY <1>1, <1>2 DEF Chain
<1>9. right # 0 => ~ Chain(D, left, M, right)
    <2>1. right # 0 => right \in D[right]
        BY <1>1, NodeIs
    <2> QED BY <1>1, <2>1 DEF Chain
<1> QED
    BY <1>5, <1>6, <1>7, <1>8, <1>9

\* The nodes below a node once x is removed.
LEMMA RemainingIs ==
    ASSUME NEW root, NEW N, NEW T, NEW L, NEW D, Shape(root, N, T, L, D),
           NEW x, NEW p, NEW side, NEW left, NEW right, NEW at, NEW M,
           Removable(root, N, T, L, D, x, p, side, left, right, at, M)
    PROVE  /\ \A z \in T : D[z] \ {x} \subseteq Remaining(D, x, left, right, M, z)
           /\ \A z \in T \cup {0} : /\ Remaining(D, x, left, right, M, z) \subseteq T \ {x}
                                    /\ \A y \in Remaining(D, x, left, right, M, z) :
                                          y \in D[z] \/ (Chain(D, left, M, z) /\ y \in D[right])
           /\ \A z \in T : Chain(D, left, M, z) => D[right] \subseteq Remaining(D, x, left, right, M, z)
           /\ Remaining(D, x, left, right, M, 0) = {}
           /\ Remaining(D, x, left, right, M, at) = D[x] \ {x}
           /\ right # 0 => Remaining(D, x, left, right, M, right) = D[right]
<1>1. /\ x \in T /\ left \in T \cup {0} /\ right \in T \cup {0} /\ at \in T \cup {0}
      /\ x \notin D[left] /\ x \notin D[right]
      /\ D[right] \subseteq D[x] /\ D[x] \subseteq T
      /\ D[x] = {x} \cup D[left] \cup D[right]
    BY Around
<1>2. D[0] = {}
    BY DEF Shape
<1>3. /\ left # 0 => Chain(D, left, M, left)
      /\ ~ Chain(D, left, M, 0)
      /\ right # 0 => ~ Chain(D, left, M, right)
    BY ChainIs
<1>4. \A z \in T : D[z] \subseteq T
    BY NodeIs
<1>5. Remaining(D, x, left, right, M, 0) = {}
    BY <1>2, <1>3 DEF Remaining
<1>6. right # 0 => Remaining(D, x, left, right, M, right) = D[right]
    BY <1>1, <1>3 DEF Remaining
<1>7. Remaining(D, x, left, right, M, at) = D[x] \ {x}
    <2>1. CASE left = 0
        <3>1. at = right
            BY <2>1 DEF Removable
        <3>2. D[left] = {}
            BY <1>2, <2>1
        <3>3. ~ Chain(D, left, M, right)
            BY <1>3
        <3>4. Remaining(D, x, left, right, M, right) = D[right] \ {x}
            BY <3>3 DEF Remaining
        <3>5. D[x] \ {x} = D[right] \ {x}
            BY <1>1, <3>2
        <3> QED BY <3>1, <3>4, <3>5
    <2>2. CASE left # 0
        <3>1. at = left
            BY <2>2 DEF Removable
        <3>2. Remaining(D, x, left, right, M, left) = (D[left] \cup D[right]) \ {x}
            BY <1>3, <2>2 DEF Remaining
        <3>3. D[x] \ {x} = (D[left] \cup D[right]) \ {x}
            BY <1>1
        <3> QED BY <3>1, <3>2, <3>3
    <2> QED BY <2>1, <2>2
<1>8. \A z \in T \cup {0} : /\ Remaining(D, x, left, right, M, z) \subseteq T \ {x}
                            /\ \A y \in Remaining(D, x, left, right, M, z) :
                                  y \in D[z] \/ (Chain(D, left, M, z) /\ y \in D[right])
    BY <1>1, <1>2, <1>4 DEF Remaining
<1>9. \A z \in T : Chain(D, left, M, z) => D[right] \subseteq Remaining(D, x, left, right, M, z)
    BY <1>1 DEF Remaining
<1>10. \A z \in T : D[z] \ {x} \subseteq Remaining(D, x, left, right, M, z)
    BY DEF Remaining
<1> QED
    BY <1>5, <1>6, <1>7, <1>8, <1>9, <1>10

\* Where a link of the new tree leads.
LEMMA RelinkedIs ==
    ASSUME NEW root, NEW N, NEW T, NEW L, NEW D, Shape(root, N, T, L, D),
           NEW x, NEW p, NEW side, NEW left, NEW right, NEW at, NEW M,
           Removable(root, N, T, L, D, x, p, side, left, right, at, M),
           NEW N2, Relinked(N, T, x, p, side, left, right, at, M, N2)
    PROVE  \A z \in T \ {x}, v \in Ways :
              LET u == N2[z].link[v] IN
              \/ z = p /\ p # 0 /\ v = side /\ N[z].link[v] = x /\ u = at
              \/ z = M /\ left # 0 /\ right # 0 /\ v = "right" /\ N[z].link[v] = 0 /\ u = right
              \/ u = N[z].link[v] /\ u # x /\ ~ (z = M /\ left # 0 /\ right # 0 /\ v = "right")
<1> SUFFICES ASSUME NEW z \in T \ {x}, NEW v \in Ways
             PROVE  \/ z = p /\ p # 0 /\ v = side /\ N[z].link[v] = x /\ N2[z].link[v] = at
                    \/ z = M /\ left # 0 /\ right # 0 /\ v = "right" /\ N[z].link[v] = 0
                         /\ N2[z].link[v] = right
                    \/ /\ N2[z].link[v] = N[z].link[v] /\ N2[z].link[v] # x
                       /\ ~ (z = M /\ left # 0 /\ right # 0 /\ v = "right")
    OBVIOUS
<1>1. N2[z].link[v] = IF z = p /\ p # 0 /\ v = side THEN at
                      ELSE IF z = M /\ left # 0 /\ right # 0 /\ v = "right" THEN right
                      ELSE N[z].link[v]
    BY DEF Relinked
<1>2. p # 0 => p \in T /\ side \in Ways /\ N[p].link[side] = x
    BY DEF Removable
<1>3. left # 0 => M \in T \ {x} /\ N[M].link["right"] = 0
    BY ChainIs
<1>4. x \in T /\ x # 0 /\ (p = 0 => x = root)
    <2>1. x \in T /\ (p = 0 => x = root)
        BY DEF Removable
    <2> QED BY <2>1, NodeIs
<1>5. CASE z = p /\ p # 0 /\ v = side
    BY <1>1, <1>2, <1>5
<1>6. CASE ~ (z = p /\ p # 0 /\ v = side) /\ z = M /\ left # 0 /\ right # 0 /\ v = "right"
    BY <1>1, <1>3, <1>6
<1>7. CASE ~ (z = p /\ p # 0 /\ v = side) /\ ~ (z = M /\ left # 0 /\ right # 0 /\ v = "right")
    <2>1. N2[z].link[v] = N[z].link[v]
        BY <1>1, <1>7
    <2>2. ASSUME N[z].link[v] = x PROVE FALSE
        <3>1. CASE p = 0
            <4>1. N[z].link[v] # 0 /\ N[z].link[v] = root
                BY <1>4, <2>2, <3>1
            <4> QED BY <4>1, RootHasNone
        <3>2. CASE p # 0
            <4>1. p \in T /\ side \in Ways /\ N[z].link[v] # 0 /\ N[z].link[v] = N[p].link[side]
                BY <1>2, <1>4, <2>2, <3>2
            <4>2. z = p /\ v = side
                BY <4>1, OneParent
            <4> QED BY <1>7, <3>2, <4>2
        <3> QED BY <3>1, <3>2
    <2> QED BY <1>7, <2>1, <2>2
<1> QED
    BY <1>5, <1>6, <1>7

\* The links of the new tree keep the search order.
LEMMA LinksWithout ==
    ASSUME NEW root, NEW N, NEW T, NEW L, NEW D, Shape(root, N, T, L, D),
           NEW x, NEW p, NEW side, NEW left, NEW right, NEW at, NEW M,
           Removable(root, N, T, L, D, x, p, side, left, right, at, M),
           NEW N2, Relinked(N, T, x, p, side, left, right, at, M, N2),
           NEW z \in T \ {x}, NEW v \in Ways, NEW u, u = N2[z].link[v]
    PROVE  /\ u \in (T \ {x}) \cup {0}
           /\ Remaining(D, x, left, right, M, u) \subseteq Remaining(D, x, left, right, M, z)
           /\ u # 0 => Len(L[u]) = (IF v = "mid" THEN Len(L[z]) + 1 ELSE Len(L[z]))
           /\ \A y \in Remaining(D, x, left, right, M, u) :
                 Agree(L[y], L[z]) /\ Way(N[z], L[y], Len(L[z])) = v
<1>1. /\ x \in T /\ left \in T \cup {0} /\ right \in T \cup {0} /\ at \in T \cup {0}
      /\ x \notin D[right] /\ right # x /\ at # x
      /\ right # 0 => Len(L[right]) = Len(L[x])
      /\ at # 0 => Len(L[at]) = Len(L[x])
    BY Around
<1>2. \/ z = p /\ p # 0 /\ v = side /\ N[z].link[v] = x /\ u = at
      \/ z = M /\ left # 0 /\ right # 0 /\ v = "right" /\ N[z].link[v] = 0 /\ u = right
      \/ u = N[z].link[v] /\ u # x
    BY RelinkedIs
<1>3. /\ N[z].link[v] \in T \cup {0}
      /\ D[N[z].link[v]] \subseteq D[z]
      /\ N[z].link[v] # 0 =>
            Len(L[N[z].link[v]]) = (IF v = "mid" THEN Len(L[z]) + 1 ELSE Len(L[z]))
      /\ \A y \in D[N[z].link[v]] :
            Agree(L[y], L[z]) /\ Way(N[z], L[y], Len(L[z])) = v
    BY LinkIs
<1>4. /\ D[z] \ {x} \subseteq Remaining(D, x, left, right, M, z)
      /\ \A w \in T \cup {0} : \A y \in Remaining(D, x, left, right, M, w) :
            y # x /\ (y \in D[w] \/ (Chain(D, left, M, w) /\ y \in D[right]))
      /\ Chain(D, left, M, z) => D[right] \subseteq Remaining(D, x, left, right, M, z)
      /\ Remaining(D, x, left, right, M, at) = D[x] \ {x}
      /\ right # 0 => Remaining(D, x, left, right, M, right) = D[right]
      /\ Remaining(D, x, left, right, M, 0) = {}
    BY RemainingIs
<1>5. Chain(D, left, M, z) =>
         /\ left # 0 /\ Len(L[z]) = Len(L[x])
         /\ \A w \in D[right] : /\ Agree(L[w], L[z])
                                /\ Way(N[z], L[w], Len(L[z])) = "right"
    BY ChainIs
<1>6. x # 0
    BY <1>1, NodeIs
<1>7. CASE z = p /\ p # 0 /\ v = side /\ N[z].link[v] = x /\ u = at
    <2>1. D[x] \subseteq D[z]
        BY <1>3, <1>7
    <2>2. Len(L[x]) = (IF v = "mid" THEN Len(L[z]) + 1 ELSE Len(L[z]))
        BY <1>3, <1>6, <1>7
    <2>3. \A y \in D[x] : Agree(L[y], L[z]) /\ Way(N[z], L[y], Len(L[z])) = v
        BY <1>3, <1>7
    <2>4. Remaining(D, x, left, right, M, u) = D[x] \ {x}
        BY <1>4, <1>7
    <2>5. u \in (T \ {x}) \cup {0} /\ (u # 0 => Len(L[u]) = Len(L[x]))
        BY <1>1, <1>7
    <2> QED BY <1>4, <2>1, <2>2, <2>3, <2>4, <2>5
<1>8. CASE z = M /\ left # 0 /\ right # 0 /\ v = "right" /\ N[z].link[v] = 0 /\ u = right
    <2>1. Chain(D, left, M, z)
        BY <1>8, ChainIs
    <2>2. u \in (T \ {x}) \cup {0} /\ (u # 0 => Len(L[u]) = Len(L[x]))
        BY <1>1, <1>8
    <2>3. Remaining(D, x, left, right, M, u) = D[right]
        BY <1>4, <1>8
    <2>4. v # "mid"
        BY <1>8
    <2> QED BY <1>4, <1>5, <1>8, <2>1, <2>2, <2>3, <2>4
<1>9. CASE u = N[z].link[v] /\ u # x
    <2>1. u \in (T \ {x}) \cup {0}
        BY <1>3, <1>9
    <2>2. u # 0 => Len(L[u]) = (IF v = "mid" THEN Len(L[z]) + 1 ELSE Len(L[z]))
        BY <1>3, <1>9
    <2>3. Chain(D, left, M, u) => Chain(D, left, M, z) /\ v = "right"
        <3>1. u # 0 /\ Chain(D, left, M, N[z].link[v]) => Chain(D, left, M, z) /\ v = "right"
            BY <1>9, ChainIs
        <3>2. ~ Chain(D, left, M, 0)
            BY ChainIs
        <3> QED BY <1>9, <3>1, <3>2
    <2>4. ASSUME NEW y \in Remaining(D, x, left, right, M, u)
          PROVE  /\ y \in Remaining(D, x, left, right, M, z)
                 /\ Agree(L[y], L[z]) /\ Way(N[z], L[y], Len(L[z])) = v
        <3>1. y # x /\ (y \in D[u] \/ (Chain(D, left, M, u) /\ y \in D[right]))
            BY <1>4, <2>1
        <3>2. CASE y \in D[u]
            BY <1>3, <1>4, <1>9, <3>1, <3>2
        <3>3. CASE Chain(D, left, M, u) /\ y \in D[right]
            BY <1>4, <1>5, <2>3, <3>3
        <3> QED BY <3>1, <3>2, <3>3
    <2> QED BY <2>1, <2>2, <2>4
<1> QED
    BY <1>2, <1>7, <1>8, <1>9

\* All the nodes below a node can be got from it.
LEMMA NodesWithout ==
    ASSUME NEW root, NEW N, NEW T, NEW L, NEW D, Shape(root, N, T, L, D),
           NEW x, NEW p, NEW side, NEW left, NEW right, NEW at, NEW M,
           Removable(root, N, T, L, D, x, p, side, left, right, at, M),
           NEW N2, Relinked(N, T, x, p, side, left, right, at, M, N2),
           NEW z \in T \ {x}
    PROVE  /\ z \in Remaining(D, x, left, right, M, z)
           /\ \A y \in Remaining(D, x, left, right, M, z) :
                 y = z \/ \E v \in Ways : y \in Remaining(D, x, left, right, M, N2[z].link[v])
<1>1. /\ x \in T /\ left \in T \cup {0} /\ right \in T \cup {0}
    BY Around
<1>2. /\ \A w \in T : D[w] \ {x} \subseteq Remaining(D, x, left, right, M, w)
      /\ \A y \in Remaining(D, x, left, right, M, z) :
            y \in T \ {x} /\ (y \in D[z] \/ (Chain(D, left, M, z) /\ y \in D[right]))
      /\ \A w \in T : Chain(D, left, M, w) => D[right] \subseteq Remaining(D, x, left, right, M, w)
      /\ Remaining(D, x, left, right, M, at) = D[x] \ {x}
      /\ right # 0 => Remaining(D, x, left, right, M, right) = D[right]
      /\ Remaining(D, x, left, right, M, 0) = {}
    BY RemainingIs
<1>3. D[0] = {} /\ "right" \in Ways
    BY DEF Shape, Ways
<1>4. \A v \in Ways :
         \/ z = p /\ p # 0 /\ v = side /\ N[z].link[v] = x /\ N2[z].link[v] = at
         \/ z = M /\ left # 0 /\ right # 0 /\ v = "right" /\ N[z].link[v] = 0 /\ N2[z].link[v] = right
         \/ /\ N2[z].link[v] = N[z].link[v] /\ N2[z].link[v] # x
            /\ ~ (z = M /\ left # 0 /\ right # 0 /\ v = "right")
    BY RelinkedIs
<1>5. z \in D[z] /\ \A y \in T : y \in D[z] => y = z \/ \E v \in Ways : y \in D[N[z].link[v]]
    BY NodeIs
<1>6. \A v \in Ways : N[z].link[v] \in T \cup {0}
    BY LinkIs
<1>7. ASSUME NEW y \in Remaining(D, x, left, right, M, z), y # z
      PROVE  \E v \in Ways : y \in Remaining(D, x, left, right, M, N2[z].link[v])
    <2>1. CASE y \in D[z]
        <3>1. PICK v \in Ways : y \in D[N[z].link[v]]
            BY <1>2, <1>5, <1>7, <2>1
        <3>2. y # x /\ N[z].link[v] # 0
            BY <1>2, <1>3, <3>1
        <3>3. CASE N[z].link[v] = x /\ N2[z].link[v] = at
            BY <1>2, <3>1, <3>2, <3>3
        <3>4. CASE N2[z].link[v] = N[z].link[v]
            BY <1>2, <1>6, <3>1, <3>2, <3>4
        <3> QED BY <1>4, <3>2, <3>3, <3>4
    <2>2. CASE Chain(D, left, M, z) /\ y \in D[right]
        <3>1. right # 0
            BY <1>3, <2>2
        <3>2. /\ left # 0 /\ z # p
              /\ z # M => N[z].link["right"] # 0 /\ Chain(D, left, M, N[z].link["right"])
            BY <2>2, ChainIs
        <3>3. CASE z = M
            <4>1. N2[z].link["right"] = right
                BY <1>3, <1>4, <3>1, <3>2, <3>3
            <4>2. y \in Remaining(D, x, left, right, M, N2[z].link["right"])
                BY <1>2, <2>2, <3>1, <4>1
            <4> QED BY <1>3, <4>2
        <3>4. CASE z # M
            <4>1. N2[z].link["right"] = N[z].link["right"]
                BY <1>3, <1>4, <3>2, <3>4
            <4>2. N[z].link["right"] \in T /\ Chain(D, left, M, N[z].link["right"])
                BY <1>3, <1>6, <3>2, <3>4
            <4>3. y \in Remaining(D, x, left, right, M, N2[z].link["right"])
                BY <1>2, <2>2, <4>1, <4>2
            <4> QED BY <1>3, <4>3
        <3> QED BY <3>3, <3>4
    <2> QED BY <1>2, <2>1, <2>2
<1>8. z \in Remaining(D, x, left, right, M, z)
    BY <1>2, <1>5
<1> QED
    BY <1>7, <1>8

LEMMA WithoutNode ==
    ASSUME NEW root, NEW N, NEW T, NEW L, NEW D, Shape(root, N, T, L, D),
           NEW x, NEW p, NEW side, NEW left, NEW right, NEW at, NEW M,
           Removable(root, N, T, L, D, x, p, side, left, right, at, M),
           NEW N2, Relinked(N, T, x, p, side, left, right, at, M, N2)
    PROVE  Shape(IF p = 0 THEN at ELSE root, N2, T \ {x}, WithoutLabel(T, L, x),
                 WithoutBelow(T, D, x, left, right, M))
<1>1. PICK T2 : T2 = T \ {x}
    OBVIOUS
<1>2. PICK L2 : L2 = WithoutLabel(T, L, x)
    OBVIOUS
<1>3. PICK D2 : D2 = WithoutBelow(T, D, x, left, right, M)
    OBVIOUS
<1>4. PICK root2 : root2 = IF p = 0 THEN at ELSE root
    OBVIOUS
<1>5. /\ x \in T /\ at \in T \cup {0} /\ at # x
      /\ at # 0 => Len(L[at]) = Len(L[x])
      /\ p # 0 => p \in T /\ p # x
    BY Around
<1>6. /\ IsFiniteSet(T) /\ T \subseteq Nat \ {0} /\ L \in [T -> Key]
      /\ root \in T \cup {0} /\ D[root] = T /\ D[0] = {}
      /\ root # 0 => Len(L[root]) = 1
    BY DEF Shape
<1>7. IsFiniteSet(T2) /\ T2 \subseteq Nat \ {0} /\ T2 \subseteq T
    <2>1. T2 \subseteq T
        BY <1>1
    <2> QED BY <1>6, <2>1, FS_Subset
<1>8. L2 \in [T2 -> Key] /\ \A z \in T2 : L2[z] = L[z]
    BY <1>1, <1>2, <1>6 DEF WithoutLabel
<1>9. \A z \in T2 \cup {0} : D2[z] = Remaining(D, x, left, right, M, z)
    BY <1>1, <1>3 DEF WithoutBelow
<1>10. D2 \in [T2 \cup {0} -> SUBSET T2]
    <2>1. \A z \in T2 \cup {0} : Remaining(D, x, left, right, M, z) \subseteq T2
        BY <1>1, <1>7, RemainingIs
    <2> QED BY <1>1, <1>3, <2>1 DEF WithoutBelow
<1>11. Remaining(D, x, left, right, M, at) = D[x] \ {x} /\ Remaining(D, x, left, right, M, 0) = {}
    BY RemainingIs
<1>12. 0 \in T2 \cup {0} /\ D2[0] = {}
    BY <1>9, <1>11
<1>13. root2 \in T2 \cup {0} /\ D2[root2] = T2 /\ (root2 # 0 => Len(L2[root2]) = 1)
    <2>1. CASE p = 0
        <3>1. x = root
            BY <2>1 DEF Removable
        <3>2. root2 = at /\ root2 \in T2 \cup {0}
            BY <1>1, <1>4, <1>5, <2>1
        <3>3. D2[root2] = T \ {x}
            BY <1>6, <1>9, <1>11, <3>1, <3>2
        <3>4. root2 # 0 => Len(L2[root2]) = Len(L[at]) /\ Len(L[at]) = Len(L[root])
            BY <1>5, <1>8, <3>1, <3>2
        <3>5. root # 0
            BY <1>5, <1>6, <3>1
        <3> QED BY <1>1, <1>6, <3>2, <3>3, <3>4, <3>5
    <2>2. CASE p # 0
        <3>1. p \in T /\ side \in Ways /\ N[p].link[side] = x /\ x # 0
            <4>1. x # 0
                BY <1>5, <1>6
            <4> QED BY <2>2, <4>1 DEF Removable
        <3>2. x # root
            <4>1. N[p].link[side] # 0 => N[p].link[side] # root
                BY <3>1, RootHasNone
            <4> QED BY <3>1, <4>1
        <3>3. root # 0
            BY <1>5, <1>6
        <3>4. root2 = root /\ root2 \in T2 /\ root2 \in T
            BY <1>1, <1>4, <1>6, <2>2, <3>2, <3>3
        <3>5. D2[root2] = Remaining(D, x, left, right, M, root)
            BY <1>9, <3>4
        <3>6. /\ D[root] \ {x} \subseteq Remaining(D, x, left, right, M, root)
              /\ Remaining(D, x, left, right, M, root) \subseteq T \ {x}
            <4>1. root \in T /\ root \in T \cup {0}
                BY <3>4
            <4> QED BY <4>1, RemainingIs
        <3>7. D2[root2] = T2
            BY <1>1, <1>6, <3>5, <3>6
        <3>8. Len(L2[root2]) = 1
            BY <1>6, <1>8, <3>3, <3>4
        <3> QED BY <3>4, <3>7, <3>8
    <2> QED BY <2>1, <2>2
<1>14. ASSUME NEW z \in T2, NEW v \in Ways
       PROVE  /\ N2[z].link[v] \in T2 \cup {0}
              /\ D2[N2[z].link[v]] \subseteq D2[z]
              /\ N2[z].link[v] # 0 =>
                    Len(L2[N2[z].link[v]]) = (IF v = "mid" THEN Len(L2[z]) + 1 ELSE Len(L2[z]))
              /\ \A y \in D2[N2[z].link[v]] :
                    Agree(L2[y], L2[z]) /\ Way(N2[z], L2[y], Len(L2[z])) = v
    <2>1. PICK u : u = N2[z].link[v]
        OBVIOUS
    <2>2. z \in T \ {x}
        BY <1>1
    <2>3. /\ u \in (T \ {x}) \cup {0}
          /\ Remaining(D, x, left, right, M, u) \subseteq Remaining(D, x, left, right, M, z)
          /\ u # 0 => Len(L[u]) = (IF v = "mid" THEN Len(L[z]) + 1 ELSE Len(L[z]))
          /\ \A y \in Remaining(D, x, left, right, M, u) :
                Agree(L[y], L[z]) /\ Way(N[z], L[y], Len(L[z])) = v
        BY <2>1, <2>2, LinksWithout
    <2>4. u \in T2 \cup {0}
        BY <1>1, <2>3
    <2>5. D2[u] = Remaining(D, x, left, right, M, u) /\ D2[z] = Remaining(D, x, left, right, M, z)
        BY <1>9, <2>4
    <2>6. D2[u] \subseteq T2
        BY <1>10, <2>4
    <2>7. L2[z] = L[z] /\ (u # 0 => L2[u] = L[u]) /\ \A y \in D2[u] : L2[y] = L[y]
        BY <1>8, <2>4, <2>6
    <2>8. ASSUME NEW y \in D2[u] PROVE Agree(L2[y], L2[z]) /\ Way(N2[z], L2[y], Len(L2[z])) = v
        <3>1. Agree(L[y], L[z]) /\ Way(N[z], L[y], Len(L[z])) = v
            BY <2>3, <2>5
        <3>2. N2[z].c = N[z].c
            BY <2>2 DEF Relinked
        <3>3. Way(N2[z], L[y], Len(L[z])) = Way(N[z], L[y], Len(L[z]))
            BY <3>2 DEF Way
        <3> QED BY <2>7, <3>1, <3>3
    <2>9. u # 0 => Len(L2[u]) = (IF v = "mid" THEN Len(L2[z]) + 1 ELSE Len(L2[z]))
        BY <2>3, <2>7
    <2> QED BY <2>1, <2>3, <2>4, <2>5, <2>8, <2>9
<1>15. ASSUME NEW z \in T2
       PROVE  /\ N2[z].c = L2[z][Len(L2[z])]
              /\ z \in D2[z]
              /\ \A y \in T2 : y \in D2[z] => y = z \/ \E v \in Ways : y \in D2[N2[z].link[v]]
    <2>1. z \in T \ {x} /\ z \in T
        BY <1>1
    <2>2. N[z].c = L[z][Len(L[z])]
        BY <2>1, NodeIs
    <2>3. N2[z].c = N[z].c
        BY <2>1 DEF Relinked
    <2>4. N2[z].c = L2[z][Len(L2[z])]
        BY <1>8, <2>2, <2>3
    <2>5. D2[z] = Remaining(D, x, left, right, M, z)
        BY <1>9
    <2>6. /\ z \in Remaining(D, x, left, right, M, z)
          /\ \A y \in Remaining(D, x, left, right, M, z) :
                y = z \/ \E v \in Ways : y \in Remaining(D, x, left, right, M, N2[z].link[v])
        BY <2>1, NodesWithout
    <2>7. \A v \in Ways : D2[N2[z].link[v]] = Remaining(D, x, left, right, M, N2[z].link[v])
        BY <1>9, <1>14
    <2> QED BY <2>4, <2>5, <2>6, <2>7
<1>16. Shape(root2, N2, T2, L2, D2)
    BY <1>7, <1>8, <1>10, <1>12, <1>13, <1>14, <1>15 DEF Shape
<1> QED
    BY <1>1, <1>2, <1>3, <1>4, <1>16

-----------------------------------------------------------------------------
(* One turn of tst_delete's loop: an empty node is removed.                *)

\* The freed node is the first of the list.
LEMMA FreedFirst ==
    ASSUME NEW d, NEW T, NEW F, Typed(d), FreeList(d, T, F), NEW x \in T, T \subseteq 1..d.size,
           NEW e, e.size = d.size, e.fhead = x, e.node[x].link["mid"] = d.fhead,
           \A z \in 1..d.size : z \notin T => e.node[z].link["mid"] = d.node[z].link["mid"]
    PROVE  FreeList(e, T \ {x}, <<x>> \o F)
<1>1. /\ F \in Seq(1..d.size) /\ Len(F) \in Nat
      /\ d.fhead = IF F = << >> THEN 0 ELSE F[1]
      /\ \A i \in 1..Len(F) : d.node[F[i]].link["mid"] = IF i = Len(F) THEN 0 ELSE F[i + 1]
      /\ \A i, j \in 1..Len(F) : F[i] = F[j] => i = j
      /\ \A z \in 1..d.size : z \in T <=> \A i \in 1..Len(F) : F[i] # z
    BY DEF FreeList
<1>2. PICK G : G = <<x>> \o F
    OBVIOUS
<1>3. x \in 1..d.size
    OBVIOUS
<1>4. /\ G \in Seq(1..d.size) /\ Len(G) = Len(F) + 1 /\ G[1] = x
      /\ \A i \in 2..(Len(F) + 1) : G[i] = F[i - 1]
    <2>1. <<x>> \in Seq(1..d.size)
        BY <1>3
    <2> QED BY <1>1, <1>2, <2>1
<1>5. G # << >>
    BY <1>1, <1>4
<1>6. ASSUME NEW i \in 1..Len(F) PROVE F[i] \in 1..d.size /\ F[i] # x /\ F[i] \notin T
    <2>1. F[i] \in 1..d.size
        BY FreeListHead
    <2>2. F[i] \notin T
        BY <1>1, <2>1
    <2> QED BY <2>1, <2>2
<1>7. ASSUME NEW i \in 1..Len(G)
      PROVE  e.node[G[i]].link["mid"] = IF i = Len(G) THEN 0 ELSE G[i + 1]
    <2>1. CASE i = 1
        <3>1. e.node[G[i]].link["mid"] = d.fhead
            BY <1>4, <2>1
        <3>2. CASE F = << >>
            <4>1. Len(F) = 0 /\ Len(G) = 1
                BY <1>4, <3>2
            <4> QED BY <1>1, <2>1, <3>1, <3>2, <4>1
        <3>3. CASE F # << >>
            <4>1. Len(F) # 0
                BY <1>1, <3>3
            <4>2. 2 \in 2..(Len(F) + 1) /\ i # Len(G) /\ i + 1 = 2 /\ 2 - 1 = 1
                BY <1>1, <1>4, <2>1, <4>1
            <4>3. G[2] = F[1]
                BY <1>4, <4>2
            <4> QED BY <1>1, <3>1, <3>3, <4>2, <4>3
        <3> QED BY <3>2, <3>3
    <2>2. CASE i # 1
        <3>1. PICK h : h = i - 1
            OBVIOUS
        <3>2. h \in 1..Len(F) /\ i \in 2..(Len(F) + 1) /\ i = h + 1
            BY <1>1, <1>4, <2>2, <3>1
        <3>3. G[i] = F[h]
            BY <1>4, <3>1, <3>2
        <3>4. e.node[F[h]].link["mid"] = IF h = Len(F) THEN 0 ELSE F[h + 1]
            BY <1>1, <1>6, <3>2
        <3>5. i = Len(G) <=> h = Len(F)
            BY <1>1, <1>4, <3>2
        <3>6. h # Len(F) => G[i + 1] = F[h + 1]
            <4>1. h # Len(F) => i + 1 \in 2..(Len(F) + 1) /\ i + 1 - 1 = h + 1
                BY <1>1, <3>2
            <4> QED BY <1>4, <4>1
        <3> QED BY <3>3, <3>4, <3>5, <3>6
    <2> QED BY <2>1, <2>2
<1>8. ASSUME NEW i \in 1..Len(G), NEW j \in 1..Len(G), G[i] = G[j] PROVE i = j
    <2>1. \A h \in 1..Len(G) : h = 1 \/ (h - 1 \in 1..Len(F) /\ G[h] = F[h - 1])
        BY <1>1, <1>4
    <2>2. CASE i = 1
        BY <1>4, <1>6, <1>8, <2>1, <2>2
    <2>3. CASE j = 1
        BY <1>4, <1>6, <1>8, <2>1, <2>3
    <2>4. CASE i # 1 /\ j # 1
        <3>1. i - 1 \in 1..Len(F) /\ j - 1 \in 1..Len(F) /\ F[i - 1] = F[j - 1]
            BY <1>8, <2>1, <2>4
        <3>2. i - 1 = j - 1
            BY <1>1, <3>1
        <3> QED BY <3>2
    <2> QED BY <2>2, <2>3, <2>4
<1>9. ASSUME NEW z \in 1..d.size
      PROVE  z \in T \ {x} <=> \A i \in 1..Len(G) : G[i] # z
    <2>1. ASSUME z \in T \ {x}, NEW i \in 1..Len(G) PROVE G[i] # z
        <3>1. i = 1 \/ (i - 1 \in 1..Len(F) /\ G[i] = F[i - 1])
            BY <1>1, <1>4
        <3> QED BY <1>4, <1>6, <2>1, <3>1
    <2>2. ASSUME \A i \in 1..Len(G) : G[i] # z PROVE z \in T \ {x}
        <3>1. 1 \in 1..Len(G)
            BY <1>1, <1>4
        <3>2. z # x
            BY <1>4, <2>2, <3>1
        <3>3. ASSUME NEW i \in 1..Len(F) PROVE F[i] # z
            <4>1. i + 1 \in 1..Len(G) /\ i + 1 \in 2..(Len(F) + 1) /\ i + 1 - 1 = i
                BY <1>1, <1>4
            <4>2. G[i + 1] = F[i]
                BY <1>4, <4>1
            <4>3. G[i + 1] # z
                BY <2>2, <4>1
            <4> QED BY <4>2, <4>3
        <3> QED BY <1>1, <3>2, <3>3
    <2> QED BY <2>1, <2>2
<1>10. e.fhead = IF G = << >> THEN 0 ELSE G[1]
    BY <1>4, <1>5
<1>11. FreeList(e, T \ {x}, G)
    BY <1>4, <1>7, <1>8, <1>9, <1>10 DEF FreeList
<1> QED
    BY <1>2, <1>11

\* p is the parent of x, 0 at the root, and x has its number.
ParentIs(d, T, x, p) ==
    /\ d.node[x].parent = p
    /\ p = 0 => x = d.root
    /\ p # 0 => p \in T /\ \E way \in Ways : d.node[p].link[way] = x

\* What remains as it was when x is removed below p.
Keeps(d, T, x, p, e) ==
    /\ e.size = d.size /\ e.cap = d.cap
    /\ p # 0 => e.root = d.root
    /\ \A z \in T \ {x}, v \in Ways :
          d.node[z].link[v] # 0 /\ d.node[z].link[v] # x => e.node[z].link[v] = d.node[z].link[v]
    /\ \A z \in T \ {x} :
          e.node[z].parent = d.node[z].parent \/ \E v \in Ways : d.node[x].link[v] = z

LEMMA UnlinkReadsWell ==
    ASSUME NEW d, NEW T, NEW L, NEW D, Tree(d, T, L, D), NEW x \in T, d.node[x].link["mid"] = 0,
           NEW p, ParentIs(d, T, x, p)
    PROVE  \E side, left, right, at, M :
              /\ UnlinkReads(d, x, p, side, left, right, at, M)
              /\ Removable(d.root, d.node, T, L, D, x, p, side, left, right, at, M)
<1>1. PICK left : left = d.node[x].link["left"]
    OBVIOUS
<1>2. PICK right : right = d.node[x].link["right"]
    OBVIOUS
<1>3. PICK at : at = (IF left = 0 THEN right ELSE left)
    OBVIOUS
<1>4. PICK M : M = Rightmost(FreeNode(d, x), left)
    OBVIOUS
<1>5. PICK side : side = CASE x = d.node[p].link["left"]  -> "left"
                           [] x = d.node[p].link["right"] -> "right"
                           [] OTHER                       -> "mid"
    OBVIOUS
<1>6. UnlinkReads(d, x, p, side, left, right, at, M)
    BY <1>1, <1>2, <1>3, <1>4, <1>5 DEF UnlinkReads, ParentIs
<1>7. Typed(d) /\ T \subseteq 1..d.size /\ Shape(d.root, d.node, T, L, D) /\ x \in 0..d.size
    <2>1. Typed(d) /\ T \subseteq 1..d.size /\ Shape(d.root, d.node, T, L, D)
        BY DEF Tree
    <2> QED BY <2>1, TypedIs
<1>8. p # 0 => p \in T /\ side \in Ways /\ d.node[p].link[side] = x
    <2>1. SUFFICES ASSUME p # 0 PROVE p \in T /\ side \in Ways /\ d.node[p].link[side] = x
        OBVIOUS
    <2>2. p \in T /\ \E way \in Ways : d.node[p].link[way] = x
        BY <2>1 DEF ParentIs
    <2>3. side \in Ways
        BY <1>5 DEF Ways
    <2>4. CASE x = d.node[p].link["left"]
        BY <1>5, <2>2, <2>3, <2>4
    <2>5. CASE x # d.node[p].link["left"] /\ x = d.node[p].link["right"]
        BY <1>5, <2>2, <2>3, <2>5
    <2>6. CASE x # d.node[p].link["left"] /\ x # d.node[p].link["right"]
        <3>1. side = "mid"
            BY <1>5, <2>6
        <3>2. d.node[p].link["mid"] = x
            BY <2>2, <2>6 DEF Ways
        <3> QED BY <2>2, <2>3, <3>1, <3>2
    <2> QED BY <2>4, <2>5, <2>6
<1>9. left # 0 => Largest(d.node, L, D, left, M)
    <2>1. SUFFICES ASSUME left # 0 PROVE Largest(d.node, L, D, left, M)
        OBVIOUS
    <2>2. "left" \in Ways /\ "right" \in Ways /\ "right" # "mid"
        BY DEF Ways
    <2>3. left \in T
        <3>1. d.node[x].link["left"] \in T \cup {0}
            BY <1>7, <2>2, LinkIs
        <3> QED BY <1>1, <2>1, <3>1
    <2>4. PICK f : f = FreeNode(d, x)
        OBVIOUS
    <2>5. NodeFreed(d, x, f)
        BY <1>7, <2>4, FreeNodeIs
    <2>6. /\ Typed(f) /\ f.size = d.size
          /\ \A z \in 0..d.size : f.node[z].link["right"] = d.node[z].link["right"]
        BY <2>2, <2>5 DEF NodeFreed
    <2>7. Largest(d.node, L, D, left, Rightmost(f, left))
        BY <2>3, <2>6, RightmostIs
    <2> QED BY <1>4, <2>4, <2>7
<1>10. p = 0 => x = d.root
    BY DEF ParentIs
<1>11. Removable(d.root, d.node, T, L, D, x, p, side, left, right, at, M)
    BY <1>1, <1>2, <1>3, <1>8, <1>9, <1>10 DEF Removable
<1> QED
    BY <1>6, <1>11

\* A node that is the same in its parts is the same.
LEMMA SameNode ==
    ASSUME NEW n \in Nat, NEW a \in NodeOf(n), NEW b \in NodeOf(n),
           a.c = b.c, a.value = b.value, a.parent = b.parent,
           \A v \in Ways : a.link[v] = b.link[v]
    PROVE  a = b
<1>1. a = [c |-> a.c, link |-> a.link, parent |-> a.parent, value |-> a.value] /\ a.link \in [Ways -> 0..n]
    BY NodeParts
<1>2. b = [c |-> b.c, link |-> b.link, parent |-> b.parent, value |-> b.value] /\ b.link \in [Ways -> 0..n]
    BY NodeParts
<1>3. a.link = b.link
    BY <1>1, <1>2
<1> QED
    BY <1>1, <1>2, <1>3

LEMMA UnlinkedTree ==
    ASSUME NEW d, NEW T, NEW L, NEW D, Tree(d, T, L, D), NEW F, FreeList(d, T, F), NEW x \in T,
           NEW p, NEW side, NEW left, NEW right, NEW at, NEW M, M \in 0..d.size,
           Removable(d.root, d.node, T, L, D, x, p, side, left, right, at, M),
           NEW e, Unlinked(d, x, p, side, left, right, at, M, e)
    PROVE  /\ Tree(e, T \ {x}, WithoutLabel(T, L, x), WithoutBelow(T, D, x, left, right, M))
           /\ FreeList(e, T \ {x}, <<x>> \o F)
           /\ Relinked(d.node, T, x, p, side, left, right, at, M, e.node)
<1>1. /\ Typed(d) /\ d.size < d.cap /\ T \subseteq 1..d.size /\ d.node[0] = Blank
      /\ Shape(d.root, d.node, T, L, D)
    BY DEF Tree
<1>2. d.size \in Nat /\ 0 \in 0..d.size /\ x \in 0..d.size /\ x # 0
    BY <1>1, TypedIs
<1>3. /\ p # 0 => p \in T /\ p # x
      /\ left # 0 => M \in T \ {x}
    BY <1>1, Around, ChainIs
<1>4. /\ Typed(e) /\ e.size = d.size /\ e.cap = d.cap /\ e.fhead = x
      /\ e.root = IF p = 0 THEN at ELSE d.root
    BY DEF Unlinked
<1>5. ASSUME NEW z \in 0..d.size
      PROVE  /\ e.node[z].c = d.node[z].c
             /\ e.node[z].value = IF z = x THEN 0 ELSE d.node[z].value
             /\ e.node[z].parent = IF z = at /\ at # 0 THEN p ELSE d.node[z].parent
             /\ \A v \in Ways : e.node[z].link[v] =
                   IF z = p /\ p # 0 /\ v = side THEN at
                   ELSE IF z = M /\ left # 0 /\ right # 0 /\ v = "right" THEN right
                   ELSE IF z = x /\ v = "mid" THEN d.fhead
                   ELSE d.node[z].link[v]
    BY DEF Unlinked
<1>6. Relinked(d.node, T, x, p, side, left, right, at, M, e.node)
    <2>1. \A z \in T \ {x} : z \in 0..d.size /\ z # x
        BY <1>1, <1>2
    <2> QED BY <1>5, <2>1 DEF Relinked
<1>7. e.node[0] = Blank
    <2>1. 0 # x /\ 0 \notin T
        BY <1>1, <1>2
    <2>2. /\ e.node[0].c = d.node[0].c /\ e.node[0].value = d.node[0].value
          /\ e.node[0].parent = d.node[0].parent
        BY <1>2, <1>5, <2>1
    <2>3. \A v \in Ways : e.node[0].link[v] = d.node[0].link[v]
        BY <1>2, <1>3, <1>5, <2>1
    <2>4. d.node[0] \in NodeOf(d.size) /\ e.node[0] \in NodeOf(d.size)
        <3>1. d.node[0] \in NodeOf(d.size)
            BY <1>1, <1>2, TypedIs
        <3>2. 0 \in 0..e.size
            BY <1>2, <1>4
        <3>3. e.node[0] \in NodeOf(e.size)
            BY <1>4, <3>2, TypedIs
        <3> QED BY <1>4, <3>1, <3>3
    <2>5. e.node[0] = d.node[0]
        BY <1>2, <2>2, <2>3, <2>4, SameNode
    <2> QED BY <1>1, <2>5
<1>8. Shape(e.root, e.node, T \ {x}, WithoutLabel(T, L, x), WithoutBelow(T, D, x, left, right, M))
    <2>1. Shape(IF p = 0 THEN at ELSE d.root, e.node, T \ {x}, WithoutLabel(T, L, x),
                WithoutBelow(T, D, x, left, right, M))
        BY <1>1, <1>6, WithoutNode
    <2> QED BY <1>4, <2>1
<1>9. Tree(e, T \ {x}, WithoutLabel(T, L, x), WithoutBelow(T, D, x, left, right, M))
    <2>1. e.size < e.cap /\ T \ {x} \subseteq 1..e.size
        BY <1>1, <1>4
    <2> QED BY <1>4, <1>7, <1>8, <2>1 DEF Tree
<1>10. FreeList(e, T \ {x}, <<x>> \o F)
    <2>1. "mid" \in Ways /\ "mid" # "right"
        BY DEF Ways
    <2>2. e.node[x].link["mid"] = d.fhead
        <3>1. ~ (x = p /\ p # 0)
            BY <1>3
        <3> QED BY <1>2, <1>5, <2>1, <3>1
    <2>3. \A z \in 1..d.size : z \notin T => e.node[z].link["mid"] = d.node[z].link["mid"]
        <3>1. ASSUME NEW z \in 1..d.size, z \notin T PROVE e.node[z].link["mid"] = d.node[z].link["mid"]
            <4>1. z \in 0..d.size /\ z # x /\ ~ (z = p /\ p # 0)
                BY <1>3, <3>1
            <4> QED BY <1>5, <2>1, <4>1
        <3> QED BY <3>1
    <2> QED BY <1>1, <1>4, <2>2, <2>3, FreedFirst
<1> QED
    BY <1>6, <1>9, <1>10

LEMMA UnlinkIs ==
    ASSUME NEW d, NEW T, NEW L, NEW D, NEW F, NEW mp, NEW x \in T, State(d, T, L, D, F, mp, x),
           IsEmpty(d.node[x]), NEW p, ParentIs(d, T, x, p)
    PROVE  \E L2, D2 : /\ State(Unlink(d, x), T \ {x}, L2, D2, <<x>> \o F, mp, p)
                       /\ Keeps(d, T, x, p, Unlink(d, x))
<1>1. Tree(d, T, L, D) /\ FreeList(d, T, F) /\ Known(d, T) /\ Alive(d, T, x) /\ Holds(d, T, L, mp)
    BY DEF State
<1>2. Typed(d) /\ T \subseteq 1..d.size /\ Shape(d.root, d.node, T, L, D)
    BY <1>1 DEF Tree
<1>3. d.node[x].link["mid"] = 0 /\ d.node[x].value = 0 /\ x \in 1..d.size
    BY <1>2 DEF IsEmpty
<1>4. PICK side, left, right, at, M :
         /\ UnlinkReads(d, x, p, side, left, right, at, M)
         /\ Removable(d.root, d.node, T, L, D, x, p, side, left, right, at, M)
    BY <1>1, <1>3, UnlinkReadsWell
<1>5. PICK e : e = Unlink(d, x)
    OBVIOUS
<1>6. Unlinked(d, x, p, side, left, right, at, M, e) /\ M \in 0..d.size
    <2>1. Unlinked(d, x, p, side, left, right, at, M, Unlink(d, x)) /\ M \in 0..d.size
        BY <1>2, <1>3, <1>4, UnlinkWrites
    <2> QED BY <1>5, <2>1
<1>7. PICK L2 : L2 = WithoutLabel(T, L, x)
    OBVIOUS
<1>8. PICK D2 : D2 = WithoutBelow(T, D, x, left, right, M)
    OBVIOUS
<1>9. /\ Tree(e, T \ {x}, L2, D2) /\ FreeList(e, T \ {x}, <<x>> \o F)
      /\ Relinked(d.node, T, x, p, side, left, right, at, M, e.node)
    BY <1>1, <1>4, <1>6, <1>7, <1>8, UnlinkedTree
<1>10. \A z \in T \ {x}, v \in Ways :
          \/ z = p /\ p # 0 /\ v = side /\ d.node[z].link[v] = x /\ e.node[z].link[v] = at
          \/ v = "right" /\ d.node[z].link[v] = 0
          \/ e.node[z].link[v] = d.node[z].link[v] /\ e.node[z].link[v] # x
    BY <1>2, <1>4, <1>9, RelinkedIs
<1>11. \A z \in T \ {x} :
          /\ e.node[z].value = d.node[z].value
          /\ e.node[z].parent = IF z = at /\ at # 0 THEN p ELSE d.node[z].parent
    <2>1. \A z \in T \ {x} : z \in 0..d.size /\ z # x
        BY <1>2, TypedIs
    <2> QED BY <1>6, <2>1 DEF Unlinked
<1>12. at = 0 \/ \E v \in Ways : d.node[x].link[v] = at
    BY <1>4 DEF Removable, Ways
<1>13. Keeps(d, T, x, p, e)
    <2>1. e.size = d.size /\ e.cap = d.cap /\ (p # 0 => e.root = d.root)
        BY <1>6 DEF Unlinked
    <2>2. ASSUME NEW z \in T \ {x}, NEW v \in Ways, d.node[z].link[v] # 0, d.node[z].link[v] # x
          PROVE  e.node[z].link[v] = d.node[z].link[v]
        BY <1>10, <2>2
    <2>3. \A z \in T \ {x} :
             e.node[z].parent = d.node[z].parent \/ \E v \in Ways : d.node[x].link[v] = z
        BY <1>11, <1>12
    <2> QED BY <2>1, <2>2, <2>3 DEF Keeps
<1>14. Known(e, T \ {x})
    <2>1. SUFFICES ASSUME NEW z \in T \ {x}, NEW way \in {"left", "mid"}, e.node[z].link[way] # 0
                   PROVE  e.node[e.node[z].link[way]].parent = z
        BY DEF Known
    <2>2. way \in Ways /\ way # "right" /\ z \in T
        BY DEF Ways
    <2>3. PICK u : u = e.node[z].link[way]
        OBVIOUS
    <2>4. u \in T \ {x}
        <3>1. e.node[z].link[way] \in (T \ {x}) \cup {0}
            BY <1>9, <2>2, LinkIs DEF Tree
        <3> QED BY <2>1, <2>3, <3>1
    <2>5. CASE z = p /\ p # 0 /\ e.node[z].link[way] = at
        BY <1>11, <2>1, <2>3, <2>4, <2>5
    <2>6. CASE e.node[z].link[way] = d.node[z].link[way]
        <3>1. u = d.node[z].link[way] /\ u # 0
            BY <2>1, <2>3, <2>6
        <3>2. d.node[u].parent = z
            BY <1>1, <2>2, <3>1 DEF Known
        <3>3. u # at
            <4>1. ASSUME NEW v \in Ways, d.node[x].link[v] = d.node[z].link[way] PROVE FALSE
                <5>1. x = z
                    BY <1>2, <2>1, <2>2, <2>6, <4>1, OneParent
                <5> QED BY <5>1
            <4> QED BY <1>12, <3>1, <4>1
        <3> QED BY <1>11, <2>3, <2>4, <3>2, <3>3
    <2> QED BY <1>10, <2>2, <2>5, <2>6
<1>15. Alive(e, T \ {x}, p)
    <2>1. SUFFICES ASSUME NEW z \in T \ {x}, z # p
                   PROVE  e.node[z].link["mid"] # 0 \/ e.node[z].value # 0
        BY DEF Alive
    <2>2. "mid" \in Ways /\ "mid" # "right"
        BY DEF Ways
    <2>3. d.node[z].link["mid"] # 0 \/ d.node[z].value # 0
        BY <1>1 DEF Alive
    <2>4. e.node[z].link["mid"] = d.node[z].link["mid"]
        BY <1>10, <2>1, <2>2
    <2> QED BY <1>11, <2>3, <2>4
<1>16. Holds(e, T \ {x}, L2, mp)
    <2>1. /\ mp \in [Keys -> Values \cup {0}]
          /\ \A z \in T : d.node[z].value = IF L[z] \in Keys THEN mp[L[z]] ELSE 0
          /\ \A k \in Keys : mp[k] # 0 => \E z \in T : L[z] = k
        BY <1>1 DEF Holds
    <2>2. \A z \in T \ {x} : L2[z] = L[z]
        BY <1>7 DEF WithoutLabel
    <2>3. ASSUME NEW k \in Keys, mp[k] # 0 PROVE \E z \in T \ {x} : L2[z] = k
        <3>1. PICK z \in T : L[z] = k
            BY <2>1, <2>3
        <3>2. z # x
            BY <1>3, <2>1, <2>3, <3>1
        <3> QED BY <2>2, <3>1, <3>2
    <2>4. \A z \in T \ {x} : e.node[z].value = IF L2[z] \in Keys THEN mp[L2[z]] ELSE 0
        BY <1>11, <2>1, <2>2
    <2> QED BY <2>1, <2>3, <2>4 DEF Holds
<1>17. State(e, T \ {x}, L2, D2, <<x>> \o F, mp, p)
    BY <1>9, <1>14, <1>15, <1>16 DEF State
<1> QED
    BY <1>5, <1>13, <1>17

-----------------------------------------------------------------------------
(* The loop of tst_delete.                                                 *)

\* One turn of the loop.
Turn(q) ==
    IF q.at = 0 THEN q
    ELSE [at |-> q.db.node[q.at].parent,
          db |-> IF IsEmpty(q.db.node[q.at]) THEN Unlink(q.db, q.at) ELSE q.db]

Turns(f, d, x, n) == f = [j \in 0..n |-> IF j = 0 THEN [at |-> x, db |-> d] ELSE Turn(f[j - 1])]

LEMMA TurnsExist ==
    ASSUME NEW d, NEW x, NEW n \in Nat
    PROVE  \E f : Turns(f, d, x, n)
<1> DEFINE T == {u \in Nat : \E f : Turns(f, d, x, u)}
<1>1. 0 \in T
    <2>1. PICK f : f = [j \in 0..0 |-> [at |-> x, db |-> d]]
        OBVIOUS
    <2>2. \A j \in 0..0 : j = 0
        OBVIOUS
    <2>3. f = [j \in 0..0 |-> IF j = 0 THEN [at |-> x, db |-> d] ELSE Turn(f[j - 1])]
        BY <2>1, <2>2
    <2> QED BY <2>3 DEF Turns
<1>2. ASSUME NEW u \in Nat, u \in T PROVE u + 1 \in T
    <2>1. PICK f : Turns(f, d, x, u)
        BY <1>2
    <2>2. PICK a : a = Turn(f[u])
        OBVIOUS
    <2>3. PICK g : g = [j \in 0..(u + 1) |-> IF j = u + 1 THEN a ELSE f[j]]
        OBVIOUS
    <2>4. ASSUME NEW j \in 0..(u + 1)
          PROVE  g[j] = IF j = 0 THEN [at |-> x, db |-> d] ELSE Turn(g[j - 1])
        <3>1. CASE j = u + 1
            <4>1. j - 1 = u /\ u \in 0..(u + 1) /\ u # u + 1 /\ j # 0
                BY <3>1
            <4>2. g[u] = f[u] /\ g[j] = a
                BY <2>3, <3>1, <4>1
            <4> QED BY <2>2, <3>1, <4>1, <4>2
        <3>2. CASE j # u + 1
            <4>1. j \in 0..u /\ g[j] = f[j]
                BY <2>3, <3>2
            <4>2. f[j] = IF j = 0 THEN [at |-> x, db |-> d] ELSE Turn(f[j - 1])
                BY <2>1, <4>1 DEF Turns
            <4>3. j # 0 => g[j - 1] = f[j - 1]
                <5>1. j # 0 => j - 1 \in 0..(u + 1) /\ j - 1 # u + 1
                    BY <4>1
                <5> QED BY <2>3, <5>1
            <4> QED BY <4>1, <4>2, <4>3
        <3> QED BY <3>1, <3>2
    <2>5. g = [j \in 0..(u + 1) |-> IF j = 0 THEN [at |-> x, db |-> d] ELSE Turn(g[j - 1])]
        BY <2>3, <2>4
    <2>6. Turns(g, d, x, u + 1)
        BY <2>5 DEF Turns
    <2> QED BY <2>6
<1>3. n \in T
    <2> HIDE DEF T
    <2> QED BY <1>1, <1>2, Induction
<1> QED
    BY <1>3

LEMMA ClimbRuns ==
    ASSUME NEW d, NEW x, d.size \in Nat
    PROVE  \E f : /\ f[0] = [at |-> x, db |-> d]
                  /\ \A j \in 0..(2 * d.size) : j # 0 => f[j] = Turn(f[j - 1])
                  /\ Climb(d, x) = f[2 * d.size].db
<1>0. PICK n : n = 2 * d.size
    OBVIOUS
<1> DEFINE Is(f) == f = [j \in 0..n |->
                           IF j = 0 THEN [at |-> x, db |-> d]
                           ELSE LET q == f[j - 1] IN
                                IF q.at = 0 THEN q
                                ELSE [at |-> q.db.node[q.at].parent,
                                      db |-> IF IsEmpty(q.db.node[q.at]) THEN Unlink(q.db, q.at)
                                             ELSE q.db]]
<1>1. \E f : Is(f)
    <2>1. n \in Nat
        BY <1>0
    <2>2. PICK f : Turns(f, d, x, n)
        BY <2>1, TurnsExist
    <2>3. Is(f)
        BY <2>2 DEF Turns, Turn
    <2> QED BY <2>3
<1>3. PICK f : f = (CHOOSE f_1 : Is(f_1))
    OBVIOUS
<1>4. Climb(d, x) = f[n].db
    BY <1>0, <1>3 DEF Climb
<1>5. Is(f)
    <2> HIDE DEF Is
    <2> QED BY <1>1, <1>3
<1>6. Turns(f, d, x, n)
    BY <1>5 DEF Turns, Turn
<1>7. n \in Nat /\ 0 \in 0..n
    BY <1>0
<1>8. f[0] = [at |-> x, db |-> d] /\ \A j \in 0..n : j # 0 => f[j] = Turn(f[j - 1])
    BY <1>6, <1>7 DEF Turns
<1> QED
    BY <1>0, <1>4, <1>8

\* The nodes of a search are all different.
LEMMA PathDiffers ==
    ASSUME NEW d, NEW T, NEW L, NEW D, Tree(d, T, L, D), NEW s \in Key,
           NEW path, OnPath(d, T, L, D, s, path)
    PROVE  \A i, k \in 1..Len(path) : path[i].at = path[k].at => i = k
<1>1. Shape(d.root, d.node, T, L, D)
    BY DEF Tree
<1>2. PICK rank \in [T -> 1..Cardinality(T)] : \A x \in T, way \in Ways :
         d.node[x].link[way] # 0 => rank[d.node[x].link[way]] < rank[x]
    BY <1>1, Rank
<1>3. Len(path) \in Nat /\ Cardinality(T) \in Nat
    BY PathIs, TreeSize
<1>4. \A i \in 1..Len(path) : path[i].at \in T /\ path[i].at # 0
    BY PathIs
<1>5. \A i \in 1..Len(path) : rank[path[i].at] \in Nat
    BY <1>2, <1>3, <1>4
<1>6. ASSUME NEW i \in 1..(Len(path) - 1) PROVE rank[path[i + 1].at] < rank[path[i].at]
    <2>0. /\ Way(d.node[path[i].at], s, path[i].i) \in Ways
          /\ path[i + 1].at = d.node[path[i].at].link[Way(d.node[path[i].at], s, path[i].i)]
        BY PathIs
    <2>1. PICK v \in Ways : path[i + 1].at = d.node[path[i].at].link[v]
        BY <2>0
    <2>2. i \in 1..Len(path) /\ i + 1 \in 1..Len(path)
        BY <1>3
    <2>3. path[i].at \in T /\ path[i + 1].at # 0
        BY <1>4, <2>2
    <2> QED BY <1>2, <2>1, <2>3
<1> DEFINE U == {k \in Nat : \A i \in 1..Len(path) : i + k \in 1..Len(path) /\ k # 0 =>
                                rank[path[i + k].at] < rank[path[i].at]}
<1>7. 0 \in U
    OBVIOUS
<1>8. ASSUME NEW k \in Nat, k \in U PROVE k + 1 \in U
    <2>1. SUFFICES ASSUME NEW i \in 1..Len(path), i + (k + 1) \in 1..Len(path)
                   PROVE  rank[path[i + (k + 1)].at] < rank[path[i].at]
        OBVIOUS
    <2>2. PICK h : h = i + k
        OBVIOUS
    <2>3. h \in 1..(Len(path) - 1) /\ h + 1 = i + (k + 1) /\ h \in 1..Len(path)
        BY <1>3, <2>1, <2>2
    <2>4. rank[path[h + 1].at] < rank[path[h].at]
        BY <1>6, <2>3
    <2>5. k = 0 => h = i
        BY <2>2
    <2>6. k # 0 => rank[path[h].at] < rank[path[i].at]
        BY <1>8, <2>2, <2>3
    <2>7. /\ rank[path[h].at] \in Nat /\ rank[path[i].at] \in Nat
          /\ rank[path[h + 1].at] \in Nat
        BY <1>5, <2>1, <2>3
    <2>8. rank[path[h + 1].at] < rank[path[i].at]
        BY <2>4, <2>5, <2>6, <2>7
    <2> QED BY <2>3, <2>8
<1>9. \A k \in Nat : k \in U
    <2> HIDE DEF U
    <2> QED BY <1>7, <1>8, Induction
<1>10. ASSUME NEW i \in 1..Len(path), NEW k \in 1..Len(path), i < k, path[i].at = path[k].at
       PROVE  FALSE
    <2>1. PICK h : h = k - i
        OBVIOUS
    <2>2. h \in Nat /\ h # 0 /\ i + h = k
        BY <1>3, <1>10, <2>1
    <2>3. rank[path[i + h].at] < rank[path[i].at]
        BY <1>9, <1>10, <2>2
    <2> QED BY <1>5, <1>10, <2>2, <2>3
<1>11. \A i, k \in 1..Len(path) : i < k \/ k < i \/ i = k
    BY <1>3
<1> QED
    BY <1>10, <1>11

\* The nodes nd[1] .. nd[j] lead from the root down and know their parents.
Line(d, T, nd, j) ==
    /\ \A i \in 1..j : nd[i] \in T /\ d.node[nd[i]].parent = IF i = 1 THEN 0 ELSE nd[i - 1]
    /\ j >= 1 => nd[1] = d.root
    /\ \A i \in 1..(j - 1) : \E way \in Ways : d.node[nd[i]].link[way] = nd[i + 1]

LEMMA LineKept ==
    ASSUME NEW d, NEW T, NEW L, NEW D, Shape(d.root, d.node, T, L, D),
           NEW nd, NEW j \in Nat \ {0}, Line(d, T, nd, j),
           \A i, k \in 1..j : nd[i] = nd[k] => i = k,
           NEW p, p = (IF j = 1 THEN 0 ELSE nd[j - 1]), NEW e, Keeps(d, T, nd[j], p, e)
    PROVE  Line(e, T \ {nd[j]}, nd, j - 1)
<1>1. /\ \A i \in 1..j : nd[i] \in T /\ d.node[nd[i]].parent = IF i = 1 THEN 0 ELSE nd[i - 1]
      /\ nd[1] = d.root
      /\ \A i \in 1..(j - 1) : \E way \in Ways : d.node[nd[i]].link[way] = nd[i + 1]
    BY DEF Line
<1>2. \A i \in 1..j : nd[i] # 0
    BY <1>1, NodeIs
<1>3. \A i \in 1..(j - 1) : i \in 1..j /\ i # j /\ i + 1 \in 1..j /\ nd[i] # nd[j]
    OBVIOUS
<1>4. ASSUME NEW i \in 1..(j - 1)
      PROVE  /\ nd[i] \in T \ {nd[j]}
             /\ e.node[nd[i]].parent = IF i = 1 THEN 0 ELSE nd[i - 1]
    <2>1. i \in 1..j /\ j \in 1..j /\ nd[i] \in T \ {nd[j]} /\ nd[j] \in T /\ nd[i] # 0
        BY <1>1, <1>2, <1>3
    <2>2. ASSUME NEW v \in Ways, d.node[nd[j]].link[v] = nd[i] PROVE FALSE
        <3>1. CASE i = 1
            <4>1. d.node[nd[j]].link[v] # 0 /\ d.node[nd[j]].link[v] = d.root
                BY <1>1, <2>1, <2>2, <3>1
            <4> QED BY <2>1, <4>1, RootHasNone
        <3>2. CASE i # 1
            <4>1. PICK h : h = i - 1
                OBVIOUS
            <4>2. h \in 1..(j - 1) /\ h + 1 = i
                BY <3>2, <4>1
            <4>3. PICK way \in Ways : d.node[nd[h]].link[way] = nd[i]
                BY <1>1, <4>2
            <4>4. nd[h] \in T /\ nd[h] # nd[j]
                BY <1>1, <1>3, <4>2
            <4>5. d.node[nd[h]].link[way] # 0 /\ d.node[nd[h]].link[way] = d.node[nd[j]].link[v]
                BY <2>1, <2>2, <4>3
            <4>6. nd[h] = nd[j]
                BY <2>1, <4>4, <4>5, OneParent
            <4> QED BY <4>4, <4>6
        <3> QED BY <3>1, <3>2
    <2>3. e.node[nd[i]].parent = d.node[nd[i]].parent
        BY <2>1, <2>2 DEF Keeps
    <2> QED BY <1>1, <2>1, <2>3
<1>5. j - 1 >= 1 => nd[1] = e.root
    <2>1. SUFFICES ASSUME j - 1 >= 1 PROVE nd[1] = e.root
        OBVIOUS
    <2>2. j # 1 /\ j - 1 \in 1..j
        BY <2>1
    <2>3. p # 0
        BY <1>2, <2>2
    <2> QED BY <1>1, <2>3 DEF Keeps
<1>6. ASSUME NEW i \in 1..(j - 1 - 1) PROVE \E way \in Ways : e.node[nd[i]].link[way] = nd[i + 1]
    <2>1. i \in 1..(j - 1) /\ i + 1 \in 1..(j - 1)
        OBVIOUS
    <2>2. PICK way \in Ways : d.node[nd[i]].link[way] = nd[i + 1]
        BY <1>1, <2>1
    <2>3. nd[i] \in T \ {nd[j]} /\ nd[i + 1] # 0 /\ nd[i + 1] # nd[j]
        BY <1>1, <1>2, <1>3, <2>1
    <2>4. e.node[nd[i]].link[way] = nd[i + 1]
        BY <2>2, <2>3 DEF Keeps
    <2> QED BY <2>4
<1> QED
    BY <1>4, <1>5, <1>6 DEF Line

\* The tree at a turn that has come to the node x, 0 when it is done.
Climbed(d, mp, nd, j, q) ==
    /\ q.at = (IF j = 0 THEN 0 ELSE nd[j])
    /\ q.db.size = d.size
    /\ \E T, L, D, F : State(q.db, T, L, D, F, mp, q.at) /\ Line(q.db, T, nd, j)

LEMMA TurnIs ==
    ASSUME NEW d, NEW mp, NEW nd, NEW j \in Nat \ {0}, NEW q, Climbed(d, mp, nd, j, q),
           \A i, k \in 1..j : nd[i] = nd[k] => i = k
    PROVE  Climbed(d, mp, nd, j - 1, Turn(q))
<1>1. PICK T, L, D, F : State(q.db, T, L, D, F, mp, q.at) /\ Line(q.db, T, nd, j)
    BY DEF Climbed
<1>2. PICK b : b = q.db
    OBVIOUS
<1>3. PICK x : x = nd[j]
    OBVIOUS
<1>4. PICK p : p = IF j = 1 THEN 0 ELSE nd[j - 1]
    OBVIOUS
<1>5. q.at = x /\ b.size = d.size /\ State(b, T, L, D, F, mp, x) /\ Line(b, T, nd, j)
    BY <1>1, <1>2, <1>3 DEF Climbed
<1>6. /\ Tree(b, T, L, D) /\ FreeList(b, T, F) /\ Known(b, T) /\ Alive(b, T, x)
      /\ Holds(b, T, L, mp) /\ Shape(b.root, b.node, T, L, D)
    BY <1>5 DEF State, Tree
<1>7. /\ \A i \in 1..j : nd[i] \in T /\ b.node[nd[i]].parent = IF i = 1 THEN 0 ELSE nd[i - 1]
      /\ nd[1] = b.root
      /\ \A i \in 1..(j - 1) : \E way \in Ways : b.node[nd[i]].link[way] = nd[i + 1]
    BY <1>5 DEF Line
<1>8. x \in T /\ x # 0
    <2>1. j \in 1..j
        OBVIOUS
    <2>2. x \in T
        BY <1>3, <1>7, <2>1
    <2> QED BY <1>6, <2>2, NodeIs
<1>9. ParentIs(b, T, x, p)
    <2>1. b.node[x].parent = p
        <3>1. j \in 1..j
            OBVIOUS
        <3> QED BY <1>3, <1>4, <1>7, <3>1
    <2>2. CASE j = 1
        BY <1>3, <1>4, <1>7, <2>1, <2>2 DEF ParentIs
    <2>3. CASE j # 1
        <3>1. PICK h : h = j - 1
            OBVIOUS
        <3>2. h \in 1..(j - 1) /\ h \in 1..j /\ h + 1 = j /\ p = nd[h]
            BY <1>4, <2>3, <3>1
        <3>3. p \in T /\ \E way \in Ways : b.node[p].link[way] = x
            BY <1>3, <1>7, <3>2
        <3>4. p # 0
            BY <1>6, <3>3, NodeIs
        <3> QED BY <2>1, <3>3, <3>4 DEF ParentIs
    <2> QED BY <2>2, <2>3
<1>10. PICK r : r = Turn(q)
    OBVIOUS
<1>11. r.at = p /\ r.db = IF IsEmpty(b.node[x]) THEN Unlink(b, x) ELSE b
    <2>1. b.node[x].parent = p
        BY <1>9 DEF ParentIs
    <2> QED BY <1>2, <1>5, <1>8, <1>10, <2>1 DEF Turn
<1>12. p = (IF j - 1 = 0 THEN 0 ELSE nd[j - 1])
    BY <1>4
<1>13. CASE IsEmpty(b.node[x])
    <2>1. PICK e : e = Unlink(b, x)
        OBVIOUS
    <2>2. PICK L2, D2 : State(Unlink(b, x), T \ {x}, L2, D2, <<x>> \o F, mp, p)
                        /\ Keeps(b, T, x, p, Unlink(b, x))
        BY <1>5, <1>8, <1>9, <1>13, UnlinkIs
    <2>3. State(e, T \ {x}, L2, D2, <<x>> \o F, mp, p) /\ Keeps(b, T, x, p, e)
        BY <2>1, <2>2
    <2>4. Line(e, T \ {nd[j]}, nd, j - 1)
        <3>1. Keeps(b, T, nd[j], p, e)
            BY <1>3, <2>3
        <3> QED BY <1>4, <1>5, <1>6, <3>1, LineKept
    <2>5. Line(e, T \ {x}, nd, j - 1)
        BY <1>3, <2>4
    <2>6. r.db = e /\ e.size = d.size
        BY <1>5, <1>11, <1>13, <2>1, <2>3 DEF Keeps
    <2>7. State(r.db, T \ {x}, L2, D2, <<x>> \o F, mp, r.at) /\ Line(r.db, T \ {x}, nd, j - 1)
        BY <1>11, <2>3, <2>5, <2>6
    <2>8. Climbed(d, mp, nd, j - 1, r)
        BY <1>11, <1>12, <2>6, <2>7 DEF Climbed
    <2> QED BY <1>10, <2>8
<1>14. CASE ~ IsEmpty(b.node[x])
    <2>1. r.db = b
        BY <1>11, <1>14
    <2>2. Alive(b, T, p)
        BY <1>6, <1>14 DEF Alive, IsEmpty
    <2>3. State(b, T, L, D, F, mp, p)
        BY <1>6, <2>2 DEF State
    <2>4. Line(b, T, nd, j - 1)
        <3>1. \A i \in 1..(j - 1) : i \in 1..j
            OBVIOUS
        <3>2. \A i \in 1..(j - 1 - 1) : i \in 1..(j - 1)
            OBVIOUS
        <3> QED BY <1>7, <3>1, <3>2 DEF Line
    <2>5. State(r.db, T, L, D, F, mp, r.at) /\ Line(r.db, T, nd, j - 1)
        BY <1>11, <2>1, <2>3, <2>4
    <2>6. Climbed(d, mp, nd, j - 1, r)
        BY <1>5, <1>11, <1>12, <2>1, <2>5 DEF Climbed
    <2> QED BY <1>10, <2>6
<1> QED
    BY <1>13, <1>14

LEMMA ClimbIs ==
    ASSUME NEW d, NEW mp, NEW nd, NEW n \in Nat \ {0}, d.size \in Nat, n <= 2 * d.size,
           Climbed(d, mp, nd, n, [at |-> nd[n], db |-> d]),
           \A i, k \in 1..n : nd[i] = nd[k] => i = k
    PROVE  \E T, L, D, F : State(Climb(d, nd[n]), T, L, D, F, mp, 0)
<1>1. PICK f : /\ f[0] = [at |-> nd[n], db |-> d]
               /\ \A j \in 0..(2 * d.size) : j # 0 => f[j] = Turn(f[j - 1])
               /\ Climb(d, nd[n]) = f[2 * d.size].db
    BY ClimbRuns
<1>2. PICK z : z = 2 * d.size
    OBVIOUS
<1>3. z \in Nat /\ n <= z
    BY <1>2
<1> DEFINE Left(k) == IF k < n THEN n - k ELSE 0
           U == {k \in Nat : k \in 0..z => Climbed(d, mp, nd, Left(k), f[k])}
<1>4. 0 \in U
    <2>1. Left(0) = n
        OBVIOUS
    <2> QED BY <1>1, <2>1
<1>5. ASSUME NEW k \in Nat, k \in U PROVE k + 1 \in U
    <2>1. SUFFICES ASSUME k + 1 \in 0..z PROVE Climbed(d, mp, nd, Left(k + 1), f[k + 1])
        OBVIOUS
    <2>2. k \in 0..z /\ k + 1 # 0 /\ k + 1 - 1 = k
        BY <1>3, <2>1
    <2>3. f[k + 1] = Turn(f[k])
        BY <1>1, <1>2, <2>1, <2>2
    <2>4. Climbed(d, mp, nd, Left(k), f[k])
        BY <1>5, <2>2
    <2>5. CASE k < n
        <3>1. PICK j : j = n - k
            OBVIOUS
        <3>2. j \in Nat \ {0} /\ Left(k) = j /\ Left(k + 1) = j - 1 /\ j <= n
            BY <2>5, <3>1
        <3>3. \A i, h \in 1..j : nd[i] = nd[h] => i = h
            BY <3>2
        <3>4. Climbed(d, mp, nd, j, f[k])
            BY <2>4, <3>2
        <3>5. Climbed(d, mp, nd, j - 1, Turn(f[k]))
            BY <3>2, <3>3, <3>4, TurnIs
        <3> QED BY <2>3, <3>2, <3>5
    <2>6. CASE ~ (k < n)
        <3>1. Left(k) = 0 /\ Left(k + 1) = 0
            BY <2>6
        <3>2. f[k].at = 0
            BY <2>4, <3>1 DEF Climbed
        <3>3. f[k + 1] = f[k]
            BY <2>3, <3>2 DEF Turn
        <3> QED BY <2>4, <3>1, <3>3
    <2> QED BY <2>5, <2>6
<1>6. \A k \in Nat : k \in U
    <2> HIDE DEF U
    <2> QED BY <1>4, <1>5, Induction
<1>7. Climbed(d, mp, nd, 0, f[z])
    <2>1. Left(z) = 0 /\ z \in 0..z
        BY <1>3
    <2> QED BY <1>3, <1>6, <2>1
<1>8. f[z].at = 0 /\ Climb(d, nd[n]) = f[z].db
    BY <1>1, <1>2, <1>7 DEF Climbed
<1> QED
    BY <1>7, <1>8 DEF Climbed

LEMMA DeleteIs ==
    ASSUME NEW d, NEW T, NEW L, NEW D, NEW F, NEW mp, State(d, T, L, D, F, mp, 0),
           NEW s \in Keys, s \in Key, ~ ClimbsAstray(d, s)
    PROVE  \E T2, L2, D2, F2 : State(TstDelete(d, s), T2, L2, D2, F2, [mp EXCEPT ![s] = 0], 0)
<1>1. Tree(d, T, L, D) /\ FreeList(d, T, F) /\ Known(d, T) /\ Alive(d, T, 0) /\ Holds(d, T, L, mp)
    BY DEF State
<1>2. Typed(d) /\ T \subseteq 1..d.size /\ Shape(d.root, d.node, T, L, D)
    BY <1>1 DEF Tree
<1>3. d.size \in Nat
    BY <1>2, TypedIs
<1>4. mp \in [Keys -> Values \cup {0}]
    BY <1>1 DEF Holds
<1>5. PICK x : x = Find(d, s)
    OBVIOUS
<1>6. PICK path : path = Visits(d, s)
    OBVIOUS
<1>7. /\ x # 0 => x \in T /\ L[x] = s /\ path # << >> /\ x = path[Len(path)].at
      /\ \A y \in T : L[y] = s => x = y
    <2>1. /\ Find(d, s) # 0 => /\ Find(d, s) \in T /\ L[Find(d, s)] = s
                               /\ Visits(d, s) # << >>
                               /\ Find(d, s) = Visits(d, s)[Len(Visits(d, s))].at
          /\ \A y \in T : L[y] = s => Find(d, s) = y
        BY <1>1, FindIs
    <2> QED BY <1>5, <1>6, <2>1
<1>8. CASE x = 0
    <2>1. mp[s] = 0
        <3>1. ASSUME mp[s] # 0 PROVE FALSE
            <4>1. PICK y \in T : L[y] = s
                BY <1>1, <3>1 DEF Holds
            <4>2. y # 0 /\ x = y
                BY <1>2, <1>7, <4>1, NodeIs
            <4> QED BY <1>8, <4>2
        <3> QED BY <3>1
    <2>2. [mp EXCEPT ![s] = 0] = mp
        BY <1>4, <2>1
    <2>3. TstDelete(d, s) = d
        BY <1>5, <1>8 DEF TstDelete
    <2> QED BY <2>2, <2>3
<1>9. CASE x # 0
    <2>1. x \in T /\ L[x] = s /\ path # << >> /\ x = path[Len(path)].at
        BY <1>7, <1>9
    <2>2. OnPath(d, T, L, D, s, path)
        BY <1>1, <1>6, VisitsIs
    <2>3. PICK n : n = Len(path)
        OBVIOUS
    <2>4. /\ n \in Nat \ {0} /\ n \in 1..n
          /\ \A i \in 1..n : path[i].at \in T /\ path[i].at # 0
          /\ n <= Cardinality(T)
        <3>1. Len(path) \in Nat /\ Len(path) \in 1..Len(path)
            BY <1>1, <2>1, <2>2, PathIs
        <3>2. \A i \in 1..Len(path) : path[i].at \in T /\ path[i].at # 0
            BY <1>1, <2>2, PathIs
        <3>3. Len(path) \in 0..Cardinality(T)
            BY <2>2 DEF OnPath
        <3> QED BY <2>3, <3>1, <3>2, <3>3
    <2>5. n <= 2 * d.size
        <3>1. Cardinality(T) \in Nat /\ Cardinality(T) <= d.size
            BY <1>1, TreeSize
        <3> QED BY <1>3, <2>4, <3>1
    <2>6. PICK nd : nd = [i \in 1..n |-> path[i].at]
        OBVIOUS
    <2>7. \A i \in 1..n : nd[i] = path[i].at
        BY <2>6
    <2>8. \A i, k \in 1..n : nd[i] = nd[k] => i = k
        <3>1. \A i, k \in 1..Len(path) : path[i].at = path[k].at => i = k
            BY <1>1, <2>2, PathDiffers
        <3> QED BY <2>3, <2>7, <3>1
    <2>9. nd[n] = x
        BY <2>1, <2>3, <2>4, <2>7
    <2>10. PICK d0 : d0 = [d EXCEPT !.node[x].value = 0]
        OBVIOUS
    <2>11. PICK mp2 : mp2 = [mp EXCEPT ![s] = 0]
        OBVIOUS
    <2>12. /\ State(d0, T, L, D, F, mp2, x) /\ d0.size = d.size /\ d0.root = d.root
           /\ \A z \in 0..d.size : /\ d0.node[z].parent = d.node[z].parent
                                   /\ d0.node[z].link = d.node[z].link
        <3>1. PICK v : v = 0
            OBVIOUS
        <3>2. v \in Values \cup {0} /\ d0 = [d EXCEPT !.node[x].value = v]
            BY <2>10, <3>1
        <3>3. /\ State(d0, T, L, D, F, [mp EXCEPT ![s] = v], IF v = 0 THEN x ELSE 0)
              /\ d0.size = d.size /\ d0.root = d.root
              /\ \A z \in 0..d.size : /\ d0.node[z].parent = d.node[z].parent
                                      /\ d0.node[z].link = d.node[z].link
            <4>1. x \in T /\ L[x] = s /\ 0 \in {0, x}
                BY <2>1
            <4> QED BY <3>2, <4>1, ValueIs
        <3>4. (IF v = 0 THEN x ELSE 0) = x /\ [mp EXCEPT ![s] = v] = mp2
            BY <2>11, <3>1
        <3> QED BY <3>3, <3>4
    <2>13. \A i \in 1..n : d.node[nd[i]].parent = IF i = 1 THEN 0 ELSE nd[i - 1]
        <3>1. ASSUME NEW i \in 1..n PROVE d.node[nd[i]].parent = IF i = 1 THEN 0 ELSE nd[i - 1]
            <4>1. d.node[path[i].at].parent = IF i = 1 THEN 0 ELSE path[i - 1].at
                BY <1>5, <1>6, <1>9, <2>3 DEF ClimbsAstray
            <4>2. i # 1 => i - 1 \in 1..n
                BY <2>4
            <4> QED BY <2>7, <4>1, <4>2
        <3> QED BY <3>1
    <2>14. \A i \in 1..n : nd[i] \in T /\ nd[i] \in 0..d.size
        <3>1. \A i \in 1..n : nd[i] \in T
            BY <2>4, <2>7
        <3>2. \A z \in T : z \in 0..d.size
            BY <1>2, <1>3
        <3> QED BY <3>1, <3>2
    <2>15. Line(d0, T, nd, n)
        <3>1. ASSUME NEW i \in 1..n
              PROVE  nd[i] \in T /\ d0.node[nd[i]].parent = IF i = 1 THEN 0 ELSE nd[i - 1]
            BY <2>12, <2>13, <2>14
        <3>2. nd[1] = d0.root
            <4>1. path[1].at = d.root
                BY <2>1, <2>2 DEF OnPath
            <4>2. 1 \in 1..n
                BY <2>4
            <4> QED BY <2>7, <2>12, <4>1, <4>2
        <3>3. ASSUME NEW i \in 1..(n - 1)
              PROVE  \E way \in Ways : d0.node[nd[i]].link[way] = nd[i + 1]
            <4>1. i \in 1..(Len(path) - 1) /\ i \in 1..n /\ i + 1 \in 1..n
                BY <2>3, <2>4
            <4>2. /\ Way(d.node[path[i].at], s, path[i].i) \in Ways
                  /\ path[i + 1].at = d.node[path[i].at].link[Way(d.node[path[i].at], s, path[i].i)]
                BY <1>1, <2>2, <4>1, PathIs
            <4>3. PICK way \in Ways : path[i + 1].at = d.node[path[i].at].link[way]
                BY <4>2
            <4>4. d0.node[nd[i]].link = d.node[nd[i]].link
                BY <2>12, <2>14, <4>1
            <4>5. d0.node[nd[i]].link[way] = nd[i + 1]
                BY <2>7, <4>1, <4>3, <4>4
            <4> QED BY <4>5
        <3> QED BY <3>1, <3>2, <3>3 DEF Line
    <2>16. PICK q : q = [at |-> nd[n], db |-> d0]
        OBVIOUS
    <2>17. Climbed(d0, mp2, nd, n, q)
        <3>1. q.at = x /\ q.db = d0 /\ q.at = (IF n = 0 THEN 0 ELSE nd[n])
            BY <2>4, <2>9, <2>16
        <3> QED BY <2>12, <2>15, <3>1 DEF Climbed
    <2>18. \E T2, L2, D2, F2 : State(Climb(d0, nd[n]), T2, L2, D2, F2, mp2, 0)
        <3>1. d0.size \in Nat /\ n <= 2 * d0.size
            BY <1>3, <2>5, <2>12
        <3>2. Climbed(d0, mp2, nd, n, [at |-> nd[n], db |-> d0])
            BY <2>16, <2>17
        <3> QED BY <2>4, <2>8, <3>1, <3>2, ClimbIs
    <2>19. TstDelete(d, s) = Climb(d0, nd[n])
        BY <1>5, <1>9, <2>9, <2>10 DEF TstDelete
    <2> QED BY <2>11, <2>18, <2>19
<1> QED
    BY <1>8, <1>9

-----------------------------------------------------------------------------
(* A deletion that goes astray keeps to the array.                         *)

LEMMA TurnTyped ==
    ASSUME NEW n \in Nat, NEW cap, NEW q, Typed(q.db), q.db.size = n, q.db.cap = cap, q.at \in 0..n
    PROVE  LET r == Turn(q) IN Typed(r.db) /\ r.db.size = n /\ r.db.cap = cap /\ r.at \in 0..n
<1>1. PICK r : r = Turn(q)
    OBVIOUS
<1>2. CASE q.at = 0
    <2>1. r = q
        BY <1>1, <1>2 DEF Turn
    <2> QED BY <1>1, <2>1
<1>3. CASE q.at # 0
    <2>1. PICK d : d = q.db
        OBVIOUS
    <2>2. PICK x : x = q.at
        OBVIOUS
    <2>3. Typed(d) /\ d.size = n /\ d.cap = cap /\ x \in 1..d.size
        BY <1>3, <2>1, <2>2
    <2>4. r.at = d.node[x].parent /\ r.db = IF IsEmpty(d.node[x]) THEN Unlink(d, x) ELSE d
        BY <1>1, <1>3, <2>1, <2>2 DEF Turn
    <2>5. r.at \in 0..n
        <3>1. x \in 0..d.size
            BY <2>3
        <3>2. d.node[x].parent \in 0..d.size
            BY <2>3, <3>1, TypedIs
        <3> QED BY <2>3, <2>4, <3>2
    <2>6. CASE IsEmpty(d.node[x])
        <3>1. PICK p : p = d.node[x].parent
            OBVIOUS
        <3>2. PICK left : left = d.node[x].link["left"]
            OBVIOUS
        <3>3. PICK right : right = d.node[x].link["right"]
            OBVIOUS
        <3>4. PICK at : at = (IF left = 0 THEN right ELSE left)
            OBVIOUS
        <3>5. PICK M : M = Rightmost(FreeNode(d, x), left)
            OBVIOUS
        <3>6. PICK side : side = CASE x = d.node[p].link["left"]  -> "left"
                                   [] x = d.node[p].link["right"] -> "right"
                                   [] OTHER                       -> "mid"
            OBVIOUS
        <3>7. UnlinkReads(d, x, p, side, left, right, at, M)
            BY <3>1, <3>2, <3>3, <3>4, <3>5, <3>6 DEF UnlinkReads
        <3>8. Unlinked(d, x, p, side, left, right, at, M, Unlink(d, x))
            BY <2>3, <3>7, UnlinkWrites
        <3>9. Typed(Unlink(d, x)) /\ Unlink(d, x).size = d.size /\ Unlink(d, x).cap = d.cap
            BY <3>8 DEF Unlinked
        <3>10. r.db = Unlink(d, x)
            BY <2>4, <2>6
        <3> QED BY <1>1, <2>3, <2>5, <3>9, <3>10
    <2>7. CASE ~ IsEmpty(d.node[x])
        BY <1>1, <2>3, <2>4, <2>5, <2>7
    <2> QED BY <2>6, <2>7
<1> QED
    BY <1>2, <1>3

LEMMA ClimbTyped ==
    ASSUME NEW d, Typed(d), NEW x \in 0..d.size
    PROVE  Typed(Climb(d, x)) /\ Climb(d, x).size = d.size /\ Climb(d, x).cap = d.cap
<1>1. d.size \in Nat
    BY TypedIs
<1>2. PICK f : /\ f[0] = [at |-> x, db |-> d]
               /\ \A j \in 0..(2 * d.size) : j # 0 => f[j] = Turn(f[j - 1])
               /\ Climb(d, x) = f[2 * d.size].db
    BY <1>1, ClimbRuns
<1>3. PICK z : z = 2 * d.size
    OBVIOUS
<1>4. z \in Nat /\ z \in 0..z
    BY <1>1, <1>3
<1> DEFINE Good(q) == Typed(q.db) /\ q.db.size = d.size /\ q.db.cap = d.cap /\ q.at \in 0..d.size
           U == {k \in Nat : k \in 0..z => Good(f[k])}
<1>5. 0 \in U
    BY <1>2
<1>6. ASSUME NEW k \in Nat, k \in U PROVE k + 1 \in U
    <2>1. SUFFICES ASSUME k + 1 \in 0..z PROVE Good(f[k + 1])
        OBVIOUS
    <2>2. k \in 0..z /\ k + 1 # 0 /\ k + 1 - 1 = k
        BY <1>4, <2>1
    <2>3. f[k + 1] = Turn(f[k])
        BY <1>2, <1>3, <2>1, <2>2
    <2>4. Good(f[k])
        BY <1>6, <2>2
    <2>5. Good(Turn(f[k]))
        BY <1>1, <2>4, TurnTyped
    <2> QED BY <2>3, <2>5
<1>7. \A k \in Nat : k \in U
    <2> HIDE DEF U
    <2> QED BY <1>5, <1>6, Induction
<1>8. Good(f[z])
    BY <1>4, <1>7
<1> QED
    BY <1>2, <1>3, <1>8

LEMMA DeleteTyped ==
    ASSUME NEW d, NEW T, NEW L, NEW D, Tree(d, T, L, D), NEW s \in Key
    PROVE  Typed(TstDelete(d, s)) /\ TstDelete(d, s).size < TstDelete(d, s).cap
<1>1. Typed(d) /\ d.size < d.cap /\ T \subseteq 1..d.size
    BY DEF Tree
<1>2. PICK x : x = Find(d, s)
    OBVIOUS
<1>3. x # 0 => x \in T
    BY <1>2, FindIs
<1>4. CASE x = 0
    BY <1>1, <1>2, <1>4 DEF TstDelete
<1>5. CASE x # 0
    <2>1. x \in 0..d.size
        <3>1. d.size \in Nat
            BY <1>1, TypedIs
        <3>2. x \in T
            BY <1>3, <1>5
        <3>3. x \in 1..d.size
            BY <1>1, <3>2
        <3> QED BY <3>1, <3>3
    <2>2. PICK n : n = [d.node[x] EXCEPT !.value = 0]
        OBVIOUS
    <2>3. n \in NodeOf(d.size)
        <3>1. d.node[x] \in NodeOf(d.size) /\ d.size \in Nat
            BY <1>1, <2>1, TypedIs
        <3> QED BY <2>2, <3>1 DEF NodeOf
    <2>4. PICK e : e = WithNode(d, x, n)
        OBVIOUS
    <2>5. Typed(e) /\ e.size = d.size /\ e.cap = d.cap
        BY <1>1, <2>1, <2>3, <2>4, SetNode
    <2>6. e = [d EXCEPT !.node[x].value = 0]
        <3>1. d \in [root : 0..d.size, size : {d.size}, cap : Nat, fhead : 0..d.size,
                     node : [0..d.size -> NodeOf(d.size)]]
            BY <1>1 DEF Typed, DbOf
        <3> QED BY <2>1, <2>2, <2>4, <3>1 DEF WithNode
    <2>7. TstDelete(d, s) = Climb(e, x)
        BY <1>2, <1>5, <2>6 DEF TstDelete
    <2>8. Typed(Climb(e, x)) /\ Climb(e, x).size = e.size /\ Climb(e, x).cap = e.cap
        <3>1. x \in 0..e.size
            BY <2>1, <2>5
        <3> QED BY <2>5, <3>1, ClimbTyped
    <2> QED BY <1>1, <2>5, <2>7, <2>8
<1> QED
    BY <1>4, <1>5

-----------------------------------------------------------------------------
(* The inductive invariant.                                                *)

\* As long as no deletion has gone astray there are labels and domains that
\* make the array a tree which holds what the calls asked for.
Inv ==
    /\ TypeOK
    /\ ~ damaged => \E T, L, D, F : State(db, T, L, D, F, m, 0)

LEMMA KeyIs ==
    ASSUME NEW k \in Keys \cup Probes
    PROVE  k \in Key
BY KeysAssumption DEF Key

LEMMA TypedOK ==
    ASSUME NEW d, Typed(d)
    PROVE  d \in [root : 0..d.size, size : Nat, cap : Nat, fhead : 0..d.size,
                  node : [0..d.size -> [c : Int, link : [Ways -> 0..d.size], parent : 0..d.size,
                                        value : Values \cup {0}]]]
<1>1. d \in [root : 0..d.size, size : {d.size}, cap : Nat, fhead : 0..d.size,
             node : [0..d.size -> NodeOf(d.size)]] /\ d.size \in Nat
    BY DEF Typed, DbOf
<1>2. PICK n : n = d.size
    OBVIOUS
<1>3. d \in [root : 0..n, size : {n}, cap : Nat, fhead : 0..n, node : [0..n -> NodeOf(n)]] /\ n \in Nat
    BY <1>1, <1>2
<1>4. d \in [root : 0..n, size : Nat, cap : Nat, fhead : 0..n, node : [0..n -> NodeOf(n)]]
    BY <1>3
<1> QED
    BY <1>2, <1>4 DEF NodeOf

\* An empty tree.
LEMMA EmptyTree ==
    ASSUME NEW d, d = [root |-> 0, size |-> 0, cap |-> InitialCap, fhead |-> 0,
                       node |-> [x \in {0} |-> Blank]],
           NEW mp, mp = [k \in Keys |-> 0]
    PROVE  \E T, L, D, F : State(d, T, L, D, F, mp, 0)
<1>1. PICK T : T = {}
    OBVIOUS
<1>2. PICK L : L = [z \in T |-> <<0>>]
    OBVIOUS
<1>3. PICK D : D = [z \in {0} |-> {}]
    OBVIOUS
<1>4. PICK F : F = << >>
    OBVIOUS
<1>5. PICK N : N = [x \in {0} |-> Blank]
    OBVIOUS
<1>6. d.root = 0 /\ d.size = 0 /\ d.cap = InitialCap /\ d.fhead = 0 /\ d.node = N
    BY <1>5
<1>7. InitialCap \in Nat /\ InitialCap > 0
    BY KeysAssumption
<1>8. Typed(d) /\ d.node[0] = Blank
    <2>1. Blank \in NodeOf(0)
        BY BlankIs
    <2>2. {0} = 0..0
        OBVIOUS
    <2>3. N \in [0..0 -> NodeOf(0)] /\ N[0] = Blank
        BY <1>5, <2>1, <2>2
    <2>4. d = [root |-> 0, size |-> 0, cap |-> InitialCap, fhead |-> 0, node |-> N]
        BY <1>5
    <2>5. d \in [root : 0..0, size : {0}, cap : Nat, fhead : 0..0, node : [0..0 -> NodeOf(0)]]
        BY <1>7, <2>3, <2>4
    <2> QED BY <1>6, <2>3, <2>5 DEF Typed, DbOf
<1>9. Shape(0, N, T, L, D)
    <2>1. IsFiniteSet(T)
        BY <1>1, FS_EmptySet
    <2>2. T \subseteq Nat \ {0} /\ T \cup {0} = {0}
        BY <1>1
    <2>3. L \in [T -> Key]
        BY <1>1, <1>2
    <2>4. D \in [T \cup {0} -> SUBSET T] /\ D[0] = T /\ D[0] = {}
        BY <1>1, <1>3, <2>2
    <2>5. 0 \in T \cup {0}
        OBVIOUS
    <2>6. \A z \in T : FALSE
        BY <1>1
    <2> QED BY <2>1, <2>2, <2>3, <2>4, <2>5, <2>6 DEF Shape
<1>10. Tree(d, T, L, D)
    <2>1. T \subseteq 1..d.size /\ d.size < d.cap
        BY <1>1, <1>6, <1>7
    <2>2. Shape(d.root, d.node, T, L, D)
        BY <1>6, <1>9
    <2> QED BY <1>8, <2>1, <2>2 DEF Tree
<1>11. FreeList(d, T, F)
    <2>1. F \in Seq(1..d.size) /\ Len(F) = 0
        BY <1>4
    <2>2. \A i \in 1..Len(F) : FALSE
        BY <2>1
    <2>3. \A z \in 1..d.size : FALSE
        BY <1>6
    <2> QED BY <1>4, <1>6, <2>1, <2>2, <2>3 DEF FreeList
<1>12. Known(d, T) /\ Alive(d, T, 0)
    BY <1>1 DEF Known, Alive
<1>13. Holds(d, T, L, mp)
    <2>1. mp \in [Keys -> Values \cup {0}] /\ \A k \in Keys : mp[k] = 0
        OBVIOUS
    <2> QED BY <1>1, <2>1 DEF Holds
<1>14. State(d, T, L, D, F, mp, 0)
    BY <1>10, <1>11, <1>12, <1>13 DEF State
<1> QED
    BY <1>14

LEMMA InitInv == Init => Inv
<1> SUFFICES ASSUME Init PROVE Inv
    OBVIOUS
<1>1. \E T, L, D, F : State(db, T, L, D, F, m, 0)
    BY EmptyTree DEF Init
<1>2. PICK T, L, D, F : State(db, T, L, D, F, m, 0)
    BY <1>1
<1>3. Typed(db) /\ db.size < db.cap /\ m \in [Keys -> Values \cup {0}]
    BY <1>2 DEF State, Tree, Holds
<1>4. calls \in 0..MaxCalls /\ damaged \in BOOLEAN
    <2>1. calls = 0 /\ damaged = FALSE
        BY DEF Init
    <2>2. MaxCalls \in Nat
        BY KeysAssumption
    <2>3. calls \in 0..MaxCalls
        BY <2>1, <2>2
    <2>4. damaged \in BOOLEAN
        BY <2>1
    <2> QED BY <2>3, <2>4
<1>5. TypeOK
    BY <1>3, <1>4, TypedOK DEF TypeOK, Numbers, Node
<1> QED
    BY <1>1, <1>5 DEF Inv

LEMMA PutInv ==
    ASSUME Inv, NEW k \in Keys, NEW v \in Values, Put(k, v)
    PROVE  Inv'
<1>1. /\ ~ damaged /\ calls < MaxCalls /\ calls' = calls + 1
      /\ db' = TstPut(db, k, v) /\ m' = [m EXCEPT ![k] = v] /\ damaged' = damaged
    BY DEF Put, Called
<1>2. PICK T, L, D, F : State(db, T, L, D, F, m, 0)
    BY <1>1 DEF Inv
<1>3. k \in Key
    BY KeyIs
<1>4. PICK T2, L2, D2, F2 : State(TstPut(db, k, v), T2, L2, D2, F2, [m EXCEPT ![k] = v], 0)
    BY <1>2, <1>3, PutIs
<1>5. State(db', T2, L2, D2, F2, m', 0)
    BY <1>1, <1>4
<1>6. Typed(db') /\ db'.size < db'.cap /\ m' \in [Keys -> Values \cup {0}]
    BY <1>5 DEF State, Tree, Holds
<1>7. calls' \in 0..MaxCalls /\ damaged' \in BOOLEAN
    <2>1. calls \in 0..MaxCalls /\ MaxCalls \in Nat /\ damaged \in BOOLEAN
        BY KeysAssumption DEF Inv, TypeOK
    <2> QED BY <1>1, <2>1
<1>8. db' \in [root : 0..db'.size, size : Nat, cap : Nat, fhead : 0..db'.size,
               node : [0..db'.size -> [c : Int, link : [Ways -> 0..db'.size], parent : 0..db'.size,
                                       value : Values \cup {0}]]]
    BY <1>6, TypedOK
<1>9. TypeOK'
    BY <1>6, <1>7, <1>8 DEF TypeOK, Numbers, Node
<1> QED
    BY <1>5, <1>9 DEF Inv

LEMMA DeleteInv ==
    ASSUME Inv, NEW k \in Keys, Delete(k)
    PROVE  Inv'
<1>1. /\ ~ damaged /\ calls < MaxCalls /\ calls' = calls + 1
      /\ db' = TstDelete(db, k) /\ m' = [m EXCEPT ![k] = 0] /\ damaged' = ClimbsAstray(db, k)
    BY DEF Delete, Called
<1>2. PICK T, L, D, F : State(db, T, L, D, F, m, 0)
    BY <1>1 DEF Inv
<1>3. k \in Key
    BY KeyIs
<1>4. Tree(db, T, L, D) /\ m \in [Keys -> Values \cup {0}]
    BY <1>2 DEF State, Holds
<1>5. Typed(db') /\ db'.size < db'.cap
    <2>1. Typed(TstDelete(db, k)) /\ TstDelete(db, k).size < TstDelete(db, k).cap
        BY <1>3, <1>4, DeleteTyped
    <2> QED BY <1>1, <2>1
<1>6. m' \in [Keys -> Values \cup {0}]
    BY <1>1, <1>4
<1>7. calls' \in 0..MaxCalls /\ damaged' \in BOOLEAN
    <2>1. calls \in 0..MaxCalls /\ MaxCalls \in Nat
        BY KeysAssumption DEF Inv, TypeOK
    <2>2. ClimbsAstray(db, k) \in BOOLEAN
        BY DEF ClimbsAstray
    <2> QED BY <1>1, <2>1, <2>2
<1>8. db' \in [root : 0..db'.size, size : Nat, cap : Nat, fhead : 0..db'.size,
               node : [0..db'.size -> [c : Int, link : [Ways -> 0..db'.size], parent : 0..db'.size,
                                       value : Values \cup {0}]]]
    BY <1>5, TypedOK
<1>9. TypeOK'
    BY <1>5, <1>6, <1>7, <1>8 DEF TypeOK, Numbers, Node
<1>10. ~ damaged' => \E T2, L2, D2, F2 : State(db', T2, L2, D2, F2, m', 0)
    <2>1. SUFFICES ASSUME ~ ClimbsAstray(db, k)
                   PROVE  \E T2, L2, D2, F2 : State(db', T2, L2, D2, F2, m', 0)
        BY <1>1
    <2>2. PICK T2, L2, D2, F2 : State(TstDelete(db, k), T2, L2, D2, F2, [m EXCEPT ![k] = 0], 0)
        BY <1>2, <1>3, <2>1, DeleteIs
    <2> QED BY <1>1, <2>2
<1> QED
    BY <1>9, <1>10 DEF Inv

LEMMA NextInv == Inv /\ [Next]_vars => Inv'
<1> SUFFICES ASSUME Inv, [Next]_vars PROVE Inv'
    OBVIOUS
<1>1. ASSUME NEW k \in Keys, NEW v \in Values, Put(k, v) PROVE Inv'
    BY <1>1, PutInv
<1>2. ASSUME NEW k \in Keys, Delete(k) PROVE Inv'
    BY <1>2, DeleteInv
<1>3. CASE UNCHANGED vars
    <2>1. db' = db /\ m' = m /\ calls' = calls /\ damaged' = damaged
        BY <1>3 DEF vars
    <2>2. TypeOK'
        BY <2>1 DEF Inv, TypeOK, Numbers, Node
    <2> QED BY <2>1, <2>2 DEF Inv
<1>4. Rest => UNCHANGED vars
    BY DEF Rest
<1> QED
    BY <1>1, <1>2, <1>3, <1>4 DEF Next

\* In every behavior the invariant above holds, from which all the others follow.
THEOREM InvHolds == Spec => []Inv
<1>1. Init => Inv
    BY InitInv
<1>2. Inv /\ [Next]_vars => Inv'
    BY NextInv
<1> QED
    BY <1>1, <1>2, PTL DEF Spec

\* The numbers in the array stay in it, and it has room for every node that was
\* handed out (ensure_enough_space), also when a deletion has gone astray.
THEOREM TypeCorrect == Spec => []TypeOK
<1>1. Inv => TypeOK
    BY DEF Inv
<1> QED
    BY <1>1, InvHolds, PTL

LEMMA InvLookup == Inv => LookupExact
<1> SUFFICES ASSUME Inv, ~ damaged, NEW k \in Keys \cup Probes
             PROVE  TstGet(db, k) = IF k \in Keys THEN m[k] ELSE 0
    BY DEF LookupExact
<1>1. PICK T, L, D, F : State(db, T, L, D, F, m, 0)
    BY DEF Inv
<1>2. Tree(db, T, L, D) /\ Holds(db, T, L, m) /\ db.node[0] = Blank /\ 0 \notin T
    BY <1>1 DEF State, Tree, Shape
<1>3. k \in Key
    BY KeyIs
<1>4. /\ Find(db, k) # 0 => Find(db, k) \in T /\ L[Find(db, k)] = k
      /\ \A y \in T : L[y] = k => Find(db, k) = y
    BY <1>2, <1>3, FindIs
<1>5. TstGet(db, k) = db.node[Find(db, k)].value
    BY DEF TstGet
<1>6. CASE Find(db, k) # 0
    BY <1>2, <1>4, <1>5, <1>6 DEF Holds
<1>7. CASE Find(db, k) = 0
    <2>1. TstGet(db, k) = 0
        BY <1>2, <1>5, <1>7, BlankIs
    <2>2. k \in Keys => m[k] = 0
        <3>1. ASSUME k \in Keys, m[k] # 0 PROVE FALSE
            <4>1. PICK y \in T : L[y] = k
                BY <1>2, <3>1 DEF Holds
            <4> QED BY <1>2, <1>4, <1>7, <4>1
        <3> QED BY <3>1
    <2> QED BY <2>1, <2>2
<1> QED
    BY <1>6, <1>7

\* A lookup (tst_get) finds what the calls so far put under the key, and nothing
\* for a key that was deleted or never stored, as long as no deletion has gone
\* astray.
THEOREM LookupExactHolds == Spec => []LookupExact
<1>1. Inv => LookupExact
    BY InvLookup
<1> QED
    BY <1>1, InvHolds, PTL

-----------------------------------------------------------------------------
(* The nodes that can be reached, and those on the free list.              *)

Onto(d, ways, S) == S \cup ({d.node[y].link[way] : y \in S, way \in ways} \ {0})

Closed(d, ways, C) ==
    \A y \in C, way \in ways : d.node[y].link[way] # 0 => d.node[y].link[way] \in C

Within1(d) == 1..d.size

Closure(d, ways) ==
    [S \in SUBSET Within1(d) |->
       {y \in Within1(d) : \A C \in SUBSET Within1(d) : Closed(d, ways, C) /\ S \subseteq C => y \in C}]

LEMMA OntoIs ==
    ASSUME NEW d, Typed(d), NEW ways \in SUBSET Ways, NEW S \in SUBSET Within1(d)
    PROVE  /\ Onto(d, ways, S) \in SUBSET Within1(d) /\ S \subseteq Onto(d, ways, S)
           /\ Onto(d, ways, S) = S <=> Closed(d, ways, S)
           /\ \A C \in SUBSET Within1(d) : Closed(d, ways, C) =>
                 (S \subseteq C <=> Onto(d, ways, S) \subseteq C)
<1>1. ASSUME NEW y \in S, NEW way \in ways PROVE d.node[y].link[way] \in 0..d.size
    <2>1. y \in 0..d.size /\ way \in Ways
        BY TypedIs DEF Within1
    <2> QED BY <2>1, TypedIs
<1>2. \A u : u \in Onto(d, ways, S) <=>
         u \in S \/ (u # 0 /\ \E y \in S, way \in ways : u = d.node[y].link[way])
    BY DEF Onto
<1>3. Onto(d, ways, S) \in SUBSET Within1(d)
    <2>1. d.size \in Nat
        BY TypedIs
    <2>2. ASSUME NEW u \in Onto(d, ways, S) PROVE u \in 1..d.size
        <3>1. CASE u \in S
            BY <3>1 DEF Within1
        <3>2. CASE u \notin S
            <4>1. PICK y \in S, way \in ways : u # 0 /\ u = d.node[y].link[way]
                BY <1>2, <3>2
            <4>2. u \in 0..d.size /\ u # 0
                BY <1>1, <4>1
            <4> QED BY <2>1, <4>2
        <3> QED BY <3>1, <3>2
    <2> QED BY <2>2 DEF Within1
<1>4. S \subseteq Onto(d, ways, S)
    BY <1>2
<1>5. Onto(d, ways, S) = S <=> Closed(d, ways, S)
    <2>1. ASSUME Onto(d, ways, S) = S PROVE Closed(d, ways, S)
        BY <1>2, <2>1 DEF Closed
    <2>2. ASSUME Closed(d, ways, S) PROVE Onto(d, ways, S) = S
        <3>1. \A u : u \in Onto(d, ways, S) => u \in S
            BY <1>2, <2>2 DEF Closed
        <3> QED BY <1>4, <3>1
    <2> QED BY <2>1, <2>2
<1>6. ASSUME NEW C \in SUBSET Within1(d), Closed(d, ways, C)
      PROVE  S \subseteq C <=> Onto(d, ways, S) \subseteq C
    <2>1. ASSUME S \subseteq C PROVE Onto(d, ways, S) \subseteq C
        <3>1. \A u : u \in Onto(d, ways, S) => u \in C
            BY <1>2, <1>6, <2>1 DEF Closed
        <3> QED BY <3>1
    <2> QED BY <1>4, <2>1
<1> QED
    BY <1>3, <1>4, <1>5, <1>6

LEMMA ClosureIs ==
    ASSUME NEW d, Typed(d), NEW ways \in SUBSET Ways, NEW S \in SUBSET Within1(d)
    PROVE  /\ Closure(d, ways)[S] = IF Onto(d, ways, S) = S THEN S
                                    ELSE Closure(d, ways)[Onto(d, ways, S)]
           /\ Closure(d, ways)[S] \in SUBSET Within1(d)
           /\ S \subseteq Closure(d, ways)[S]
           /\ Closed(d, ways, Closure(d, ways)[S])
           /\ \A C \in SUBSET Within1(d) : Closed(d, ways, C) /\ S \subseteq C =>
                 Closure(d, ways)[S] \subseteq C
<1>1. PICK R : R = Onto(d, ways, S)
    OBVIOUS
<1>2. /\ R \in SUBSET Within1(d) /\ S \subseteq R
      /\ R = S <=> Closed(d, ways, S)
      /\ \A C \in SUBSET Within1(d) : Closed(d, ways, C) => (S \subseteq C <=> R \subseteq C)
    BY <1>1, OntoIs
<1>3. PICK f : f = Closure(d, ways)
    OBVIOUS
<1>4. \A Q \in SUBSET Within1(d) :
         f[Q] = {y \in Within1(d) : \A C \in SUBSET Within1(d) :
                                       Closed(d, ways, C) /\ Q \subseteq C => y \in C}
    BY <1>3 DEF Closure
<1>5. f[S] = IF R = S THEN S ELSE f[R]
    <2>1. CASE R = S
        <3>1. Closed(d, ways, S)
            BY <1>2, <2>1
        <3>2. f[S] = S
            BY <1>4, <3>1
        <3> QED BY <2>1, <3>2
    <2>2. CASE R # S
        <3>1. f[S] = f[R]
            BY <1>2, <1>4
        <3> QED BY <2>2, <3>1
    <2> QED BY <2>1, <2>2
<1>6. f[S] \in SUBSET Within1(d) /\ S \subseteq f[S]
    BY <1>4
<1>7. \A C \in SUBSET Within1(d) : Closed(d, ways, C) /\ S \subseteq C => f[S] \subseteq C
    BY <1>4
<1>8. Closed(d, ways, f[S])
    <2>1. SUFFICES ASSUME NEW y \in f[S], NEW way \in ways, d.node[y].link[way] # 0
                   PROVE  d.node[y].link[way] \in f[S]
        BY DEF Closed
    <2>2. d.node[y].link[way] \in Within1(d)
        <3>1. d.size \in Nat
            BY TypedIs
        <3>2. y \in 0..d.size /\ way \in Ways
            BY <1>6, <3>1 DEF Within1
        <3>3. d.node[y].link[way] \in 0..d.size
            BY <3>2, TypedIs
        <3> QED BY <2>1, <3>1, <3>3 DEF Within1
    <2>3. ASSUME NEW C \in SUBSET Within1(d), Closed(d, ways, C), S \subseteq C
          PROVE  d.node[y].link[way] \in C
        <3>1. y \in C
            BY <1>7, <2>3
        <3> QED BY <2>1, <2>3, <3>1 DEF Closed
    <2> QED BY <1>4, <2>2, <2>3
<1> QED
    BY <1>1, <1>3, <1>5, <1>6, <1>7, <1>8

\* The recursion that TstIndex follows links with computes the closure.
LEMMA ClosureRuns ==
    ASSUME NEW d, Typed(d), NEW ways \in SUBSET Ways, NEW g,
           \A S \in SUBSET Within1(d) :
              g[S] = IF Onto(d, ways, S) = S THEN S ELSE g[Onto(d, ways, S)]
    PROVE  \A S \in SUBSET Within1(d) : g[S] = Closure(d, ways)[S]
<1>1. PICK X : X = Within1(d)
    OBVIOUS
<1>2. IsFiniteSet(X) /\ Cardinality(X) \in Nat
    <2>1. d.size \in Nat
        BY TypedIs
    <2>2. IsFiniteSet(1..d.size)
        BY <2>1, FS_Interval
    <2>3. IsFiniteSet(X)
        BY <1>1, <2>2 DEF Within1
    <2> QED BY <2>3, FS_CardinalityType
<1>3. PICK f : f = Closure(d, ways)
    OBVIOUS
<1>4. \A S \in SUBSET X : f[S] = IF Onto(d, ways, S) = S THEN S ELSE f[Onto(d, ways, S)]
    BY <1>1, <1>3, ClosureIs
<1>5. \A S \in SUBSET X : Onto(d, ways, S) \in SUBSET X /\ S \subseteq Onto(d, ways, S)
    BY <1>1, OntoIs
<1>6. \A S \in SUBSET X : IsFiniteSet(X \ S) /\ Cardinality(X \ S) \in Nat
    <2>1. SUFFICES ASSUME NEW S \in SUBSET X PROVE IsFiniteSet(X \ S) /\ Cardinality(X \ S) \in Nat
        OBVIOUS
    <2>2. X \ S \in SUBSET X
        OBVIOUS
    <2>3. IsFiniteSet(X \ S)
        BY <1>2, <2>2, FS_Subset
    <2> QED BY <2>3, FS_CardinalityType
<1> DEFINE U == {n \in Nat : \A S \in SUBSET X : Cardinality(X \ S) <= n => g[S] = f[S]}
<1>7. ASSUME NEW S \in SUBSET X, NEW n \in Nat, Cardinality(X \ S) <= n,
             \A Q \in SUBSET X : Cardinality(X \ Q) < n => g[Q] = f[Q]
      PROVE  g[S] = f[S]
    <2>1. PICK R : R = Onto(d, ways, S)
        OBVIOUS
    <2>2. R \in SUBSET X /\ S \subseteq R
        BY <1>5, <2>1
    <2>3. g[S] = (IF R = S THEN S ELSE g[R]) /\ f[S] = IF R = S THEN S ELSE f[R]
        BY <1>1, <1>4, <2>1
    <2>4. CASE R = S
        BY <2>3, <2>4
    <2>5. CASE R # S
        <3>1. X \ R \in SUBSET (X \ S) /\ X \ S # X \ R
            BY <2>2, <2>5
        <3>2. /\ Cardinality(X \ R) <= Cardinality(X \ S)
              /\ Cardinality(X \ S) = Cardinality(X \ R) => X \ S = X \ R
            BY <1>6, <3>1, FS_Subset
        <3>3. Cardinality(X \ R) \in Nat /\ Cardinality(X \ S) \in Nat
            BY <1>6, <2>2
        <3>4. Cardinality(X \ R) < n
            BY <1>7, <3>1, <3>2, <3>3
        <3>5. g[R] = f[R]
            BY <1>7, <2>2, <3>4
        <3> QED BY <2>3, <2>5, <3>5
    <2> QED BY <2>4, <2>5
<1>8. 0 \in U
    <2>1. SUFFICES ASSUME NEW S \in SUBSET X, Cardinality(X \ S) <= 0 PROVE g[S] = f[S]
        OBVIOUS
    <2>2. \A Q \in SUBSET X : ~ (Cardinality(X \ Q) < 0)
        BY <1>6
    <2> QED BY <1>7, <2>1, <2>2
<1>9. ASSUME NEW n \in Nat, n \in U PROVE n + 1 \in U
    <2>1. SUFFICES ASSUME NEW S \in SUBSET X, Cardinality(X \ S) <= n + 1 PROVE g[S] = f[S]
        OBVIOUS
    <2>2. \A Q \in SUBSET X : Cardinality(X \ Q) < n + 1 => g[Q] = f[Q]
        <3>1. SUFFICES ASSUME NEW Q \in SUBSET X, Cardinality(X \ Q) < n + 1 PROVE g[Q] = f[Q]
            OBVIOUS
        <3>2. Cardinality(X \ Q) \in Nat
            BY <1>6
        <3>3. Cardinality(X \ Q) <= n
            BY <3>1, <3>2
        <3> QED BY <1>9, <3>3
    <2>3. n + 1 \in Nat
        OBVIOUS
    <2> QED BY <1>7, <2>1, <2>2, <2>3
<1>10. \A n \in Nat : n \in U
    <2> HIDE DEF U
    <2> QED BY <1>8, <1>9, Induction
<1>11. \A S \in SUBSET X : g[S] = f[S]
    <2>1. SUFFICES ASSUME NEW S \in SUBSET X PROVE g[S] = f[S]
        OBVIOUS
    <2>2. Cardinality(X \ S) \in Nat
        BY <1>6
    <2>3. Cardinality(X \ S) \in U
        <3> HIDE DEF U
        <3> QED BY <1>10, <2>2
    <2>4. Cardinality(X \ S) <= Cardinality(X \ S)
        BY <2>2
    <2> QED BY <2>3, <2>4
<1> QED
    BY <1>1, <1>3, <1>11

LEMMA ReachedIs ==
    ASSUME Typed(db), NEW ways \in SUBSET Ways, NEW x \in 1..db.size
    PROVE  /\ Reached(x, ways) \in SUBSET (1..db.size) /\ x \in Reached(x, ways)
           /\ Closed(db, ways, Reached(x, ways))
           /\ \A C \in SUBSET (1..db.size) : Closed(db, ways, C) /\ x \in C => Reached(x, ways) \subseteq C
<1> DEFINE Is(f) == f = [S \in SUBSET (1..db.size) |->
                           IF Onto(db, ways, S) = S THEN S ELSE f[Onto(db, ways, S)]]
<1>1. \E f : Is(f)
    <2>1. PICK f : f = Closure(db, ways)
        OBVIOUS
    <2>2. \A S \in SUBSET (1..db.size) :
             f[S] = IF Onto(db, ways, S) = S THEN S ELSE f[Onto(db, ways, S)]
        BY <2>1, ClosureIs DEF Within1
    <2>3. f = [S \in SUBSET (1..db.size) |-> f[S]]
        BY <2>1 DEF Closure, Within1
    <2>4. f = [S \in SUBSET (1..db.size) |->
                 IF Onto(db, ways, S) = S THEN S ELSE f[Onto(db, ways, S)]]
        BY <2>2, <2>3
    <2> QED BY <2>4
<1>2. PICK g : g = (CHOOSE f : Is(f))
    OBVIOUS
<1>3. Is(g)
    <2> HIDE DEF Is
    <2> QED BY <1>1, <1>2
<1>4. x # 0
    <2>1. db.size \in Nat
        BY TypedIs
    <2> QED BY <2>1
<1>5. Reached(x, ways) = g[{x}]
    BY <1>2, <1>4 DEF Reached, Onto
<1>6. g = [S \in SUBSET (1..db.size) |->
             IF Onto(db, ways, S) = S THEN S ELSE g[Onto(db, ways, S)]]
    BY <1>3
<1>7. \A S \in SUBSET Within1(db) :
         g[S] = IF Onto(db, ways, S) = S THEN S ELSE g[Onto(db, ways, S)]
    BY <1>6 DEF Within1
<1>8. {x} \in SUBSET Within1(db)
    BY DEF Within1
<1>9. Reached(x, ways) = Closure(db, ways)[{x}]
    <2>1. \A S \in SUBSET Within1(db) : g[S] = Closure(db, ways)[S]
        BY <1>7, ClosureRuns
    <2> QED BY <1>5, <1>8, <2>1
<1>10. /\ Closure(db, ways)[{x}] \in SUBSET Within1(db) /\ {x} \subseteq Closure(db, ways)[{x}]
       /\ Closed(db, ways, Closure(db, ways)[{x}])
       /\ \A C \in SUBSET Within1(db) : Closed(db, ways, C) /\ {x} \subseteq C =>
             Closure(db, ways)[{x}] \subseteq C
    BY <1>8, ClosureIs
<1> QED
    BY <1>9, <1>10 DEF Within1

\* The nodes in the tree are T.
LEMMA InTreeIs ==
    ASSUME NEW T, NEW L, NEW D, Tree(db, T, L, D)
    PROVE  InTree(db.root) = T
<1>1. Typed(db) /\ T \subseteq 1..db.size /\ Shape(db.root, db.node, T, L, D)
    BY DEF Tree
<1>2. db.root \in T \cup {0} /\ D[db.root] = T /\ D[0] = {}
    BY <1>1 DEF Shape
<1>3. CASE db.root = 0
    <2>1. InTree(db.root) = {}
        BY <1>3 DEF InTree, Reached
    <2> QED BY <1>2, <1>3, <2>1
<1>4. CASE db.root # 0
    <2>1. PICK C : C = Reached(db.root, Ways)
        OBVIOUS
    <2>2. db.root \in T /\ db.root \in 1..db.size
        BY <1>1, <1>2, <1>4
    <2>3. /\ C \in SUBSET (1..db.size) /\ db.root \in C /\ Closed(db, Ways, C)
          /\ \A B \in SUBSET (1..db.size) : Closed(db, Ways, B) /\ db.root \in B => C \subseteq B
        BY <1>1, <2>1, <2>2, ReachedIs
    <2>4. Closed(db, Ways, T)
        <3>1. \A y \in T, way \in Ways : db.node[y].link[way] \in T \cup {0}
            BY <1>1, LinkIs
        <3> QED BY <3>1 DEF Closed
    <2>5. C \subseteq T
        BY <1>1, <2>2, <2>3, <2>4
    <2>6. T \subseteq C
        <3> DEFINE P == {x \in T : x \in C => D[x] \subseteq C}
        <3>1. ASSUME NEW x \in T,
                     \A way \in Ways : db.node[x].link[way] # 0 => db.node[x].link[way] \in P
              PROVE  x \in P
            <4>1. SUFFICES ASSUME x \in C, NEW y \in D[x] PROVE y \in C
                OBVIOUS
            <4>2. y \in T
                BY <1>1, NodeIs
            <4>3. CASE y = x
                BY <4>1, <4>3
            <4>4. CASE y # x
                <5>1. PICK way \in Ways : y \in D[db.node[x].link[way]]
                    BY <1>1, <4>2, <4>4, NodeIs
                <5>2. db.node[x].link[way] # 0
                    BY <1>2, <5>1
                <5>3. db.node[x].link[way] \in C
                    BY <2>3, <4>1, <5>2 DEF Closed
                <5> QED BY <3>1, <5>1, <5>2, <5>3
            <4> QED BY <4>3, <4>4
        <3>2. T \subseteq P
            <4> HIDE DEF P
            <4>1. PICK Q : Q = P
                OBVIOUS
            <4>2. PICK N : N = db.node
                OBVIOUS
            <4>3. \A x \in T : (\A way \in Ways : N[x].link[way] # 0 => N[x].link[way] \in Q)
                                => x \in Q
                BY <3>1, <4>1, <4>2
            <4>4. Shape(db.root, N, T, L, D)
                BY <1>1, <4>2
            <4>5. T \subseteq Q
                BY <4>3, <4>4, Downward
            <4> QED BY <4>1, <4>5
        <3> QED BY <1>2, <2>2, <2>3, <3>2
    <2>7. InTree(db.root) = C
        BY <2>1 DEF InTree
    <2> QED BY <2>5, <2>6, <2>7
<1> QED
    BY <1>3, <1>4

\* The nodes of a level are below its first one and have labels as long.
LEMMA LevelIs ==
    ASSUME NEW T, NEW L, NEW D, Tree(db, T, L, D), NEW x \in T \cup {0}
    PROVE  \A y \in Level(x) : x # 0 /\ y \in D[x] /\ Len(L[y]) = Len(L[x])
<1>1. Typed(db) /\ T \subseteq 1..db.size /\ Shape(db.root, db.node, T, L, D)
    BY DEF Tree
<1>2. CASE x = 0
    BY <1>2 DEF Level, Reached
<1>3. CASE x # 0
    <2>1. PICK ways : ways = {"left", "right"}
        OBVIOUS
    <2>2. ways \in SUBSET Ways /\ \A way \in ways : way # "mid"
        BY <2>1 DEF Ways
    <2>3. PICK C : C = {y \in D[x] : Len(L[y]) = Len(L[x])}
        OBVIOUS
    <2>4. x \in T /\ x \in D[x] /\ D[x] \subseteq T /\ x \in 1..db.size
        BY <1>1, <1>3, NodeIs
    <2>5. C \in SUBSET (1..db.size) /\ x \in C
        BY <1>1, <2>3, <2>4
    <2>6. Closed(db, ways, C)
        <3>1. SUFFICES ASSUME NEW y \in C, NEW way \in ways, db.node[y].link[way] # 0
                       PROVE  db.node[y].link[way] \in C
            BY DEF Closed
        <3>2. y \in D[x] /\ y \in T /\ Len(L[y]) = Len(L[x]) /\ way \in Ways /\ way # "mid"
            BY <2>2, <2>3, <2>4
        <3>3. /\ db.node[y].link[way] \in T \cup {0}
              /\ D[db.node[y].link[way]] \subseteq D[y]
              /\ Len(L[db.node[y].link[way]]) = Len(L[y])
            BY <1>1, <3>1, <3>2, LinkIs
        <3>4. D[y] \subseteq D[x]
            BY <1>1, <2>4, <3>2, Within
        <3>5. db.node[y].link[way] \in D[db.node[y].link[way]]
            BY <1>1, <3>1, <3>3, NodeIs
        <3> QED BY <2>3, <3>2, <3>3, <3>4, <3>5
    <2>7. Reached(x, ways) \subseteq C
        BY <1>1, <2>2, <2>4, <2>5, <2>6, ReachedIs
    <2>8. Level(x) \subseteq C
        BY <2>1, <2>7 DEF Level
    <2> QED BY <1>3, <2>3, <2>8
<1> QED
    BY <1>2, <1>3

\* The nodes on the free list are the others.
LEMMA FreedIs ==
    ASSUME NEW T, NEW F, Typed(db), db.node[0] = Blank, FreeList(db, T, F)
    PROVE  \A x : x \in Freed <=> x \in 1..db.size /\ x \notin T
<1>1. /\ F \in Seq(1..db.size) /\ Len(F) \in Nat
      /\ db.fhead = IF F = << >> THEN 0 ELSE F[1]
      /\ \A i \in 1..Len(F) : db.node[F[i]].link["mid"] = IF i = Len(F) THEN 0 ELSE F[i + 1]
      /\ \A i, j \in 1..Len(F) : F[i] = F[j] => i = j
      /\ \A x \in 1..db.size : x \in T <=> \A i \in 1..Len(F) : F[i] # x
    BY DEF FreeList
<1>2. PICK z : z = db.size
    OBVIOUS
<1>3. z \in Nat /\ \A i \in 1..Len(F) : F[i] \in 1..z /\ F[i] # 0
    <2>1. z \in Nat
        BY <1>2, TypedIs
    <2>2. \A i \in 1..Len(F) : F[i] \in 1..db.size /\ F[i] # 0
        BY FreeListHead
    <2> QED BY <1>2, <2>1, <2>2
<1>4. Len(F) <= z
    <2>1. SUFFICES ASSUME z < Len(F) PROVE FALSE
        BY <1>1, <1>3
    <2>2. /\ IsFiniteSet(1..z) /\ Cardinality(1..z) = z
          /\ IsFiniteSet(1..Len(F)) /\ Cardinality(1..Len(F)) = Len(F)
        <3>1. \A n \in Nat : IsFiniteSet(1..n) /\ Cardinality(1..n) = n
            <4>1. SUFFICES ASSUME NEW n \in Nat PROVE IsFiniteSet(1..n) /\ Cardinality(1..n) = n
                OBVIOUS
            <4>2. 1 \in Int /\ n \in Int
                OBVIOUS
            <4>3. IsFiniteSet(1..n) /\ Cardinality(1..n) = IF 1 > n THEN 0 ELSE n - 1 + 1
                BY <4>2, FS_Interval
            <4> QED BY <4>3
        <3>2. z \in Nat /\ Len(F) \in Nat
            BY <1>1, <1>3
        <3> QED BY <3>1, <3>2
    <2>3. F \in [1..Len(F) -> 1..z]
        <3>1. F \in Seq(1..z)
            BY <1>1, <1>2
        <3> QED BY <3>1, LenProperties
    <2>4. \E x, y \in 1..Len(F) : x # y /\ F[x] = F[y]
        <3>1. Cardinality(1..z) < Cardinality(1..Len(F))
            BY <2>1, <2>2
        <3> QED BY <2>2, <2>3, <3>1, FS_PigeonHole
    <2> QED BY <1>1, <2>4
<1>5. db.node[0].link["mid"] = 0
    BY BlankIs DEF Ways
<1> DEFINE Is(f) == f = [n \in 1..z |-> IF n = 1 THEN db.fhead
                                        ELSE db.node[f[n - 1]].link["mid"]]
           Next1(n) == IF n <= Len(F) THEN F[n] ELSE 0
<1>6. ASSUME NEW n \in 1..z
      PROVE  Next1(n) = IF n = 1 THEN db.fhead ELSE db.node[Next1(n - 1)].link["mid"]
    <2>1. CASE n = 1
        <3>1. F = << >> <=> ~ (1 <= Len(F))
            BY <1>1
        <3> QED BY <1>1, <2>1, <3>1
    <2>2. CASE n # 1
        <3>1. PICK h : h = n - 1
            OBVIOUS
        <3>2. h \in 1..z /\ n = h + 1 /\ h \in Nat \ {0}
            BY <1>3, <2>2, <3>1
        <3>3. CASE h <= Len(F)
            <4>1. h \in 1..Len(F)
                BY <1>1, <3>2, <3>3
            <4>2. db.node[F[h]].link["mid"] = IF h = Len(F) THEN 0 ELSE F[h + 1]
                BY <1>1, <4>1
            <4>3. n <= Len(F) <=> h # Len(F)
                BY <1>1, <3>2, <4>1
            <4> QED BY <2>2, <3>1, <3>2, <3>3, <4>2, <4>3
        <3>4. CASE ~ (h <= Len(F))
            <4>1. ~ (n <= Len(F))
                BY <1>1, <3>2, <3>4
            <4> QED BY <1>5, <2>2, <3>1, <3>4, <4>1
        <3> QED BY <3>3, <3>4
    <2> QED BY <2>1, <2>2
<1>7. \E f : Is(f)
    <2>1. PICK f : f = [n \in 1..z |-> Next1(n)]
        OBVIOUS
    <2>2. \A n \in 1..z : f[n] = Next1(n)
        <3> HIDE DEF Next1
        <3> QED BY <2>1
    <2>3. ASSUME NEW n \in 1..z
          PROVE  f[n] = IF n = 1 THEN db.fhead ELSE db.node[f[n - 1]].link["mid"]
        <3> HIDE DEF Next1
        <3>1. n # 1 => n - 1 \in 1..z
            BY <1>3
        <3>2. f[n] = Next1(n) /\ (n # 1 => f[n - 1] = Next1(n - 1))
            BY <2>2, <3>1
        <3> QED BY <1>6, <3>2
    <2>4. f = [n \in 1..z |-> f[n]]
        <3> HIDE DEF Next1
        <3> QED BY <2>1
    <2>5. f = [n \in 1..z |-> IF n = 1 THEN db.fhead ELSE db.node[f[n - 1]].link["mid"]]
        BY <2>3, <2>4
    <2> QED BY <2>5
<1>8. PICK g : g = (CHOOSE f : Is(f))
    OBVIOUS
<1>9. Is(g)
    <2> HIDE DEF Is
    <2> QED BY <1>7, <1>8
<1>10. Freed = {g[n] : n \in 1..z} \ {0}
    BY <1>2, <1>8 DEF Freed
<1>11. \A n \in 1..z : g[n] = IF n = 1 THEN db.fhead ELSE db.node[g[n - 1]].link["mid"]
    BY <1>9
<1> DEFINE U == {n \in Nat : n + 1 \in 1..z => g[n + 1] = Next1(n + 1)}
<1> HIDE DEF Is
<1>12. 0 \in U
    <2> HIDE DEF Next1
    <2>1. SUFFICES ASSUME 0 + 1 \in 1..z PROVE g[0 + 1] = Next1(0 + 1)
        OBVIOUS
    <2>2. 0 + 1 = 1 /\ 1 \in 1..z
        BY <2>1
    <2>3. g[1] = db.fhead /\ Next1(1) = db.fhead
        BY <1>6, <1>11, <2>2
    <2> QED BY <2>2, <2>3
<1>13. ASSUME NEW n \in Nat, n \in U PROVE n + 1 \in U
    <2> HIDE DEF Next1
    <2>1. SUFFICES ASSUME (n + 1) + 1 \in 1..z PROVE g[(n + 1) + 1] = Next1((n + 1) + 1)
        OBVIOUS
    <2>2. PICK h : h = n + 1
        OBVIOUS
    <2>3. h \in 1..z /\ h + 1 \in 1..z /\ h + 1 # 1 /\ (h + 1) - 1 = h
        BY <1>3, <2>1, <2>2
    <2>4. g[h] = Next1(h)
        BY <1>13, <2>2, <2>3
    <2>5. g[h + 1] = db.node[g[h]].link["mid"] /\ Next1(h + 1) = db.node[Next1(h)].link["mid"]
        BY <1>6, <1>11, <2>3
    <2> QED BY <2>2, <2>4, <2>5
<1>14. \A n \in Nat : n \in U
    <2> HIDE DEF U
    <2> QED BY <1>12, <1>13, Induction
<1>15. ASSUME NEW n \in 1..z PROVE g[n] = Next1(n)
    <2> HIDE DEF Next1
    <2>1. PICK h : h = n - 1
        OBVIOUS
    <2>2. h \in Nat /\ h + 1 = n
        BY <1>3, <2>1
    <2> QED BY <1>14, <2>2
<1>16. ASSUME NEW x, x \in Freed PROVE x \in 1..db.size /\ x \notin T
    <2>1. PICK n \in 1..z : x = g[n] /\ x # 0
        BY <1>10, <1>16
    <2>2. n \in 1..Len(F) /\ x = F[n]
        BY <1>1, <1>3, <1>15, <2>1
    <2>3. x \in 1..db.size
        BY <1>2, <1>3, <2>2
    <2> QED BY <1>1, <2>2, <2>3
<1>17. ASSUME NEW x \in 1..db.size, x \notin T PROVE x \in Freed
    <2>1. PICK n \in 1..Len(F) : F[n] = x
        BY <1>1, <1>17
    <2>2. n \in 1..z /\ n <= Len(F)
        BY <1>1, <1>3, <1>4
    <2>3. g[n] = x /\ x # 0
        BY <1>3, <1>15, <2>1, <2>2
    <2> QED BY <1>10, <2>2, <2>3
<1> QED
    BY <1>16, <1>17

-----------------------------------------------------------------------------
(* The array is a tree and loses no nodes.                                 *)

LEMMA InvAccounted == Inv => NodesAccounted
<1> SUFFICES ASSUME Inv, ~ damaged
             PROVE  /\ InTree(db.root) \cap Freed = {}
                    /\ InTree(db.root) \cup Freed = 1..db.size
    BY DEF NodesAccounted
<1>1. PICK T, L, D, F : State(db, T, L, D, F, m, 0)
    BY DEF Inv
<1>2. /\ Tree(db, T, L, D) /\ FreeList(db, T, F)
      /\ Typed(db) /\ db.node[0] = Blank /\ T \subseteq 1..db.size
    BY <1>1 DEF State, Tree
<1>3. InTree(db.root) = T
    BY <1>2, InTreeIs
<1>4. \A x : x \in Freed <=> x \in 1..db.size /\ x \notin T
    BY <1>2, FreedIs
<1> QED
    BY <1>2, <1>3, <1>4

\* There is one way to each node but the root.
LEMMA OneWay ==
    ASSUME NEW root, NEW N, NEW T, NEW L, NEW D, Shape(root, N, T, L, D), NEW x \in T
    PROVE  Cardinality({w \in T \X Ways : N[w[1]].link[w[2]] = x}) = IF x = root THEN 0 ELSE 1
<1>1. PICK W : W = {w \in T \X Ways : N[w[1]].link[w[2]] = x}
    OBVIOUS
<1>2. root \in T \cup {0} /\ D[root] = T /\ x \in Nat \ {0}
    BY DEF Shape
<1>3. \A w \in W : w[1] \in T /\ w[2] \in Ways /\ N[w[1]].link[w[2]] = x /\ w = <<w[1], w[2]>>
    BY <1>1
<1>4. CASE x = root
    <2>1. ASSUME NEW w \in W PROVE FALSE
        <3>1. w[1] \in T /\ w[2] \in Ways /\ N[w[1]].link[w[2]] = x
            BY <1>3
        <3>2. N[w[1]].link[w[2]] # 0 => N[w[1]].link[w[2]] # root
            BY <3>1, RootHasNone
        <3> QED BY <1>2, <1>4, <3>1, <3>2
    <2>2. W = {}
        BY <2>1
    <2> QED BY <1>1, <1>4, <2>2, FS_EmptySet
<1>5. CASE x # root
    <2>1. root \in T /\ x \in D[root]
        <3>1. root # 0
            <4>1. root = 0 => T = {}
                BY <1>2 DEF Shape
            <4> QED BY <4>1
        <3> QED BY <1>2, <3>1
    <2>2. PICK y \in D[root], way \in Ways : y \in T /\ N[y].link[way] = x
        BY <1>5, <2>1, ParentBelow
    <2>3. <<y, way>> \in W
        BY <1>1, <2>2
    <2>4. ASSUME NEW w \in W PROVE w = <<y, way>>
        <3>1. w[1] \in T /\ w[2] \in Ways /\ N[w[1]].link[w[2]] = x /\ w = <<w[1], w[2]>>
            BY <1>3
        <3>2. N[w[1]].link[w[2]] # 0 /\ N[w[1]].link[w[2]] = N[y].link[way]
            BY <1>2, <2>2, <3>1
        <3>3. w[1] = y /\ w[2] = way
            BY <2>2, <3>1, <3>2, OneParent
        <3> QED BY <3>1, <3>3
    <2>5. W = {<<y, way>>}
        BY <2>3, <2>4
    <2>6. Cardinality(W) = 1
        BY <2>5, FS_Singleton
    <2> QED BY <1>1, <1>5, <2>6
<1> QED
    BY <1>4, <1>5

\* The levels on either side of a node are in order.
LEMMA LevelsOrdered ==
    ASSUME NEW T, NEW L, NEW D, Tree(db, T, L, D), NEW x \in T
    PROVE  /\ \A y \in Level(db.node[x].link["left"])  : db.node[y].c < db.node[x].c
           /\ \A y \in Level(db.node[x].link["right"]) : db.node[y].c > db.node[x].c
<1>1. Shape(db.root, db.node, T, L, D) /\ "left" \in Ways /\ "right" \in Ways
    BY DEF Tree, Ways
<1>2. ASSUME NEW way \in {"left", "right"}, NEW y \in Level(db.node[x].link[way])
      PROVE  /\ db.node[y].c \in Int /\ db.node[x].c \in Int
             /\ way = "left" => db.node[y].c < db.node[x].c
             /\ way = "right" => db.node[y].c > db.node[x].c
    <2>1. way \in Ways /\ way # "mid"
        BY <1>1
    <2>2. PICK z : z = db.node[x].link[way]
        OBVIOUS
    <2>3. /\ z \in T \cup {0}
          /\ z # 0 => Len(L[z]) = Len(L[x])
          /\ \A w \in D[z] : Agree(L[w], L[x]) /\ Way(db.node[x], L[w], Len(L[x])) = way
          /\ D[z] \subseteq D[x]
        BY <1>1, <2>1, <2>2, LinkIs
    <2>4. y \in Level(z)
        BY <2>2
    <2>5. z # 0 /\ y \in D[z] /\ Len(L[y]) = Len(L[z])
        BY <2>3, <2>4, LevelIs
    <2>6. y \in T
        BY <1>1, <2>3, <2>5, NodeIs
    <2>7. PICK n : n = Len(L[x])
        OBVIOUS
    <2>8. /\ L[x] \in Key /\ L[y] \in Key /\ Len(L[y]) = n
          /\ db.node[x].c = L[x][n] /\ db.node[y].c = L[y][n]
        <3>1. L[x] \in Key /\ db.node[x].c = L[x][Len(L[x])]
            BY <1>1, NodeIs
        <3>2. L[y] \in Key /\ db.node[y].c = L[y][Len(L[y])]
            BY <1>1, <2>6, NodeIs
        <3>3. Len(L[y]) = Len(L[x])
            BY <2>3, <2>5
        <3> QED BY <2>7, <3>1, <3>2, <3>3
    <2>9. n \in 1..n
        <3>1. Len(L[x]) \in Nat /\ Len(L[x]) # 0
            BY <2>8 DEF Key
        <3> QED BY <2>7, <3>1
    <2>10. L[x][n] \in Int /\ L[y][n] \in Int
        <3>1. n \in 1..Len(L[x]) /\ n \in 1..Len(L[y])
            BY <2>7, <2>8, <2>9
        <3> QED BY <2>8, <3>1 DEF Key
    <2>11. Way(db.node[x], L[y], n) = way
        BY <2>3, <2>5, <2>7
    <2>12. way = "left" => L[y][n] < db.node[x].c
        BY <2>8, <2>10, <2>11 DEF Way
    <2>13. way = "right" => L[y][n] > db.node[x].c
        BY <2>8, <2>10, <2>11 DEF Way
    <2> QED BY <2>8, <2>10, <2>12, <2>13
<1> QED
    BY <1>2

LEMMA InvWellFormed == Inv => WellFormed
<1> SUFFICES ASSUME Inv PROVE WellFormed
    OBVIOUS
<1>1. TypeOK
    BY DEF Inv
<1>2. ASSUME ~ damaged
      PROVE  \A x \in InTree(db.root) :
                LET n == db.node[x] IN
                /\ n.link["mid"] # 0 \/ n.value # 0
                /\ \A y \in Level(n.link["left"])  : db.node[y].c < n.c
                /\ \A y \in Level(n.link["right"]) : db.node[y].c > n.c
                /\ Cardinality({w \in InTree(db.root) \X Ways : db.node[w[1]].link[w[2]] = x})
                     = IF x = db.root THEN 0 ELSE 1
    <2>1. PICK T, L, D, F : State(db, T, L, D, F, m, 0)
        BY <1>2 DEF Inv
    <2>2. Tree(db, T, L, D) /\ Alive(db, T, 0) /\ Shape(db.root, db.node, T, L, D)
        BY <2>1 DEF State, Tree
    <2>3. InTree(db.root) = T
        BY <2>2, InTreeIs
    <2>4. ASSUME NEW x \in T
          PROVE  /\ db.node[x].link["mid"] # 0 \/ db.node[x].value # 0
                 /\ \A y \in Level(db.node[x].link["left"])  : db.node[y].c < db.node[x].c
                 /\ \A y \in Level(db.node[x].link["right"]) : db.node[y].c > db.node[x].c
                 /\ Cardinality({w \in T \X Ways : db.node[w[1]].link[w[2]] = x})
                      = IF x = db.root THEN 0 ELSE 1
        <3>1. x # 0
            BY <2>2, NodeIs
        <3>2. db.node[x].link["mid"] # 0 \/ db.node[x].value # 0
            BY <2>2, <3>1 DEF Alive
        <3>3. Cardinality({w \in T \X Ways : db.node[w[1]].link[w[2]] = x})
                = IF x = db.root THEN 0 ELSE 1
            BY <2>2, OneWay
        <3> QED BY <2>2, <3>2, <3>3, LevelsOrdered
    <2> QED BY <2>3, <2>4
<1>3. TreeShape
    BY <1>2 DEF TreeShape
<1>4. ParentsKnown
    <2>1. SUFFICES ASSUME ~ damaged, NEW x \in InTree(db.root), NEW y \in Links(db.node[x])
                   PROVE  db.node[y].parent = x \/ y = db.node[x].link["right"]
        BY DEF ParentsKnown
    <2>2. PICK T, L, D, F : State(db, T, L, D, F, m, 0)
        BY <2>1 DEF Inv
    <2>3. Tree(db, T, L, D) /\ Known(db, T)
        BY <2>2 DEF State
    <2>4. x \in T
        BY <2>1, <2>3, InTreeIs
    <2>5. PICK way \in Ways : y = db.node[x].link[way] /\ y # 0
        BY <2>1 DEF Links
    <2>6. CASE way = "right"
        BY <2>5, <2>6
    <2>7. CASE way \in {"left", "mid"}
        BY <2>3, <2>4, <2>5, <2>7 DEF Known
    <2> QED BY <2>6, <2>7 DEF Ways
<1> QED
    BY <1>1, <1>3, <1>4 DEF WellFormed

\* Every node that was handed out (new_node) is in the tree or on the free list
\* and never on both, as long as no deletion has gone astray: deletions
\* (remove_node, free_node) neither lose nodes nor free one that is in use.
THEOREM NodesAccountedHolds == Spec => []NodesAccounted
<1>1. Inv => NodesAccounted
    BY InvAccounted
<1> QED
    BY <1>1, InvHolds, PTL

\* The array is a search tree without dead branches, and all nodes but right
\* children know their parents, as long as no deletion has gone astray: what
\* insert, remove_node and the loop of tst_delete have to keep up.
THEOREM WellFormedHolds == Spec => []WellFormed
<1>1. Inv => WellFormed
    BY InvWellFormed
<1> QED
    BY <1>1, InvHolds, PTL

=============================================================================
