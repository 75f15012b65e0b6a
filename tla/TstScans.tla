------------------------------ MODULE TstScans ------------------------------
(***************************************************************************)
(* The scans of tst.c over the tree of TstIndex: less, greater and prefix. *)
(* A scan walks the tree recursively and keeps the path to the node at     *)
(* hand in one buffer.                                                     *)
(***************************************************************************)
EXTENDS TstIndex, SequencesExt

CONSTANT ScanCalls      \* bound: calls after which every scan is still tried

ASSUME ScanCallsAssumption == ScanCalls \in Nat

-----------------------------------------------------------------------------
(* The scans.  r.out is the list of keys found, r.buf is key_buf, which is *)
(* one buffer for the whole scan and holds the path to the node at hand.   *)

Str(buf) ==
    LET end == CHOOSE n \in 0..Len(buf) :
                   /\ n = Len(buf) \/ buf[n + 1] = 0
                   /\ \A i \in 1..n : buf[i] # 0
    IN  SubSeq(buf, 1, end)

Room_OneMore(r, limit) == Len(r.out) <= limit

Room(r, limit) == Len(r.out) < limit

Stamp_Once(r, i, ch) == IF r.buf[i] = 0 THEN [r EXCEPT !.buf[i] = ch] ELSE r

Stamp(r, i, ch) == [r EXCEPT !.buf[i] = ch]

\* append_result: the key is whatever key_buf holds up to the first 0.
Emit(r, limit) ==
    IF Room(r, limit) THEN [r EXCEPT !.out = Append(@, Str(r.buf))] ELSE r

\* A node's own key: terminated behind its character, then appended.
EmitNode(d, x, r, i, limit) ==
    IF d.node[x].value = 0 THEN r ELSE Emit(Stamp(r, i + 1, 0), limit)

\* dfs, at position i of key_buf.  Its tests of the limit amount to adding
\* nothing once it is reached.
RECURSIVE Dfs(_, _, _, _, _, _)
Dfs(d, x, r, i, limit, asc) ==
    IF x = 0 \/ ~Room(r, limit) THEN r
    ELSE LET n      == d.node[x]
             first  == IF asc THEN n.link["left"] ELSE n.link["right"]
             second == IF asc THEN n.link["right"] ELSE n.link["left"]
             r1 == Stamp(Dfs(d, first, r, i, limit, asc), i, n.c)
             r2 == IF asc
                     THEN Stamp(Dfs(d, n.link["mid"], EmitNode(d, x, r1, i, limit),
                                    i + 1, limit, asc), i, n.c)
                     ELSE EmitNode(d, x, Dfs(d, n.link["mid"], r1, i + 1, limit, asc), i, limit)
         IN  Stamp(Dfs(d, second, r2, i, limit, asc), i, n.c)

At(s) == IF s = << >> THEN 0 ELSE s[1]

\* dfs_less: the keys up to s, largest first.  At the end of s it compares
\* the terminating 0 with the node's character.
RECURSIVE DfsLess(_, _, _, _, _, _)
DfsLess(d, x, s, r, i, limit) ==
    IF x = 0 \/ limit <= 0 THEN r
    ELSE LET n  == d.node[x]
             r0 == Stamp(r, i, n.c)
         IN  IF At(s) < n.c
               THEN DfsLess(d, n.link["left"], s, r0, i, limit)
             ELSE IF At(s) = n.c
               THEN LET r1 == DfsLess(d, n.link["mid"], Tail(s), r0, i + 1, limit)
                        r2 == EmitNode(d, x, r1, i, limit)
                    IN  Dfs(d, n.link["left"], r2, i, limit, FALSE)
               ELSE LET r1 == Stamp(DfsLess(d, n.link["right"], s, r0, i, limit), i, n.c)
                        r2 == Dfs(d, n.link["mid"], r1, i + 1, limit, FALSE)
                        r3 == EmitNode(d, x, r2, i, limit)
                    IN  Dfs(d, n.link["left"], r3, i, limit, FALSE)

\* dfs_greater: the keys from s on, smallest first.  It appends the key s
\* itself without terminating key_buf.
RECURSIVE DfsGreater(_, _, _, _, _, _)
DfsGreater(d, x, s, r, i, limit) ==
    IF x = 0 \/ limit <= 0 THEN r
    ELSE LET n  == d.node[x]
             r0 == Stamp(r, i, n.c)
         IN  IF At(s) > n.c
               THEN DfsGreater(d, n.link["right"], s, r0, i, limit)
             ELSE IF At(s) = n.c
               THEN LET r1 == IF Len(s) = 1 /\ n.value # 0 THEN Emit(r0, limit) ELSE r0
                        r2 == IF Room(r1, limit)
                                THEN DfsGreater(d, n.link["mid"], Tail(s), r1, i + 1, limit)
                                ELSE r1
                    IN  Dfs(d, n.link["right"], r2, i, limit, TRUE)
               ELSE LET r1 == Stamp(DfsGreater(d, n.link["left"], s, r0, i, limit), i, n.c)
                        r2 == EmitNode(d, x, r1, i, limit)
                        r3 == Dfs(d, n.link["mid"], r2, i + 1, limit, TRUE)
                    IN  Dfs(d, n.link["right"], r3, i, limit, TRUE)

MaxLen == LET lens == {Len(k) : k \in Keys \cup Probes}
          IN  CHOOSE n \in lens : \A j \in lens : j <= n

NothingFound == [out |-> << >>, buf |-> [i \in 1..MaxLen + 1 |-> 0]]

TstLess(d, s, limit)    == DfsLess(d, d.root, s, NothingFound, 1, limit).out
TstGreater(d, s, limit) == DfsGreater(d, d.root, s, NothingFound, 1, limit).out

\* tst_prefix starts below the node the prefix ends at, with the prefix in
\* key_buf; the prefix itself is a key as well if it has a value.  In
\* descending order it comes last, when dfs has left key_buf in another
\* state.
TstPrefix(d, s, limit, asc) ==
    LET x    == Find(d, s)
        buf  == [i \in 1..MaxLen + 1 |-> IF i <= Len(s) THEN s[i] ELSE 0]
        r0   == [out |-> << >>, buf |-> buf]
        Own(r) == IF d.node[x].value # 0 THEN Emit(r, limit) ELSE r
        Below(r) == Dfs(d, d.node[x].link["mid"], r, Len(s) + 1, limit, asc)
    IN  IF x = 0 THEN << >>
        ELSE IF asc THEN Below(Own(r0)).out
        ELSE Own(Below(r0)).out

-----------------------------------------------------------------------------
(* What a scan should return, by definition.                               *)

Before(s, t) ==
    \/ Len(s) < Len(t) /\ s = SubSeq(t, 1, Len(s))
    \/ \E i \in 1..Len(s) :
           i <= Len(t) /\ s[i] < t[i] /\ \A j \in 1..i - 1 : s[j] = t[j]

Stored == {k \in Keys : m[k] # 0}

Firsts(S, limit, asc) ==
    LET order == SetToSortSeq(S, LAMBDA s, t : IF asc THEN Before(s, t) ELSE Before(t, s))
    IN  SubSeq(order, 1, IF limit < Len(order) THEN limit ELSE Len(order))

Limits == 0..Cardinality(Keys)

Scanned == ~damaged /\ calls <= ScanCalls

\* less returns the stored keys up to the one given, the largest first,
\* greater those from it on, the smallest first, prefix the ones that start
\* with it; each as many as the limit allows.
LessExact ==
    Scanned => \A s \in Probes, n \in Limits :
        TstLess(db, s, n) = Firsts({k \in Stored : k = s \/ Before(k, s)}, n, FALSE)

GreaterExact ==
    Scanned => \A s \in Probes, n \in Limits :
        TstGreater(db, s, n) = Firsts({k \in Stored : k = s \/ Before(s, k)}, n, TRUE)

PrefixExact ==
    Scanned => \A s \in Probes, n \in Limits :
        TstPrefix(db, s, n, TRUE) = Firsts({k \in Stored : IsPrefix(s, k)}, n, TRUE)

\* In descending order prefix is exact as long as the prefix is not itself a
\* key: that one is appended after dfs has overwritten key_buf.
PrefixDescExact ==
    Scanned => \A s \in Probes \ Stored, n \in Limits :
        TstPrefix(db, s, n, FALSE) = Firsts({k \in Stored : IsPrefix(s, k)}, n, FALSE)

\* Every scan in every order.
ScansExact == LessExact /\ GreaterExact /\ PrefixExact /\ PrefixDescExact

=============================================================================
