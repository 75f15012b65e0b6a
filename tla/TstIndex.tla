------------------------------ MODULE TstIndex ------------------------------
(***************************************************************************)
(* The ternary search tree of tst.c: an array of nodes that refer to each  *)
(* other by number, with a list of freed nodes threaded through mid.       *)
(*                                                                         *)
(* A key is a non-empty sequence of characters.  A character is a C char,  *)
(* which is signed in this build, so it is an integer other than 0 and may *)
(* be negative.  The tree is one record, as in tst_db; node[0] is the node *)
(* "not used", which tst_get reads for a key it does not find.             *)
(***************************************************************************)
EXTENDS Integers, Sequences, FiniteSets

CONSTANTS
    Keys,           \* the keys that are stored
    Probes,         \* the keys that lookups are asked about
    Values,         \* the values stored, all positive (data file offsets)
    InitialCap,     \* nodes allocated at the start (409600 in the code)
    MaxCalls        \* bound: calls of tst_put and tst_delete

ASSUME KeysAssumption ==
    /\ \A k \in Keys \cup Probes :
           /\ k \in Seq(Int) \ {<< >>}
           /\ \A i \in 1..Len(k) : k[i] # 0
    /\ Values \subseteq Nat \ {0}
    /\ InitialCap \in Nat \ {0}
    /\ MaxCalls \in Nat

VARIABLES
    db,             \* g_tst
    m,              \* history: the map the calls so far ask for
    calls,          \* calls so far
    damaged         \* history: a deletion has climbed along a parent number
                    \* that was not the node's parent

vars == <<db, m, calls, damaged>>

\* The three links of a node are a function of their names.
Ways == {"left", "mid", "right"}

Blank == [c |-> 0, link |-> [way \in Ways |-> 0], parent |-> 0, value |-> 0]

-----------------------------------------------------------------------------
(* Nodes.                                                                  *)

Links(n) == {n.link[way] : way \in Ways} \ {0}

\* ensure_enough_space: the array is doubled when only one node is left.
IsFull_Late(d) == d.size >= d.cap

IsFull(d) == d.size >= d.cap - 1

\* new_node takes the first freed node, or the next one of the array.
NewNode(d) ==
    IF d.fhead = 0
      THEN LET n == d.size + 1 IN
           [at |-> n,
            db |-> [d EXCEPT !.size = n,
                             !.cap  = IF IsFull(d) THEN 2 * @ ELSE @,
                             !.node = [x \in 0..n |-> IF x = n THEN Blank ELSE @[x]]]]
      ELSE [at |-> d.fhead,
            db |-> [d EXCEPT !.fhead = d.node[d.fhead].link["mid"],
                             !.node[d.fhead] = Blank]]

\* free_node threads a node onto the list; its other links stay.
FreeNode_KeepsHead(d, x) ==
    [d EXCEPT !.node[x].link["mid"] = d.fhead, !.node[x].value = 0]

FreeNode(d, x) ==
    [d EXCEPT !.node[x].link["mid"] = d.fhead, !.node[x].value = 0, !.fhead = x]

-----------------------------------------------------------------------------
(* tst_get.                                                                *)

\* Which way a key goes at a node, by its character i: to one of the links
\* or, with its last character, to the value.
Way_Prefixes(node, s, i) ==
    CASE s[i] < node.c -> "left"
      [] s[i] > node.c -> "right"
      [] s[i] = node.c /\ i < Len(s) - 1 -> "mid"
      [] OTHER -> "value"

Way(node, s, i) ==
    CASE s[i] < node.c -> "left"
      [] s[i] > node.c -> "right"
      [] s[i] = node.c /\ i < Len(s) -> "mid"
      [] OTHER -> "value"

\* Where search is: at a node, looking at a character of the key.
Start(d) == [at |-> d.root, i |-> 1]

Onward(d, s, p) ==
    LET way == Way(d.node[p.at], s, p.i) IN
    [at |-> IF way = "value" THEN 0 ELSE d.node[p.at].link[way],
     i  |-> IF way = "mid" THEN p.i + 1 ELSE p.i]

\* The nodes search visits, from the root.
Visits(d, s) ==
    LET turn[n \in 1..d.size] ==
          IF n = 1 THEN Start(d)
          ELSE LET p == turn[n - 1] IN IF p.at = 0 THEN p ELSE Onward(d, s, p)
    IN  [n \in {j \in 1..d.size : turn[j].at # 0} |-> turn[n]]

\* search: the node a key ends at, 0 if there is none.
Find(d, s) ==
    LET path == Visits(d, s)
        end  == path[Len(path)]
    IN  IF path # << >> /\ Way(d.node[end.at], s, end.i) = "value" THEN end.at ELSE 0

TstGet(d, s) == d.node[Find(d, s)].value

-----------------------------------------------------------------------------
(* tst_put.                                                                *)

\* insert makes a node for the character ch: the root, or x's link that way.
Leaf(d, x, way, ch) ==
    LET new == NewNode(d)
        d1  == [new.db EXCEPT !.node[new.at].c = ch, !.node[new.at].parent = x]
    IN  [at |-> new.at,
         db |-> IF x = 0 THEN [d1 EXCEPT !.root = new.at]
                ELSE [d1 EXCEPT !.node[x].link[way] = new.at]]

\* It makes one for each character from i on, each below the one before.
Grown(d, s, i, x, way) ==
    LET grown[j \in 0..(Len(s) - i + 1)] ==
          IF j = 0 THEN [at |-> x, db |-> d]
          ELSE LET g == grown[j - 1] IN
               Leaf(g.db, g.at, IF j = 1 THEN way ELSE "mid", s[i + j - 1])
    IN  grown[Len(s) - i + 1]

\* On its way back it writes the parent of every node it passed.
Parented(d, path) ==
    LET passed(x) == {n \in DOMAIN path : path[n].at = x}
        above(n)  == IF n = 1 THEN 0 ELSE path[n - 1].at
    IN  [d EXCEPT !.node =
           [x \in DOMAIN d.node |->
              IF passed(x) = {} THEN d.node[x]
              ELSE [d.node[x] EXCEPT !.parent = above(CHOOSE n \in passed(x) : TRUE)]]]

TstPut(d, s, v) ==
    LET path == Visits(d, s)
        last == path[Len(path)]
        way  == Way(d.node[last.at], s, last.i)
        end  == IF path = << >> THEN Grown(d, s, 1, 0, "mid")
                ELSE IF way = "value" THEN [at |-> last.at, db |-> d]
                ELSE Grown(d, s, Onward(d, s, last).i, last.at, way)
    IN  Parented([end.db EXCEPT !.node[end.at].value = v], path)

-----------------------------------------------------------------------------
(* tst_delete.                                                             *)

\* The largest node of a level.  On wrong links the loop that looks for it
\* need not end, and is cut off.
Rightmost(d, x) ==
    LET turn[n \in 0..d.size] ==
          IF n = 0 THEN x
          ELSE LET y == turn[n - 1]  r == d.node[y].link["right"] IN IF r = 0 THEN y ELSE r
    IN  turn[d.size]

\* remove_node frees a node and returns what takes its place.  With two
\* children the right one goes below the largest node of the left one; its
\* parent number is not written.
RemoveNode(d, x) ==
    LET left  == d.node[x].link["left"]
        right == d.node[x].link["right"]
        f     == FreeNode(d, x)
    IN  IF left = 0 THEN [at |-> right, db |-> f]
        ELSE IF right = 0 THEN [at |-> left, db |-> f]
        ELSE [at |-> left,
              db |-> [f EXCEPT !.node[Rightmost(f, left)].link["right"] = right]]

\* One turn of tst_delete's second loop: a node with neither a value nor a
\* middle child is removed from its parent, the root from the tree.
IsEmpty(n) == n.link["mid"] = 0 /\ n.value = 0

Unlink_KeepsParent(d, x) ==
    LET p    == d.node[x].parent
        r    == RemoveNode(d, x)
        side == CASE x = d.node[p].link["left"]  -> "left"
                  [] x = d.node[p].link["right"] -> "right"
                  [] OTHER                       -> "mid"
    IN  IF p = 0 THEN [r.db EXCEPT !.root = r.at]
                 ELSE [r.db EXCEPT !.node[p].link[side] = r.at]

Unlink(d, x) ==
    LET p    == d.node[x].parent
        r    == RemoveNode(d, x)
        side == CASE x = d.node[p].link["left"]  -> "left"
                  [] x = d.node[p].link["right"] -> "right"
                  [] OTHER                       -> "mid"
        d1   == IF p = 0 THEN [r.db EXCEPT !.root = r.at]
                         ELSE [r.db EXCEPT !.node[p].link[side] = r.at]
    IN  IF r.at > 0 THEN [d1 EXCEPT !.node[r.at].parent = p] ELSE d1

\* The loop itself.  On wrong parent numbers it need not end, and is cut off
\* after more turns than there are nodes.
Climb(d, x) ==
    LET turn[n \in 0..2 * d.size] ==
          IF n = 0 THEN [at |-> x, db |-> d]
          ELSE LET q == turn[n - 1] IN
               IF q.at = 0 THEN q
               ELSE [at |-> q.db.node[q.at].parent,
                     db |-> IF IsEmpty(q.db.node[q.at]) THEN Unlink(q.db, q.at) ELSE q.db]
    IN  turn[2 * d.size].db

TstDelete(d, s) ==
    LET x == Find(d, s) IN
    IF x = 0 THEN d ELSE Climb([d EXCEPT !.node[x].value = 0], x)

\* Whether deleting s climbs along a parent number that is not the node's
\* parent.
ClimbsAstray(d, s) ==
    LET path == Visits(d, s) IN
    /\ Find(d, s) # 0
    /\ \E i \in 1..Len(path) :
           d.node[path[i].at].parent # IF i = 1 THEN 0 ELSE path[i - 1].at

-----------------------------------------------------------------------------
(* The tree's life: puts and deletions, in any order.                      *)

Init ==
    /\ db = [root |-> 0, size |-> 0, cap |-> InitialCap, fhead |-> 0,
             node |-> [x \in {0} |-> Blank]]
    /\ m = [k \in Keys |-> 0]
    /\ calls = 0
    /\ damaged = FALSE

Called ==
    /\ ~damaged
    /\ calls < MaxCalls
    /\ calls' = calls + 1

Put(k, v) ==
    /\ Called
    /\ db' = TstPut(db, k, v)
    /\ m' = [m EXCEPT ![k] = v]
    /\ UNCHANGED damaged

Delete(k) ==
    /\ Called
    /\ db' = TstDelete(db, k)
    /\ m' = [m EXCEPT ![k] = 0]
    /\ damaged' = ClimbsAstray(db, k)

\* The caller is done, or a deletion has gone astray: the model does not
\* follow the tree any further.
Rest == (damaged \/ calls = MaxCalls) /\ UNCHANGED vars

Next ==
    \/ \E k \in Keys, v \in Values : Put(k, v)
    \/ \E k \in Keys : Delete(k)
    \/ Rest

Spec == Init /\ [][Next]_vars

-----------------------------------------------------------------------------
(* What the tree guarantees as long as no deletion has gone astray.        *)

Numbers == 0..db.size

\* The variables keep to their types, and the array has room for every node
\* that was ever handed out.
Node == [c : Int, link : [Ways -> Numbers], parent : Numbers, value : Values \cup {0}]

TypeOK ==
    /\ db \in [root : Numbers, size : Nat, cap : Nat, fhead : Numbers,
               node : [Numbers -> Node]]
    /\ db.size < db.cap
    /\ m \in [Keys -> Values \cup {0}]
    /\ calls \in 0..MaxCalls
    /\ damaged \in BOOLEAN

\* The nodes that can be reached from x along some links, and those on the
\* free list.
Reached(x, ways) ==
    LET reached[S \in SUBSET (1..db.size)] ==
          LET R == S \cup ({db.node[y].link[way] : y \in S, way \in ways} \ {0})
          IN  IF R = S THEN S ELSE reached[R]
    IN  IF x = 0 THEN {} ELSE reached[{x}]

InTree(x) == Reached(x, Ways)

Level(x) == Reached(x, {"left", "right"})

Freed ==
    LET free[n \in 1..db.size] ==
          IF n = 1 THEN db.fhead ELSE db.node[free[n - 1]].link["mid"]
    IN  {free[n] : n \in 1..db.size} \ {0}

\* Every node handed out is in the tree or on the free list and never on
\* both: deletions neither leak nodes nor free one that is still in use.
NodesAccounted ==
    ~damaged => /\ InTree(db.root) \cap Freed = {}
                /\ InTree(db.root) \cup Freed = 1..db.size

\* A lookup returns what the calls so far put under the key and nothing for a
\* key that was deleted or never stored, prefixes and extensions of stored
\* keys included.
LookupExact ==
    ~damaged => \A k \in Keys \cup Probes :
                    TstGet(db, k) = IF k \in Keys THEN m[k] ELSE 0

\* The tree has no dead branches (every node without a middle child has a
\* value), no node has two ways leading to it, and the characters of a level
\* are in search order.
TreeShape ==
    ~damaged => \A x \in InTree(db.root) :
        LET n == db.node[x] IN
        /\ n.link["mid"] # 0 \/ n.value # 0
        /\ \A y \in Level(n.link["left"])  : db.node[y].c < n.c
        /\ \A y \in Level(n.link["right"]) : db.node[y].c > n.c
        /\ Cardinality({w \in InTree(db.root) \X Ways : db.node[w[1]].link[w[2]] = x})
             = IF x = db.root THEN 0 ELSE 1

\* A node's parent number is that of its parent, except in a right child
\* whose parent was removed: that one still names a node that is freed or in
\* use elsewhere, until a put passes it.
ParentsKnown ==
    ~damaged => \A x \in InTree(db.root) : \A y \in Links(db.node[x]) :
        db.node[y].parent = x \/ y = db.node[x].link["right"]

\* Together: the array is a tree, up to what a removal leaves behind.
WellFormed == TypeOK /\ TreeShape /\ ParentsKnown

-----------------------------------------------------------------------------
(* What comments and documentation say and the code does not do.           *)

\* f_head is the "head of reuseable node list" (tst.h:22): no node of the
\* tree is on it.
FreedAreReusable == InTree(db.root) \cap Freed = {}

=============================================================================
