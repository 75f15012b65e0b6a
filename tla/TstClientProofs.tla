--------------------------- MODULE TstClientProofs ---------------------------
(***************************************************************************)
(* Proofs about TstClient: what a client is told is so, for any number of  *)
(* clients, keys, calls, stops of the server and timeouts.                 *)
(***************************************************************************)
EXTENDS TstClient, FiniteSetTheorems, FunctionTheorems, WellFoundedInduction, TLAPS

-----------------------------------------------------------------------------
(* Sets in order, and sequences of them.                                   *)

Increasing(f, n) == \A i, j \in 1..n : i < j => f[i] < f[j]

\* Numbers have a least one.
LEMMA LeastElement ==
    ASSUME NEW S \in SUBSET Nat, S # {}
    PROVE  \E x \in S : \A y \in S : x <= y
<1>1. PICK x \in S : \A y \in S : <<y, x>> \notin OpToRel(<, Nat)
    BY NatLessThanWellFounded, WFMin
<1>2. ASSUME NEW y \in S PROVE x <= y
    <2>1. ~(y < x)
        BY <1>1 DEF OpToRel
    <2> QED BY <2>1
<1> QED
    BY <1>2

\* A finite set of numbers can be put in order.
LEMMA OrderExists ==
    ASSUME NEW S \in SUBSET Nat, IsFiniteSet(S)
    PROVE  \E f \in [1..Cardinality(S) -> S] : Increasing(f, Cardinality(S))
<1> DEFINE Has(T) == \E f \in [1..Cardinality(T) -> T] : Increasing(f, Cardinality(T))
           Bad == {n \in Nat : \E T \in SUBSET Nat : IsFiniteSet(T) /\ Cardinality(T) = n /\ ~Has(T)}
<1>1. SUFFICES Bad = {}
    <2>1. Cardinality(S) \in Nat
        BY FS_CardinalityType
    <2> QED
        BY <1>1, <2>1
<1>2. SUFFICES ASSUME Bad # {} PROVE FALSE
    OBVIOUS
<1>3. PICK n \in Bad : \A m \in Bad : n <= m
    BY <1>2, LeastElement
<1>4. PICK T \in SUBSET Nat : IsFiniteSet(T) /\ Cardinality(T) = n /\ ~Has(T)
    BY <1>3
<1>5. n \in Nat
    BY <1>3
<1>6. T # {}
    <2>1. SUFFICES ASSUME T = {} PROVE Has(T)
        BY <1>4
    <2>2. Cardinality(T) = 0
        BY <2>1, FS_EmptySet
    <2>3. [i \in 1..0 |-> 0] \in [1..0 -> T] /\ Increasing([i \in 1..0 |-> 0], 0)
        BY DEF Increasing
    <2> QED
        BY <2>2, <2>3
<1>7. PICK x \in T : \A y \in T : x <= y
    BY <1>6, LeastElement
<1> DEFINE U == T \ {x}
<1>8. IsFiniteSet(U) /\ Cardinality(U) = n - 1
    BY <1>4, <1>7, FS_RemoveElement
<1>9. n - 1 \in Nat
    BY <1>8, FS_CardinalityType
<1>10. n - 1 \notin Bad
    BY <1>3, <1>5, <1>9
<1>11. Has(U)
    BY <1>8, <1>9, <1>10
<1>12. PICK f \in [1..(n - 1) -> U] : Increasing(f, n - 1)
    BY <1>8, <1>11
<1> DEFINE g == [i \in 1..n |-> IF i = 1 THEN x ELSE f[i - 1]]
<1>13. g \in [1..n -> T]
    BY <1>5, <1>7, <1>12
<1>14. Increasing(g, n)
    <2>1. SUFFICES ASSUME NEW i \in 1..n, NEW j \in 1..n, i < j PROVE g[i] < g[j]
        BY DEF Increasing
    <2>2. j - 1 \in 1..(n - 1) /\ g[j] = f[j - 1]
        BY <1>5, <2>1
    <2>5. f[j - 1] \in U
        BY <1>12, <2>2
    <2>3. CASE i = 1
        <3>1. g[i] = x
            BY <2>3
        <3>2. f[j - 1] \in Nat /\ x \in Nat /\ f[j - 1] # x /\ x <= f[j - 1]
            BY <1>4, <1>7, <2>5
        <3> QED BY <2>2, <3>1, <3>2
    <2>4. CASE i # 1
        <3>1. i - 1 \in 1..(n - 1) /\ g[i] = f[i - 1] /\ i - 1 < j - 1
            BY <1>5, <2>1, <2>4
        <3> QED
            BY <1>12, <2>2, <3>1 DEF Increasing
    <2> QED BY <2>3, <2>4
<1> QED
    BY <1>4, <1>13, <1>14

\* InOrder is such an order.
LEMMA Ordered ==
    ASSUME NEW S \in SUBSET Nat, IsFiniteSet(S)
    PROVE  /\ Cardinality(S) \in Nat
           /\ InOrder(S) \in [1..Cardinality(S) -> S]
           /\ Increasing(InOrder(S), Cardinality(S))
BY OrderExists, FS_CardinalityType DEF InOrder, Increasing

\* The first numbers are in order as they are.
LEMMA OrderedAll ==
    ASSUME NEW n \in Nat
    PROVE  /\ Cardinality(1..n) = n
           /\ \A i \in 1..n : InOrder(1..n)[i] = i
<1>1. IsFiniteSet(1..n) /\ Cardinality(1..n) = n
    BY FS_Interval
<1> DEFINE f == InOrder(1..n)
<1>2. f \in [1..n -> 1..n] /\ Increasing(f, n)
    BY <1>1, Ordered
<1> HIDE DEF f
<1> DEFINE Low == {i \in 1..n : f[i] < i}
           High == {m \in Nat : \E i \in 1..n : f[i] > i /\ m = n - i}
<1>3. Low = {}
    <2>1. SUFFICES ASSUME Low # {} PROVE FALSE
        OBVIOUS
    <2>6. Low \in SUBSET Nat
        OBVIOUS
    <2>2. PICK i \in Low : \A j \in Low : i <= j
        BY <2>1, <2>6, LeastElement
    <2>3. i \in 1..n /\ f[i] \in 1..n /\ f[i] < i
        BY <1>2, <2>2
    <2>4. f[f[i]] < f[i]
        BY <1>2, <2>3 DEF Increasing
    <2>5. f[i] \in Low
        BY <2>3, <2>4
    <2> QED
        BY <2>2, <2>3, <2>5
<1>4. High = {}
    <2>1. SUFFICES ASSUME High # {} PROVE FALSE
        OBVIOUS
    <2>2. PICK m \in High : \A k \in High : m <= k
        BY <2>1, LeastElement
    <2>3. PICK i \in 1..n : f[i] > i /\ m = n - i
        BY <2>2
    <2>4. f[i] \in 1..n /\ f[f[i]] > f[i]
        BY <1>2, <2>3 DEF Increasing
    <2>5. n - f[i] \in High
        BY <2>4
    <2> QED
        BY <2>2, <2>3, <2>4, <2>5
<1>5. ASSUME NEW i \in 1..n PROVE f[i] = i
    <2>1. f[i] \in 1..n /\ ~(f[i] < i)
        BY <1>2, <1>3
    <2>2. ~(f[i] > i)
        <3>1. n - i \in Nat
            OBVIOUS
        <3>2. f[i] > i => n - i \in High
            BY <3>1
        <3> QED BY <1>4, <3>2
    <2> QED BY <2>1, <2>2
<1> QED
    BY <1>1, <1>5 DEF f

-----------------------------------------------------------------------------
(* What a step keeps of the history.                                       *)

KeepsCalls ==
    /\ calls \in Seq(Records) /\ calls' \in Seq(Records)
    /\ Len(calls) <= Len(calls')
    /\ \A i \in 1..Len(calls) :
          /\ calls'[i].by = calls[i].by /\ calls'[i].call = calls[i].call
          /\ calls'[i].sign = calls[i].sign /\ calls'[i].seen = calls[i].seen
          /\ calls'[i].missed = calls[i].missed /\ calls'[i].at = calls[i].at

KeepsEffects ==
    /\ effects \in Seq(Effects) /\ effects' \in Seq(Effects)
    /\ Len(effects) <= Len(effects')
    /\ \A n \in 1..Len(effects) : effects'[n] = effects[n]

\* A value that is replaced is replaced by a newer one, or by none.
MovesOn == \A k \in Keys : store'[k] \in {store[k], 0} \/ store'[k] > Len(effects)

\* A genuine request stays one: the calls' records of what was asked stay.
LEMMA GenuineKept ==
    ASSUME KeepsCalls, NEW r, Genuine(r)
    PROVE  Genuine(r)'
<1>1. r.id \in 1..Len(calls) /\ r.id \in 1..Len(calls')
    BY DEF Genuine, KeepsCalls
<1> QED
    BY <1>1 DEF Genuine, KeepsCalls

\* So do requests of one call.
LEMMA OneCallsKept ==
    ASSUME KeepsCalls, NEW s, NEW id, OneCalls(s, id)
    PROVE  OneCalls(s, id)'
BY GenuineKept DEF OneCalls

\* Nothing is executed, nothing has been.
LEMMA UnservedKept ==
    ASSUME KeepsCalls, effects' = effects, NEW s, NEW id, OneCalls(s, id), Unserved(s)
    PROVE  Unserved(s)'
<1>1. \A i \in 1..Len(s) : s[i].id \in 1..Len(calls)
    BY DEF OneCalls, Genuine
<1>2. \A i \in 1..Len(s) : calls'[s[i].id].call = calls[s[i].id].call
    BY <1>1 DEF KeepsCalls
<1> QED
    BY <1>2 DEF Unserved

\* Effects stay.
LEMMA TookKept ==
    ASSUME KeepsEffects, NEW id
    PROVE  Took(id) \subseteq Took(id)'
BY DEF Took, KeepsEffects

\* A delete stays.
LEMMA DeletedKept ==
    ASSUME KeepsEffects, NEW k, NEW n \in Nat \ {0}, Deleted(k, n)
    PROVE  Deleted(k, n)'
BY DEF Deleted, KeepsEffects

\* What was new enough stays so.
LEMMA NotOlderKept ==
    ASSUME KeepsEffects, NEW i, NEW k, NEW v, NotOlder(i, k, v)
    PROVE  NotOlder(i, k, v)'
<1>1. PICK n \in Took(i) : v >= n \/ (v = 0 /\ Deleted(k, n))
    BY DEF NotOlder
<1>2. n \in Nat \ {0} /\ n \in Took(i)'
    BY TookKept DEF Took, KeepsEffects
<1> QED
    BY <1>1, <1>2, DeletedKept DEF NotOlder

\* What was gone stays gone: no older value comes back.
LEMMA GoneKept ==
    ASSUME MovesOn, effects \in Seq(Effects), NEW ks \in Seq(Keys), NEW n \in Nat,
           n <= Len(effects), store' \in [Keys -> Nat], Gone(ks, n)
    PROVE  Gone(ks, n)'
<1>1. SUFFICES ASSUME NEW k \in Range(ks) PROVE store'[k] = 0 \/ store'[k] > n
    BY DEF Gone
<1>2. k \in Keys
    BY DEF Range
<1>3. store[k] = 0 \/ store[k] > n
    BY DEF Gone
<1> QED
    BY <1>2, <1>3 DEF MovesOn

\* A reply that is not read yet stays true.
LEMMA TruthfulKept ==
    ASSUME KeepsCalls, KeepsEffects, MovesOn, store' \in [Keys -> Nat], CallsOK,
           NEW c \in Clients, NEW p \in Answers, Truthful(c, p), run'[c].id = run[c].id,
           \A j \in 1..Len(calls) : \A k :
              j < run[c].id /\ ToldSet(j, c, k)' => ToldSet(j, c, k)
    PROVE  Truthful(c, p)'
<1> DEFINE r == p.to
<1>1. r \in Requests /\ Genuine(r) /\ r.id = run[c].id /\ r.id \in 1..Len(calls)
    BY DEF Answers, Truthful, Genuine
<1>2. Genuine(r)' /\ r.id = run'[c].id
    BY <1>1, GenuineKept
<1>3. p.ans \in {"STORED", "NUMBER"} => Took(r.id)' # {}
    BY TookKept DEF Truthful
<1>4. r.op = "delete" => Gone(r.keys, calls[r.id].at)'
    <2>1. SUFFICES ASSUME r.op = "delete" PROVE Gone(r.keys, calls[r.id].at)'
        OBVIOUS
    <2>2. calls[r.id] \in Records /\ calls'[r.id].at = calls[r.id].at
        BY <1>1 DEF KeepsCalls
    <2>3. calls[r.id].at \in Nat /\ calls[r.id].at <= Len(effects)
        BY <1>1, <2>2 DEF CallsOK, Records
    <2>4. Gone(r.keys, calls[r.id].at)
        BY <2>1 DEF Truthful
    <2>5. r.keys \in Seq(Keys) /\ effects \in Seq(Effects)
        BY <1>1 DEF Requests, KeepsEffects
    <2>6. ASSUME NEW n \in Nat, n <= Len(effects), Gone(r.keys, n) PROVE Gone(r.keys, n)'
        BY <2>5, <2>6, GoneKept
    <2> QED
        BY <2>2, <2>3, <2>4, <2>6
<1>5. ASSUME r.op \in Fetching, NEW k \in Range(r.keys), NEW j \in 1..Len(calls'),
             j < r.id, ToldSet(j, c, k)'
      PROVE  NotOlder(j, k, p.vals[k])'
    <2>1. j \in 1..Len(calls)
        BY <1>1, <1>5 DEF KeepsCalls
    <2>2. ToldSet(j, c, k)
        BY <1>1, <1>5, <2>1
    <2>3. NotOlder(j, k, p.vals[k])
        BY <1>5, <2>1, <2>2 DEF Truthful
    <2> QED
        BY <2>3, NotOlderKept
<1> QED
    BY <1>2, <1>3, <1>4, <1>5 DEF Truthful

-----------------------------------------------------------------------------
(* What a step of one client keeps of the rest.                            *)

Safe == Consistent /\ AnswersTrue /\ AtMostOnce /\ ReadsOwnWrites

\* The types, of one element each.
LEMMA Types ==
    ASSUME Safe
    PROVE  /\ calls \in Seq(Records) /\ effects \in Seq(Effects)
           /\ store \in [Keys -> Nat] /\ Len(calls) \in Nat /\ Len(effects) \in Nat
           /\ \A c \in Clients :
                 /\ conn[c] \in Sockets /\ conn[c].req \in Seq(Requests)
                 /\ conn[c].rep \in Seq(Answers) /\ conn[c].end \in {"up", "fin", "rst"}
                 /\ run[c] \in Runs /\ run[c].id \in Nat /\ run[c].want \in Seq(Requests)
<1>1. TypeOK
    BY DEF Safe, Consistent
<1>2. calls \in Seq(Records) /\ effects \in Seq(Effects) /\ store \in [Keys -> Nat]
    BY <1>1 DEF TypeOK
<1>3. ASSUME NEW c \in Clients
      PROVE  /\ conn[c] \in Sockets /\ conn[c].req \in Seq(Requests)
             /\ conn[c].rep \in Seq(Answers) /\ conn[c].end \in {"up", "fin", "rst"}
             /\ run[c] \in Runs /\ run[c].id \in Nat /\ run[c].want \in Seq(Requests)
    <2>1. conn[c] \in Sockets /\ run[c] \in Runs
        BY <1>1 DEF TypeOK
    <2> QED
        BY <2>1 DEF Sockets, Runs
<1> QED
    BY <1>2, <1>3

\* An effect is of somebody who is not a client, or of a call's request.
LEMMA EffectsSource ==
    ASSUME Safe, NEW n \in 1..Len(effects)
    PROVE  /\ effects[n].req.id = 0 => effects[n].req.nr = n
           /\ effects[n].req.id # 0 => /\ Genuine(effects[n].req)
                                      /\ effects[n].req.id \in 1..Len(calls)
<1>1. IF effects[n].req.id = 0 THEN effects[n].req.op = "set" /\ effects[n].req.nr = n
                               ELSE Genuine(effects[n].req)
    BY DEF Safe, Consistent, EffectsOK
<1>2. effects[n].req.id # 0 => effects[n].req.id \in 1..Len(calls)
    BY <1>1 DEF Genuine
<1> QED
    BY <1>1, <1>2

\* While nothing is stored and no call is changed that counts.
LEMMA HistoryKept ==
    ASSUME Safe, KeepsCalls, UNCHANGED <<effects, store>>
    PROVE  /\ KeepsEffects /\ MovesOn
           /\ EffectsOK' /\ StoreOK' /\ AtMostOnce'
<1>1. KeepsEffects /\ MovesOn
    BY Types DEF KeepsEffects, MovesOn
<1>2. EffectsOK'
    BY GenuineKept DEF Safe, Consistent, EffectsOK
<1>3. StoreOK'
    BY DEF Safe, Consistent, StoreOK, Deleted
<1>4. AtMostOnce'
    <2>1. SUFFICES ASSUME NEW m \in 1..Len(effects), NEW n \in 1..Len(effects), m < n,
                          effects[m].req.id = effects[n].req.id,
                          effects[m].req.nr = effects[n].req.nr
                   PROVE  effects[n].req.op = "set" /\ calls'[effects[n].req.id].call.op \in Setting
        BY DEF AtMostOnce
    <2>2. effects[n].req.op = "set" /\ calls[effects[n].req.id].call.op \in Setting
        BY <2>1 DEF Safe, AtMostOnce
    <2>3. effects[n].req.id \in 1..Len(calls)
        BY <2>1, EffectsSource
    <2> QED
        BY <2>2, <2>3 DEF KeepsCalls
<1> QED
    BY <1>1, <1>2, <1>3, <1>4

OnlyClient(c) ==
    /\ \A d \in Clients \ {c} : run'[d] = run[d] /\ conn'[d] = conn[d] /\ sock'[d] = sock[d]
    /\ run'[c].id \in {run[c].id, 0} \/ run'[c].id > Len(calls)
    /\ \A i \in 1..Len(calls) : calls'[i] = calls[i] \/ i = run[c].id
    /\ \A i \in 1..Len(calls') : i > Len(calls) => calls'[i].by = c

\* Another client is not concerned by a step of c.
LEMMA OthersKept ==
    ASSUME Safe, KeepsCalls, UNCHANGED <<effects, store>>,
           NEW c \in Clients, OnlyClient(c),
           NEW d \in Clients \ {c}
    PROVE  ClientOK(d)'
<1>1. run'[d] = run[d] /\ conn'[d] = conn[d] /\ sock'[d] = sock[d]
    BY DEF OnlyClient
<1>2. ClientOK(d) /\ RunOK(d) /\ RunOK(c)
    BY DEF Safe, Consistent, ClientOK
<1>3. run[d].id # 0 => run[d].id \in 1..Len(calls) /\ calls'[run[d].id] = calls[run[d].id]
    BY <1>2 DEF RunOK, OnlyClient
<1>4. RunOK(d)'
    <2>1. CASE run[d].id = 0
        BY <1>1, <1>2, <2>1 DEF RunOK
    <2>2. CASE run[d].id # 0
        <3>1. OneCalls(run[d].want, run[d].id)
            BY <1>2, <2>2 DEF RunOK
        <3>2. OneCalls(run[d].want, run[d].id)'
            BY <1>1, <3>1, OneCallsKept
        <3>3. \A i \in 1..Len(calls') : calls'[i].by = d => i <= run[d].id
            <4>1. SUFFICES ASSUME NEW i \in 1..Len(calls'), calls'[i].by = d PROVE i <= run[d].id
                OBVIOUS
            <4>2. i \in 1..Len(calls) /\ calls[i].by = d
                BY <4>1, Types DEF OnlyClient, KeepsCalls
            <4> QED
                BY <1>2, <2>2, <4>2 DEF RunOK
        <3>4. run[d].id \in 1..Len(calls')
            BY <1>3, <2>2 DEF KeepsCalls
        <3> QED
            BY <1>1, <1>2, <1>3, <2>2, <3>2, <3>3, <3>4 DEF RunOK, TheCall
    <2> QED BY <2>1, <2>2
<1>5. ConnOK(d)'
    <2>1. OneCalls(conn[d].req, run[d].id) /\ Unserved(conn[d].req)
        BY <1>2 DEF ClientOK, ConnOK
    <2>2. OneCalls(conn[d].req, run[d].id)' /\ Unserved(conn[d].req)'
        BY <1>1, <2>1, OneCallsKept, UnservedKept
    <2> QED
        BY <1>1, <1>2, <2>2 DEF ClientOK, ConnOK, Fresh
<1>6. InStep(d)'
    BY <1>1, <1>2, <1>3 DEF ClientOK, InStep, Awaiting, TheCall
<1>7. RepliesOK(d)'
    <2>1. SUFFICES ASSUME NEW i \in 1..Len(conn[d].rep) PROVE Truthful(d, conn[d].rep[i])'
        BY <1>1 DEF RepliesOK
    <2>2. conn[d].rep[i] \in Answers /\ Truthful(d, conn[d].rep[i])
        BY <1>2, Types DEF ClientOK, RepliesOK
    <2>3. \A j \in 1..Len(calls) : \A k : j < run[d].id /\ ToldSet(j, d, k)' => ToldSet(j, d, k)
        BY <1>2 DEF OnlyClient, ToldSet, RunOK, KeepsCalls
    <2>4. KeepsEffects /\ MovesOn /\ store' \in [Keys -> Nat] /\ CallsOK
        BY HistoryKept, Types DEF Safe, Consistent
    <2> QED
        BY <1>1, <2>2, <2>3, <2>4, TruthfulKept
<1> QED
    BY <1>4, <1>5, <1>6, <1>7 DEF ClientOK

\* What was left behind by others stays as it was.
LEMMA LateKept ==
    ASSUME Safe, KeepsCalls, effects' = effects, NEW c \in Clients, OnlyClient(c),
           late' \subseteq late
    PROVE  LateOK'
<1>1. ASSUME NEW reqs \in late
      PROVE  LET id == Head(reqs).id IN
             /\ id \in 1..Len(calls)
             /\ OneCalls(reqs, id)' /\ Unserved(reqs)'
             /\ calls'[id].ret \notin {"yes", "number"}
             /\ \A d \in Clients : run'[d].id # id
    <2> DEFINE id == Head(reqs).id
    <2>1. /\ OneCalls(reqs, id) /\ Unserved(reqs)
          /\ calls[id].ret \notin {"yes", "number"}
          /\ \A d \in Clients : run[d].id # id
        BY DEF Safe, Consistent, LateOK
    <2>2. reqs \in Seq(Requests) /\ reqs # << >>
        BY DEF Safe, Consistent, TypeOK
    <2>3. id \in 1..Len(calls)
        BY <2>1, <2>2 DEF OneCalls, Genuine
    <2>4. OneCalls(reqs, id)' /\ Unserved(reqs)'
        BY <2>1, OneCallsKept, UnservedKept
    <2>5. calls'[id] = calls[id]
        BY <2>1, <2>3 DEF OnlyClient
    <2>6. \A d \in Clients : run'[d].id # id
        BY <2>1, <2>3, Types DEF OnlyClient
    <2> QED
        BY <2>1, <2>3, <2>4, <2>5, <2>6
<1>2. \A r, s \in late : Head(r).id = Head(s).id => r = s
    BY DEF Safe, Consistent, LateOK
<1> QED
    BY <1>1, <1>2 DEF LateOK

\* While no call is made, answered or executed.
LEMMA CallsQuiet ==
    ASSUME Safe, UNCHANGED <<calls, effects, store>>
    PROVE  /\ KeepsCalls /\ AnswersTrue' /\ ReadsOwnWrites'
           /\ (\A c \in Clients : run'[c].id = run[c].id) => CallsOK'
<1>1. KeepsCalls
    BY Types DEF KeepsCalls
<1>2. AnswersTrue'
    BY DEF Safe, AnswersTrue, Took, Gone
<1>3. ReadsOwnWrites'
    BY DEF Safe, ReadsOwnWrites, ToldSet, NotOlder, Took, Deleted
<1>4. ASSUME \A c \in Clients : run'[c].id = run[c].id PROVE CallsOK'
    <2>1. ASSUME NEW i \in 1..Len(calls) PROVE calls[i].by \in Clients
        <3>1. calls[i] \in Records
            BY Types
        <3> QED BY <3>1 DEF Records
    <2> QED
        BY <1>4, <2>1 DEF Safe, Consistent, CallsOK
<1> QED
    BY <1>1, <1>2, <1>3, <1>4

\* What CallsAssumption says of a call.
LEMMA CallFacts ==
    ASSUME NEW c \in Clients, NEW call \in Calls[c]
    PROVE  /\ call \in Call /\ call.keys \in Seq(Keys) /\ call.big \in SUBSET Keys
           /\ call.keys # << >> /\ (call.op \notin Multi => Len(call.keys) = 1)
           /\ call.op \in Setting \cup Fetching \cup Multi \cup {"delete", "incr", "disconnect_all"}
<1>1. call \in Call
    BY CallsAssumption
<1> QED
    BY <1>1, CallsAssumption DEF Call

\* A call is made, and may be over already.
LEMMA CallMade ==
    ASSUME Safe, NEW c \in Clients, ~Awaiting(c), NEW call \in Calls[c],
           NEW ret \in Results \ {"values", "number"}, NEW bad \in SUBSET Keys,
           calls' = Append(calls, Made(c, call, ret, bad)),
           UNCHANGED <<effects, store>>,
           ret = "yes" => call.op = "delete_multi",
           ret = "pending" => run'[c].id = Len(calls) + 1,
           \A d \in Clients \ {c} : run'[d] = run[d]
    PROVE  /\ KeepsCalls
           /\ Len(calls') = Len(calls) + 1
           /\ calls'[Len(calls) + 1] = Made(c, call, ret, bad)
           /\ \A i \in 1..Len(calls) : calls'[i] = calls[i]
           /\ CallsOK' /\ AnswersTrue' /\ ReadsOwnWrites'
<1> DEFINE m == Made(c, call, ret, bad)
           n == Len(calls) + 1
<1>1. m \in Records
    <2>1. call.op = "cas" => call.keys[1] \in Keys
        BY CallFacts DEF Multi
    <2>2. fetched[c] \in [Keys -> Nat] /\ ids[c] \in [Keys -> Nat]
        BY DEF Safe, Consistent, TypeOK
    <2> DEFINE g == IF call.op = "cas" THEN ids[c][call.keys[1]] ELSE 0
               s == IF call.op = "cas" THEN fetched[c][call.keys[1]] ELSE 0
               b == call.op = "cas" /\ call.keys[1] \in missed[c]
               a == IF call.op = "delete" THEN Len(effects) ELSE 0
    <2>3. g \in Nat /\ s \in Nat /\ b \in BOOLEAN /\ a \in Nat
        BY <2>1, <2>2, Types
    <2>4. NoKeys \in [Keys -> Nat]
        BY DEF NoKeys
    <2>5. m = [by |-> c, call |-> call, ret |-> ret, bad |-> bad, vals |-> NoKeys,
              sign |-> g, seen |-> s, missed |-> b, at |-> a]
        BY DEF Made
    <2> HIDE DEF g, s, b, a, m
    <2> QED
        BY <2>3, <2>4, <2>5, CallFacts DEF Records
<1>2. /\ m.by = c /\ m.call = call /\ m.ret = ret /\ m.at \in {0, Len(effects)}
    BY DEF Made
<1> HIDE DEF m
<1>3. /\ calls' \in Seq(Records) /\ Len(calls') = n /\ calls'[n] = m
      /\ \A i \in 1..Len(calls) : calls'[i] = calls[i]
    BY <1>1, Types DEF m
<1>4. KeepsCalls
    BY <1>3, Types DEF KeepsCalls
<1>5. ASSUME NEW i \in 1..n PROVE i = n \/ i \in 1..Len(calls)
    BY Types
<1>6. CallsOK'
    <2>1. SUFFICES ASSUME NEW i \in 1..n
                   PROVE  /\ calls'[i].call \in Calls[calls'[i].by]
                          /\ calls'[i].at <= Len(effects)
                          /\ calls'[i].ret = "pending" => run'[calls'[i].by].id = i
                          /\ SignOK(calls'[i])
                          /\ calls'[i].ret = "values" =>
                                calls'[i].call.op \in Fetching \cup {"get_multi"}
        BY <1>3 DEF CallsOK, SignOK
    <2>2. CASE i = n
        <3>1. SignOK(m)
            <4>1. call.op = "cas" => call.keys[1] \in Keys
                BY CallFacts DEF Multi
            <4>2. \A k \in Keys : k \in missed[c] \/ ids[c][k] = IF CacheCas THEN fetched[c][k] ELSE 0
                BY DEF Safe, Consistent, CacheOK
            <4> QED
                BY <4>1, <4>2 DEF SignOK, m, Made
        <3> QED
            BY <1>2, <1>3, <2>2, <3>1, Types
    <2>3. CASE i \in 1..Len(calls)
        <3>1. calls[i] \in Records /\ calls'[i] = calls[i]
            BY <1>3, <2>3, Types
        <3>2. calls[i].by \in Clients
            BY <3>1 DEF Records
        <3>3. calls[i].ret = "pending" => calls[i].by # c
            BY <2>3 DEF Safe, Consistent, CallsOK, Awaiting
        <3> QED
            BY <2>3, <3>1, <3>2, <3>3 DEF Safe, Consistent, CallsOK
    <2> QED BY <1>5, <2>2, <2>3
<1>7. AnswersTrue'
    <2>1. ASSUME NEW i \in 1..Len(calls)
          PROVE  /\ \/ calls[i].call.op \in {"set", "cas"} /\ calls[i].ret = "yes"
                    \/ calls[i].ret = "number"
                    => Took(i)' # {}
                 /\ calls[i].call.op = "delete" /\ calls[i].ret = "yes" =>
                       Gone(calls[i].call.keys, calls[i].at)'
        BY <1>3 DEF Safe, AnswersTrue, Took, Gone
    <2> QED
        BY <1>2, <1>3, <1>5, <2>1 DEF AnswersTrue
<1>8. ReadsOwnWrites'
    <2>1. SUFFICES ASSUME NEW i \in 1..n, NEW j \in 1..n, i < j, calls'[j].ret = "values",
                          NEW k \in Range(calls'[j].call.keys), ToldSet(i, calls[j].by, k)'
                   PROVE  NotOlder(i, k, calls[j].vals[k])'
        BY <1>3 DEF ReadsOwnWrites
    <2>2. j \in 1..Len(calls) /\ i \in 1..Len(calls)
        BY <1>2, <1>3, <1>5, <2>1, Types
    <2>3. calls'[i] = calls[i] /\ calls'[j] = calls[j]
        BY <1>3, <2>2
    <2>4. ToldSet(i, calls[j].by, k)
        BY <2>1, <2>3 DEF ToldSet
    <2>5. NotOlder(i, k, calls[j].vals[k])
        BY <2>1, <2>2, <2>3, <2>4 DEF Safe, ReadsOwnWrites
    <2>6. KeepsEffects
        BY <1>4, HistoryKept
    <2> QED
        BY <2>3, <2>5, <2>6, NotOlderKept
<1> QED
    BY <1>3, <1>4, <1>6, <1>7, <1>8 DEF m

\* The call a client is in is over, with what it may say.
LEMMA CallReturned ==
    ASSUME Safe, NEW c \in Clients, Awaiting(c), NEW ret \in Results \ {"pending"},
           NEW bad \in SUBSET Keys, NEW vals \in [Keys -> Nat],
           Return(c, ret, bad, vals), UNCHANGED <<effects, store>>,
           TheCall(c).op \in {"set", "cas"} /\ ret = "yes" => Took(run[c].id) # {},
           ret = "number" => Took(run[c].id) # {},
           TheCall(c).op = "delete" /\ ret = "yes" =>
              Gone(TheCall(c).keys, calls[run[c].id].at),
           ret = "values" =>
              /\ TheCall(c).op \in Fetching \cup {"get_multi"}
              /\ \A k \in Range(TheCall(c).keys) : \A j \in 1..Len(calls) :
                    j < run[c].id /\ ToldSet(j, c, k) => NotOlder(j, k, vals[k])
    PROVE  /\ KeepsCalls /\ Len(calls') = Len(calls)
           /\ run' = [run EXCEPT ![c] = Idle] /\ run' \in [Clients -> Runs]
           /\ \A i \in 1..Len(calls) : calls'[i] = calls[i] \/ i = run[c].id
           /\ calls'[run[c].id].ret = ret
           /\ CallsOK' /\ AnswersTrue' /\ ReadsOwnWrites'
<1> DEFINE id == run[c].id
<1>1. /\ RunOK(c) /\ id # 0 /\ id \in 1..Len(calls) /\ calls[id].by = c
      /\ \A i \in 1..Len(calls) : calls[i].by = c => i <= id
    BY DEF Safe, Consistent, ClientOK, RunOK, Awaiting
<1>2. calls[id] \in Records
    BY <1>1, Types
<1> DEFINE m == [calls[id] EXCEPT !.ret = ret, !.bad = bad, !.vals = vals]
<1>3. calls' = [calls EXCEPT ![id] = m]
    BY <1>1, Types DEF Return
<1>4. m \in Records
    BY <1>2 DEF Records
<1>5. /\ m.by = c /\ m.call = calls[id].call /\ m.sign = calls[id].sign /\ m.seen = calls[id].seen
      /\ m.missed = calls[id].missed /\ m.at = calls[id].at
      /\ m.ret = ret /\ m.vals = vals
    BY <1>1, <1>2 DEF Records
<1> HIDE DEF m
<1>6. /\ calls' \in Seq(Records) /\ Len(calls') = Len(calls) /\ calls'[id] = m
      /\ \A i \in 1..Len(calls) : calls'[i] = calls[i] \/ i = id
    <2>1. calls \in Seq(Records) /\ id \in 1..Len(calls)
        BY <1>1, Types
    <2>2. calls' \in Seq(Records) /\ Len(calls') = Len(calls)
        BY <1>3, <1>4, <2>1
    <2>3. calls'[id] = m /\ \A i \in 1..Len(calls) : calls'[i] = calls[i] \/ i = id
        BY <1>3, <2>1
    <2> QED BY <2>2, <2>3
<1>7. KeepsCalls
    <2>1. ASSUME NEW i \in 1..Len(calls)
          PROVE  /\ calls'[i].by = calls[i].by /\ calls'[i].call = calls[i].call
                 /\ calls'[i].sign = calls[i].sign /\ calls'[i].seen = calls[i].seen
                 /\ calls'[i].missed = calls[i].missed /\ calls'[i].at = calls[i].at
        <3>1. CASE i = id
            BY <1>1, <1>5, <1>6, <3>1
        <3>2. CASE i # id
            BY <1>6, <3>2
        <3> QED BY <3>1, <3>2
    <2>2. calls \in Seq(Records) /\ calls' \in Seq(Records)
        BY <1>6, Types
    <2>3. Len(calls) <= Len(calls')
        BY <1>6, <2>2
    <2> HIDE DEF id
    <2> QED
        BY <2>1, <2>2, <2>3, Zenon DEF KeepsCalls
<1>8. run' = [run EXCEPT ![c] = Idle] /\ run' \in [Clients -> Runs]
    <2>1. Idle \in Runs
        BY DEF Idle, Runs
    <2>2. run \in [Clients -> Runs]
        BY DEF Safe, Consistent, TypeOK
    <2> QED
        BY <2>1, <2>2 DEF Return
<1>9. CallsOK'
    <2>1. SUFFICES ASSUME NEW i \in 1..Len(calls)
                   PROVE  /\ calls'[i].call \in Calls[calls'[i].by]
                          /\ calls'[i].at <= Len(effects)
                          /\ calls'[i].ret = "pending" => run'[calls'[i].by].id = i
                          /\ SignOK(calls'[i])
                          /\ calls'[i].ret = "values" =>
                                calls'[i].call.op \in Fetching \cup {"get_multi"}
        BY <1>6 DEF CallsOK, SignOK
    <2>2. /\ calls[i].call \in Calls[calls[i].by] /\ calls[i].at <= Len(effects)
          /\ calls[i].ret = "pending" => run[calls[i].by].id = i
          /\ calls[i].ret = "values" => calls[i].call.op \in Fetching \cup {"get_multi"}
          /\ SignOK(calls[i])
        BY DEF Safe, Consistent, CallsOK
    <2>3. CASE i = id
        BY <1>1, <1>5, <1>6, <2>2, <2>3 DEF TheCall, SignOK
    <2>4. CASE i # id
        <3>1. calls'[i] = calls[i] /\ calls[i] \in Records
            BY <1>6, <2>4, Types
        <3>2. calls[i].by \in Clients
            BY <3>1 DEF Records
        <3>3. calls[i].ret = "pending" => calls[i].by # c
            BY <2>2, <2>4
        <3> QED
            BY <1>8, <2>2, <3>1, <3>2, <3>3, Types
    <2> QED BY <2>3, <2>4
<1>10. AnswersTrue'
    <2>1. SUFFICES ASSUME NEW i \in 1..Len(calls)
                   PROVE  /\ \/ calls'[i].call.op \in {"set", "cas"} /\ calls'[i].ret = "yes"
                             \/ calls'[i].ret = "number"
                             => Took(i) # {}
                          /\ calls'[i].call.op = "delete" /\ calls'[i].ret = "yes" =>
                                Gone(calls'[i].call.keys, calls'[i].at)
        BY <1>6 DEF AnswersTrue, Took, Gone
    <2>2. CASE i = id
        BY <1>5, <1>6, <2>2 DEF TheCall
    <2>3. CASE i # id
        BY <1>6, <2>3 DEF Safe, AnswersTrue
    <2> QED BY <2>2, <2>3
<1>11. ReadsOwnWrites'
    <2>1. SUFFICES ASSUME NEW i \in 1..Len(calls), NEW j \in 1..Len(calls), i < j,
                          calls'[j].ret = "values", NEW k \in Range(calls'[j].call.keys),
                          ToldSet(i, calls[j].by, k)'
                   PROVE  NotOlder(i, k, calls[j].vals[k])'
        BY <1>6 DEF ReadsOwnWrites
    <2>2. KeepsEffects
        BY <1>7, HistoryKept
    <2>3. calls'[j].by = calls[j].by /\ calls'[j].call = calls[j].call /\ calls'[i].by = calls[i].by
        BY <1>7 DEF KeepsCalls
    <2>4. calls[i].by = calls[j].by
        BY <2>1, <2>3 DEF ToldSet
    <2>5. i # id
        <3>1. SUFFICES ASSUME i = id PROVE FALSE
            OBVIOUS
        <3>2. calls[j].by = c
            BY <1>1, <2>4, <3>1
        <3> QED
            BY <1>1, <2>1, <3>1, <3>2
    <2>6. ToldSet(i, calls[j].by, k)
        BY <1>6, <2>1, <2>3, <2>5 DEF ToldSet
    <2>7. CASE j = id
        <3>1. NotOlder(i, k, vals[k])
            BY <1>1, <1>5, <1>6, <2>1, <2>3, <2>6, <2>7 DEF TheCall
        <3>2. calls'[j].vals = vals
            BY <1>5, <1>6, <2>7
        <3>3. NotOlder(i, k, vals[k])'
            BY <2>2, <3>1, NotOlderKept
        <3> QED BY <3>2, <3>3
    <2>8. CASE j # id
        <3>1. calls'[j] = calls[j]
            BY <1>6, <2>8
        <3>2. NotOlder(i, k, calls[j].vals[k])
            BY <2>1, <2>6, <3>1 DEF Safe, ReadsOwnWrites
        <3> QED
            BY <2>2, <3>1, <3>2, NotOlderKept
    <2> QED BY <2>7, <2>8
<1> QED
    BY <1>5, <1>6, <1>7, <1>8, <1>9, <1>10, <1>11

-----------------------------------------------------------------------------
(* The client's steps.                                                     *)

\* What a call that could not be made returns.
LEMMA Outcomes ==
    ASSUME NEW op \in Setting \cup Fetching \cup Multi \cup {"delete", "incr"}
    PROVE  /\ Refused(op) \in {"no", "none", "zero", "list", "yes"}
           /\ Refused(op) = "yes" => op = "delete_multi"
           /\ Broken(op) \in {"no", "none", "list"}
BY DEF Refused, Broken, Setting, Fetching, Multi

\* Outside a call nothing is on the way.
LEMMA NothingUnderWay ==
    ASSUME Safe, NEW c \in Clients, ~Awaiting(c)
    PROVE  run[c].id = 0 /\ run[c].want = << >> /\ conn[c].req = << >> /\ conn[c].rep = << >>
<1>1. ClientOK(c)
    BY DEF Safe, Consistent
<1>2. CASE sock[c]
    BY <1>1, <1>2 DEF ClientOK, InStep, RunOK, Awaiting
<1>3. CASE ~sock[c]
    BY <1>1, <1>3 DEF ClientOK, ConnOK, RunOK, Awaiting, Fresh
<1> QED
    BY <1>2, <1>3

\* A new socket's type.
LEMMA FreshSocket == Fresh \in Sockets
BY DEF Fresh, Sockets

\* What is known of signs.
SignsOK ==
    /\ ids \in [Clients -> [Keys -> Nat]] /\ fetched \in [Clients -> [Keys -> Nat]]
    /\ missed \in [Clients -> SUBSET Keys]
    /\ CacheOK

\* It stays so when nothing is learned,
LEMMA NothingLearned ==
    ASSUME Safe, UNCHANGED <<ids, fetched, missed>>
    PROVE  SignsOK'
BY DEF Safe, Consistent, TypeOK, CacheOK, SignsOK

\* and when a reply is read, with its value or without.
LEMMA SignsLearned ==
    ASSUME Safe, NEW c \in Clients, NEW r, r.vals \in [Keys -> Nat],
           ids' = Remembered(c, r),
           \/ /\ fetched' = [fetched EXCEPT ![c] = Learned(c, @, r)]
              /\ missed' = [missed EXCEPT ![c] = @ \ Signed(c, r)]
           \/ /\ fetched' = fetched
              /\ missed' = [missed EXCEPT ![c] = @ \cup Signed(c, r)]
    PROVE  SignsOK'
<1>1. /\ ids \in [Clients -> [Keys -> Nat]] /\ fetched \in [Clients -> [Keys -> Nat]]
      /\ missed \in [Clients -> SUBSET Keys] /\ CacheOK
    BY DEF Safe, Consistent, TypeOK
<1>2. PICK signs : signs = Signed(c, r)
    OBVIOUS
<1>3. signs \in SUBSET Keys
    BY <1>2 DEF Signed
<1>4. \A known \in [Keys -> Nat] :
         /\ Learned(c, known, r) \in [Keys -> Nat]
         /\ \A k \in Keys : Learned(c, known, r)[k] = IF k \in signs THEN r.vals[k] ELSE known[k]
    BY <1>2 DEF Learned
<1>5. PICK i, f : i = Learned(c, ids[c], r) /\ f = Learned(c, fetched[c], r)
    OBVIOUS
<1>6. /\ i \in [Keys -> Nat] /\ f \in [Keys -> Nat]
      /\ \A k \in Keys : i[k] = IF k \in signs THEN r.vals[k] ELSE ids[c][k]
      /\ \A k \in Keys : f[k] = IF k \in signs THEN r.vals[k] ELSE fetched[c][k]
    BY <1>1, <1>4, <1>5
<1>7. ids' = IF CacheCas THEN [ids EXCEPT ![c] = i] ELSE ids
    BY <1>1, <1>5 DEF Remembered
<1>8. ids' \in [Clients -> [Keys -> Nat]]
    BY <1>1, <1>6, <1>7, BoundsAssumption
<1>9. CASE /\ fetched' = [fetched EXCEPT ![c] = f]
           /\ missed' = [missed EXCEPT ![c] = @ \ signs]
    <2>1. fetched' \in [Clients -> [Keys -> Nat]] /\ missed' \in [Clients -> SUBSET Keys]
        BY <1>1, <1>6, <1>9
    <2>2. CacheOK'
        <3>1. SUFFICES ASSUME NEW d \in Clients, NEW k \in Keys
                       PROVE  IF CacheCas THEN k \in missed'[d] \/ ids'[d][k] = fetched'[d][k]
                              ELSE ids'[d][k] = 0
            BY DEF CacheOK
        <3>2. IF CacheCas THEN k \in missed[d] \/ ids[d][k] = fetched[d][k]
              ELSE ids[d][k] = 0
            BY <1>1 DEF CacheOK
        <3>3. CASE d # c
            BY <1>1, <1>7, <1>9, <3>2, <3>3, BoundsAssumption
        <3>4. CASE d = c
            <4>1. /\ missed'[c] = missed[c] \ signs /\ fetched'[c] = f
                  /\ ids'[c] = IF CacheCas THEN i ELSE ids[c]
                BY <1>1, <1>6, <1>7, <1>9, BoundsAssumption
            <4>2. i[k] = IF k \in signs THEN r.vals[k] ELSE ids[c][k]
                BY <1>6
            <4>3. f[k] = IF k \in signs THEN r.vals[k] ELSE fetched[c][k]
                BY <1>6
            <4>4. CASE CacheCas
                BY <3>2, <3>4, <4>1, <4>2, <4>3, <4>4
            <4>5. CASE ~CacheCas
                BY <3>2, <3>4, <4>1, <4>5
            <4> QED BY <4>4, <4>5
        <3> QED BY <3>3, <3>4
    <2> QED
        BY <1>8, <2>1, <2>2 DEF SignsOK
<1>10. CASE /\ fetched' = fetched
            /\ missed' = [missed EXCEPT ![c] = @ \cup signs]
    <2>1. fetched' \in [Clients -> [Keys -> Nat]] /\ missed' \in [Clients -> SUBSET Keys]
        BY <1>1, <1>3, <1>10
    <2>2. CacheOK'
        BY <1>1, <1>6, <1>7, <1>10, BoundsAssumption DEF CacheOK
    <2> QED
        BY <1>8, <2>1, <2>2 DEF SignsOK
<1>11. [fetched EXCEPT ![c] = Learned(c, @, r)] = [fetched EXCEPT ![c] = f]
    BY <1>1, <1>5
<1> QED
    BY <1>2, <1>9, <1>10, <1>11

\* Between two calls.
LEMMA IdleOK ==
    ASSUME NEW c \in Clients, run'[c].id = 0, run'[c].want = << >>,
           conn'[c].req = << >>, conn'[c].rep = << >>,
           ~sock'[c] => conn'[c] = Fresh
    PROVE  ClientOK(c)'
<1>1. RunOK(c)'
    BY DEF RunOK
<1>2. ConnOK(c)'
    BY DEF ConnOK, OneCalls, Unserved, Fresh
<1>3. InStep(c)'
    BY DEF InStep, Awaiting
<1>4. RepliesOK(c)'
    BY DEF RepliesOK
<1> QED
    BY <1>1, <1>2, <1>3, <1>4 DEF ClientOK

\* A call that is over as soon as it is made.
LEMMA OverAtOnce ==
    ASSUME Safe, NEW c \in Clients, ~Awaiting(c), NEW call \in Calls[c],
           NEW ret \in {"no", "none", "zero", "list", "yes"}, NEW bad \in SUBSET Keys,
           ret = "yes" => call.op = "delete_multi",
           calls' = Append(calls, Made(c, call, ret, bad)),
           UNCHANGED <<server, effects, store, run, ids, fetched, missed, late>>,
           conn' \in [Clients -> Sockets], conn'[c] \in {conn[c], Fresh},
           sock' \in [Clients -> BOOLEAN], ~sock'[c] => conn'[c] = Fresh,
           dead' \in [Clients -> BOOLEAN],
           \A d \in Clients \ {c} : conn'[d] = conn[d] /\ sock'[d] = sock[d]
    PROVE  Safe'
<1>1. /\ KeepsCalls
      /\ Len(calls') = Len(calls) + 1
      /\ calls'[Len(calls) + 1] = Made(c, call, ret, bad)
      /\ \A i \in 1..Len(calls) : calls'[i] = calls[i]
      /\ CallsOK' /\ AnswersTrue' /\ ReadsOwnWrites'
    BY CallMade DEF Results
<1>2. EffectsOK' /\ StoreOK' /\ AtMostOnce'
    BY <1>1, HistoryKept
<1>3. OnlyClient(c)
    <2>1. \A i \in 1..Len(calls') : i > Len(calls) => i = Len(calls) + 1
        BY <1>1, Types
    <2> QED
        BY <1>1, <2>1 DEF OnlyClient, Made
<1>4. ASSUME NEW d \in Clients PROVE ClientOK(d)'
    <2>1. CASE d = c
        <3>1. run[c].id = 0 /\ run[c].want = << >> /\ conn[c].req = << >> /\ conn[c].rep = << >>
            BY NothingUnderWay
        <3>2. conn'[c].req = << >> /\ conn'[c].rep = << >>
            BY <3>1 DEF Fresh
        <3> QED
            BY <2>1, <3>1, <3>2, IdleOK
    <2>2. CASE d # c
        BY <1>1, <1>3, <2>2, OthersKept
    <2> QED BY <2>1, <2>2
<1>5. LateOK'
    BY <1>1, <1>3, LateKept
<1>6. TypeOK'
    BY <1>1 DEF Safe, Consistent, TypeOK, KeepsCalls
<1>7. CacheOK'
    BY DEF Safe, Consistent, CacheOK
<1> QED
    BY <1>1, <1>2, <1>4, <1>5, <1>6, <1>7 DEF Safe, Consistent

\* The calls that never begin.
LEMMA StartFailedSafe ==
    ASSUME Safe, NEW c \in Clients, NEW call \in Calls[c],
           \/ StartRefused(c, call) \/ StartTooBig(c, call)
           \/ StartUnsent(c, call) \/ DisconnectAll(c, call)
    PROVE  Safe'
<1>1. /\ conn \in [Clients -> Sockets] /\ sock \in [Clients -> BOOLEAN]
      /\ dead \in [Clients -> BOOLEAN]
      /\ ~sock[c] => conn[c] = Fresh
    BY DEF Safe, Consistent, TypeOK, ClientOK, ConnOK
<1>2. Range(call.keys) \in SUBSET Keys /\ {} \in SUBSET Keys
    BY CallFacts DEF Range
<1>3. ~Awaiting(c)
    BY DEF StartRefused, StartTooBig, StartUnsent, DisconnectAll, Begin
<1>4. Abandoned(c) = late
    BY <1>3, NothingUnderWay DEF Abandoned
<1> DEFINE left == IF call.op = "set_multi" THEN Range(call.keys) ELSE {}
<1>5. left \in SUBSET Keys
    BY <1>2
<1> HIDE DEF left
<1>6. CASE StartRefused(c, call)
    <2>1. call.op \in Setting \cup Fetching \cup Multi \cup {"delete", "incr"}
        BY <1>6, CallFacts DEF StartRefused
    <2>2. calls' = Append(calls, Made(c, call, Refused(call.op), left))
        BY <1>6 DEF StartRefused, left
    <2>3. /\ UNCHANGED <<server, effects, store, run, ids, fetched, missed, late, conn, sock>>
          /\ dead' \in [Clients -> BOOLEAN]
        BY <1>1, <1>6 DEF StartRefused
    <2> QED
        BY <1>1, <1>3, <1>5, <2>1, <2>2, <2>3, Outcomes, OverAtOnce
<1>7. CASE StartTooBig(c, call)
    <2>1. /\ calls' = Append(calls, Made(c, call, "no", {}))
          /\ UNCHANGED <<server, effects, store, run, ids, fetched, missed, late, dead>>
          /\ sock' = [sock EXCEPT ![c] = TRUE]
          /\ conn' = [conn EXCEPT ![c] = IF sock[c] THEN @ ELSE Fresh]
        BY <1>7 DEF StartTooBig
    <2>2. conn' \in [Clients -> Sockets] /\ conn'[c] \in {conn[c], Fresh}
        BY <1>1, <2>1, FreshSocket
    <2> QED
        BY <1>1, <1>2, <1>3, <2>1, <2>2, OverAtOnce
<1>8. CASE StartUnsent(c, call)
    <2>1. call.op \in Setting \cup Fetching \cup Multi \cup {"delete", "incr"}
        BY <1>8, CallFacts DEF StartUnsent, CanConnect
    <2>2. /\ calls' = Append(calls, Made(c, call, Broken(call.op), left))
          /\ UNCHANGED <<server, effects, store, run, ids, fetched, missed, late>>
          /\ sock' = [sock EXCEPT ![c] = FALSE]
          /\ conn' = [conn EXCEPT ![c] = Fresh]
          /\ dead' = [dead EXCEPT ![c] = TRUE]
        BY <1>4, <1>8 DEF StartUnsent, MarkDead, left
    <2>3. conn' \in [Clients -> Sockets] /\ conn'[c] = Fresh
        BY <1>1, <2>2, FreshSocket
    <2> QED
        BY <1>1, <1>3, <1>5, <2>1, <2>2, <2>3, Outcomes, OverAtOnce, ZenonT(60)
<1>9. CASE DisconnectAll(c, call)
    <2>1. /\ calls' = Append(calls, Made(c, call, "none", {}))
          /\ UNCHANGED <<server, effects, store, run, ids, fetched, missed, late, dead>>
          /\ sock' = [sock EXCEPT ![c] = FALSE]
          /\ conn' = [conn EXCEPT ![c] = Fresh]
        BY <1>4, <1>9 DEF DisconnectAll
    <2>2. conn' \in [Clients -> Sockets] /\ conn'[c] = Fresh
        BY <1>1, <2>1, FreshSocket
    <2> QED
        BY <1>1, <1>2, <1>3, <2>1, <2>2, OverAtOnce
<1> QED
    BY <1>6, <1>7, <1>8, <1>9

\* A call that is given up: what is left of its requests is left behind.
LEMMA GivenUp ==
    ASSUME Safe, NEW c \in Clients, Awaiting(c),
           NEW ret \in {"no", "none", "list", "raised"}, NEW bad \in SUBSET Keys,
           Return(c, ret, bad, NoKeys),
           UNCHANGED <<server, effects, store>>, SignsOK',
           conn' = [conn EXCEPT ![c] = Fresh], sock' = [sock EXCEPT ![c] = FALSE],
           dead' \in [Clients -> BOOLEAN], late' = Abandoned(c)
    PROVE  Safe'
<1> DEFINE id == run[c].id
<1>1. /\ KeepsCalls /\ Len(calls') = Len(calls)
      /\ run' = [run EXCEPT ![c] = Idle] /\ run' \in [Clients -> Runs]
      /\ \A i \in 1..Len(calls) : calls'[i] = calls[i] \/ i = id
      /\ calls'[id].ret = ret
      /\ CallsOK' /\ AnswersTrue' /\ ReadsOwnWrites'
    <2>1. NoKeys \in [Keys -> Nat] /\ ret \in Results \ {"pending"}
        BY DEF NoKeys, Results
    <2> QED
        BY <2>1, CallReturned
<1>2. EffectsOK' /\ StoreOK' /\ AtMostOnce'
    BY <1>1, HistoryKept
<1>3. /\ conn \in [Clients -> Sockets] /\ sock \in [Clients -> BOOLEAN] /\ run \in [Clients -> Runs]
    BY DEF Safe, Consistent, TypeOK
<1>4. /\ run'[c] = Idle /\ conn'[c] = Fresh /\ sock'[c] = FALSE
      /\ conn' \in [Clients -> Sockets] /\ sock' \in [Clients -> BOOLEAN]
      /\ \A d \in Clients \ {c} : run'[d] = run[d] /\ conn'[d] = conn[d] /\ sock'[d] = sock[d]
    BY <1>1, <1>3, FreshSocket
<1>5. OnlyClient(c)
    BY <1>1, <1>4, Types DEF OnlyClient, Idle
<1>6. ASSUME NEW d \in Clients PROVE ClientOK(d)'
    <2>1. CASE d = c
        BY <1>4, <2>1, IdleOK DEF Idle, Fresh
    <2>2. CASE d # c
        BY <1>1, <1>5, <2>2, OthersKept
    <2> QED BY <2>1, <2>2
<1>7. ClientOK(c) /\ id # 0 /\ id \in 1..Len(calls) /\ calls[id].by = c
    BY DEF Safe, Consistent, ClientOK, RunOK, Awaiting
<1>8. PICK mine, n : mine = conn[c].req /\ n = id
    OBVIOUS
<1>9. mine \in Seq(Requests) /\ OneCalls(mine, n) /\ Unserved(mine)
    BY <1>7, <1>8, Types DEF ClientOK, ConnOK
<1>10. OneCalls(mine, n)' /\ Unserved(mine)'
    BY <1>1, <1>9, OneCallsKept, UnservedKept
<1>11. late' = late \/ (mine # << >> /\ late' = late \cup {mine})
    BY <1>8 DEF Abandoned
<1>12. mine # << >> => Head(mine).id = n
    BY <1>9 DEF OneCalls
<1>13. LateOK'
    <2>1. ASSUME NEW reqs \in late
          PROVE  LET m == Head(reqs).id IN
                 /\ OneCalls(reqs, m)' /\ Unserved(reqs)'
                 /\ calls'[m].ret \notin {"yes", "number"}
                 /\ \A d \in Clients : run'[d].id # m
                 /\ m # n
        <3> DEFINE m == Head(reqs).id
        <3>1. /\ OneCalls(reqs, m) /\ Unserved(reqs)
              /\ calls[m].ret \notin {"yes", "number"}
              /\ \A d \in Clients : run[d].id # m
            BY DEF Safe, Consistent, LateOK
        <3>2. reqs \in Seq(Requests) /\ reqs # << >>
            BY DEF Safe, Consistent, TypeOK
        <3>3. m \in 1..Len(calls)
            BY <3>1, <3>2 DEF OneCalls, Genuine
        <3>4. OneCalls(reqs, m)' /\ Unserved(reqs)'
            BY <1>1, <3>1, OneCallsKept, UnservedKept
        <3>5. m # n /\ calls'[m] = calls[m]
            BY <1>1, <1>8, <3>1, <3>3
        <3>6. \A d \in Clients : run'[d].id # m
            BY <1>1, <1>3, <3>1, <3>3 DEF Idle
        <3> QED
            BY <3>1, <3>4, <3>5, <3>6
    <2>2. \A r, s \in late : Head(r).id = Head(s).id => r = s
        BY DEF Safe, Consistent, LateOK
    <2>3. calls'[n].ret \notin {"yes", "number"}
        BY <1>1, <1>8
    <2>4. ASSUME NEW d \in Clients PROVE run'[d].id # n
        <3>1. CASE d = c
            BY <1>4, <1>7, <1>8, <3>1 DEF Idle
        <3>2. CASE d # c
            <4>1. run'[d] = run[d] /\ RunOK(d)
                BY <1>4, <3>2 DEF Safe, Consistent, ClientOK
            <4> QED
                BY <1>7, <1>8, <3>2, <4>1 DEF RunOK
        <3> QED BY <3>1, <3>2
    <2>5. CASE late' = late
        BY <2>1, <2>2, <2>5 DEF LateOK
    <2>6. CASE mine # << >> /\ late' = late \cup {mine}
        <3>1. ASSUME NEW reqs \in late'
              PROVE  LET m == Head(reqs).id IN
                     /\ OneCalls(reqs, m)' /\ Unserved(reqs)'
                     /\ calls'[m].ret \notin {"yes", "number"}
                     /\ \A d \in Clients : run'[d].id # m
            BY <1>10, <1>12, <2>1, <2>3, <2>4, <2>6
        <3>2. \A r, s \in late' : Head(r).id = Head(s).id => r = s
            BY <1>12, <2>1, <2>2, <2>6
        <3> QED
            BY <3>1, <3>2 DEF LateOK
    <2> QED BY <1>11, <2>5, <2>6
<1>14. TypeOK'
    <2>1. \A reqs \in late' : reqs \in Seq(Requests) /\ reqs # << >>
        BY <1>9, <1>11 DEF Safe, Consistent, TypeOK
    <2> QED
        BY <1>1, <1>4, <2>1 DEF Safe, Consistent, TypeOK, KeepsCalls, SignsOK
<1>15. CacheOK'
    BY DEF SignsOK
<1> QED
    BY <1>1, <1>2, <1>6, <1>13, <1>14, <1>15 DEF Safe, Consistent

\* The call a client is in.
LEMMA RunningCall ==
    ASSUME Safe, NEW c \in Clients, Awaiting(c)
    PROVE  /\ TheCall(c) \in Calls[c]
           /\ TheCall(c).op \in Setting \cup Fetching \cup Multi \cup {"delete", "incr"}
           /\ run[c].id \in 1..Len(calls) /\ calls[run[c].id].by = c /\ run[c].bad \in SUBSET Keys
<1>1. RunOK(c) /\ run[c].id # 0
    BY DEF Safe, Consistent, ClientOK, Awaiting
<1>2. run[c].id \in 1..Len(calls) /\ calls[run[c].id].by = c
    BY <1>1 DEF RunOK
<1>3. TheCall(c) \in Calls[c]
    BY <1>2 DEF Safe, Consistent, CallsOK, TheCall
<1>4. run[c] \in Runs
    BY Types
<1> QED
    BY <1>1, <1>2, <1>3, <1>4, CallFacts DEF RunOK, Runs

\* The five ways to give a call up.
LEMMA GiveUpSafe ==
    ASSUME Safe, NEW c \in Clients,
           RetryRefused(c) \/ RetryEnded(c) \/ Raise(c) \/ Fail(c) \/ GiveUp(c)
    PROVE  Safe'
<1>1. Awaiting(c)
    BY DEF RetryRefused, RetryEnded, Raise, Fail, Ended, GiveUp, Partly
<1>2. Ended(c) => Abandoned(c) = late
    BY DEF Ended, Abandoned, Safe, Consistent, ClientOK, ConnOK
<1>3. Broken(TheCall(c).op) \in {"no", "none", "list"} /\ run[c].bad \in SUBSET Keys
    BY <1>1, RunningCall, Outcomes
<1>4. [dead EXCEPT ![c] = TRUE] \in [Clients -> BOOLEAN] /\ dead \in [Clients -> BOOLEAN]
    BY DEF Safe, Consistent, TypeOK
<1>5. {} \in SUBSET Keys
    OBVIOUS
<1>6. CASE RetryRefused(c)
    <2> DEFINE ret == IF TheCall(c).op \in Setting THEN "raised" ELSE "none"
    <2>1. ret \in {"no", "none", "list", "raised"}
        OBVIOUS
    <2>2. /\ Return(c, ret, {}, NoKeys) /\ UNCHANGED <<server, effects, store>> /\ SignsOK'
          /\ conn' = [conn EXCEPT ![c] = Fresh] /\ sock' = [sock EXCEPT ![c] = FALSE]
          /\ dead' \in [Clients -> BOOLEAN] /\ late' = Abandoned(c)
        BY <1>4, <1>6, NothingLearned DEF RetryRefused, MarkDead
    <2> HIDE DEF ret
    <2> QED
        BY <1>1, <1>5, <2>1, <2>2, GivenUp
<1>7. CASE RetryEnded(c)
    <2>1. /\ Return(c, Broken(TheCall(c).op), {}, NoKeys)
          /\ UNCHANGED <<server, effects, store>> /\ SignsOK'
          /\ conn' = [conn EXCEPT ![c] = Fresh] /\ sock' = [sock EXCEPT ![c] = FALSE]
          /\ dead' \in [Clients -> BOOLEAN] /\ late' = Abandoned(c)
        BY <1>4, <1>7, NothingLearned DEF RetryEnded, MarkDead
    <2> QED
        BY <1>1, <1>3, <1>5, <2>1, GivenUp
<1>8. CASE Raise(c)
    <2>1. /\ Return(c, "raised", {}, NoKeys)
          /\ UNCHANGED <<server, effects, store>> /\ SignsOK'
          /\ conn' = [conn EXCEPT ![c] = Fresh] /\ sock' = [sock EXCEPT ![c] = FALSE]
          /\ dead' \in [Clients -> BOOLEAN] /\ late' = Abandoned(c)
        BY <1>2, <1>4, <1>8, NothingLearned DEF Raise
    <2> QED
        BY <1>1, <1>5, <2>1, GivenUp
<1>9. CASE Fail(c)
    <2>1. /\ Return(c, Broken(TheCall(c).op), run[c].bad, NoKeys)
          /\ UNCHANGED <<server, effects, store>> /\ SignsOK'
          /\ conn' = [conn EXCEPT ![c] = Fresh] /\ sock' = [sock EXCEPT ![c] = FALSE]
          /\ dead' \in [Clients -> BOOLEAN] /\ late' = Abandoned(c)
        BY <1>4, <1>9, NothingLearned DEF Fail, MarkDead
    <2> QED
        BY <1>1, <1>3, <2>1, GivenUp
<1>10. CASE GiveUp(c)
    <2>1. PICK r : r = Head(conn[c].rep)
        OBVIOUS
    <2>2. r.vals \in [Keys -> Nat]
        <3>1. conn[c].rep \in Seq(Answers) /\ conn[c].rep # << >>
            BY <1>10, Types DEF GiveUp, Partly
        <3>2. r \in Answers
            BY <2>1, <3>1
        <3> QED
            BY <3>2 DEF Answers
    <2>3. SignsOK'
        BY <1>10, <2>1, <2>2, SignsLearned DEF GiveUp, Partly
    <2>4. /\ Return(c, Broken(TheCall(c).op), run[c].bad, NoKeys)
          /\ UNCHANGED <<server, effects, store>>
          /\ conn' = [conn EXCEPT ![c] = Fresh] /\ sock' = [sock EXCEPT ![c] = FALSE]
          /\ dead' \in [Clients -> BOOLEAN] /\ late' = Abandoned(c)
        BY <1>4, <1>10 DEF GiveUp, MarkDead
    <2> QED
        BY <1>1, <1>3, <2>3, <2>4, GivenUp
<1> QED
    BY <1>6, <1>7, <1>8, <1>9, <1>10

\* A genuine request's keys are its call's.
LEMMA GenuineKeys ==
    ASSUME Safe, NEW r \in Requests, Genuine(r)
    PROVE  /\ r.keys # << >> /\ r.keys[1] \in Keys
           /\ calls[r.id].call \in Call
           /\ calls[r.id].call.op \notin {"set_multi", "delete_multi"} =>
                 r.keys = calls[r.id].call.keys
           /\ r.op = "delete" <=> calls[r.id].call.op \in {"delete", "delete_multi"}
           /\ r.op \in Fetching <=> calls[r.id].call.op \in Fetching \cup {"get_multi"}
<1> DEFINE it == calls[r.id]
<1>1. r.id \in 1..Len(calls) /\ it \in Records
    BY Types DEF Genuine
<1>2. it.by \in Clients /\ it.call \in Calls[it.by]
    BY <1>1 DEF Records, Safe, Consistent, CallsOK
<1>3. /\ it.call \in Call /\ it.call.keys \in Seq(Keys) /\ it.call.keys # << >>
      /\ it.call.op \notin Multi => Len(it.call.keys) = 1
      /\ it.call.op \in Setting \cup Fetching \cup Multi \cup {"delete", "incr", "disconnect_all"}
    BY <1>2, CallFacts
<1>4. IF it.call.op = "get_multi" THEN r.nr = 1 /\ r.keys = it.call.keys
      ELSE r.nr \in 1..Len(it.call.keys) /\ r.keys = <<it.call.keys[r.nr]>>
    BY DEF Genuine
<1>5. r.keys # << >> /\ r.keys[1] \in Keys
    <2>1. CASE it.call.op = "get_multi"
        BY <1>3, <1>4, <2>1
    <2>2. CASE it.call.op # "get_multi"
        <3>1. it.call.keys[r.nr] \in Keys
            BY <1>3, <1>4, <2>2
        <3>2. PICK k \in Keys : r.keys = <<k>>
            BY <1>4, <2>2, <3>1
        <3> QED
            BY <3>2
    <2> QED BY <2>1, <2>2
<1>6. ASSUME it.call.op \notin {"set_multi", "delete_multi"} PROVE r.keys = it.call.keys
    <2>1. CASE it.call.op = "get_multi"
        BY <1>4, <2>1
    <2>2. CASE it.call.op # "get_multi"
        <3>1. Len(it.call.keys) = 1
            BY <1>3, <1>6, <2>2 DEF Multi
        <3>2. it.call.keys = <<it.call.keys[1]>>
            BY <1>3, <3>1
        <3> QED
            BY <1>4, <2>2, <3>1, <3>2
    <2> QED BY <2>1, <2>2
<1>7. r.op = CASE it.call.op = "cas" -> IF it.sign # 0 THEN "cas" ELSE "set"
               [] it.call.op = "set_multi" -> "set"
               [] it.call.op = "delete_multi" -> "delete"
               [] it.call.op = "get_multi" -> "get"
               [] OTHER -> it.call.op
    BY DEF Genuine
<1>8. /\ r.op = "delete" <=> it.call.op \in {"delete", "delete_multi"}
      /\ r.op \in Fetching <=> it.call.op \in Fetching \cup {"get_multi"}
    BY <1>7 DEF Fetching
<1> QED
    BY <1>3, <1>5, <1>6, <1>8

\* The first of a call's requests, and the others.
LEMMA TailOneCalls ==
    ASSUME NEW s \in Seq(Requests), s # << >>, NEW id, OneCalls(s, id)
    PROVE  /\ OneCalls(Tail(s), id) /\ Tail(s) \in Seq(Requests)
           /\ Len(Tail(s)) = Len(s) - 1 /\ \A i \in 1..Len(Tail(s)) : Tail(s)[i] = s[i + 1]
           /\ Head(s) \in Requests /\ Genuine(Head(s)) /\ Head(s).id = id
           /\ \A i \in 1..Len(Tail(s)) : Tail(s)[i].nr > Head(s).nr
<1>1. /\ Tail(s) \in Seq(Requests) /\ Len(Tail(s)) = Len(s) - 1
      /\ \A i \in 1..Len(Tail(s)) : i + 1 \in 1..Len(s) /\ Tail(s)[i] = s[i + 1]
      /\ 1 \in 1..Len(s) /\ Head(s) = s[1] /\ s[1] \in Requests
    OBVIOUS
<1>2. ASSUME NEW i \in 1..Len(s) PROVE s[i].nr \in Nat
    <2>1. s[i] \in Requests
        OBVIOUS
    <2> QED BY <2>1 DEF Requests
<1>3. \A i \in 1..Len(Tail(s)) : s[1].nr < s[i + 1].nr
    <2>1. SUFFICES ASSUME NEW i \in 1..Len(Tail(s)) PROVE s[1].nr < s[i + 1].nr
        OBVIOUS
    <2>2. 1 \in 1..Len(s) /\ i + 1 \in 1..Len(s) /\ 1 < i + 1
        BY <1>1
    <2> QED
        BY <2>2 DEF OneCalls
<1>4. ASSUME NEW i \in 1..Len(Tail(s)), NEW j \in 1..Len(Tail(s)), i < j
      PROVE  Tail(s)[i].nr < Tail(s)[j].nr
    <2>1. i + 1 \in 1..Len(s) /\ j + 1 \in 1..Len(s) /\ i + 1 < j + 1
        BY <1>1, <1>4
    <2> QED
        BY <1>1, <2>1 DEF OneCalls
<1>5. OneCalls(Tail(s), id)
    BY <1>1, <1>4 DEF OneCalls
<1>6. Genuine(Head(s)) /\ Head(s).id = id
    BY <1>1 DEF OneCalls
<1> QED
    BY <1>1, <1>2, <1>3, <1>5, <1>6

\* What a reply lets a call return.
LEMMA AnswerTrue ==
    ASSUME Safe, NEW c \in Clients, Awaiting(c), NEW p \in Answers, Truthful(c, p)
    PROVE  LET op == TheCall(c).op
               ret == Answered(op, p)
           IN  /\ ret \in Results \ {"pending"}
               /\ op \in {"set", "cas"} /\ ret = "yes" => Took(run[c].id) # {}
               /\ ret = "number" => Took(run[c].id) # {}
               /\ op = "delete" /\ ret = "yes" => Gone(TheCall(c).keys, calls[run[c].id].at)
               /\ ret = "values" =>
                     /\ op \in Fetching \cup {"get_multi"}
                     /\ \A k \in Range(TheCall(c).keys) : \A j \in 1..Len(calls) :
                           j < run[c].id /\ ToldSet(j, c, k) => NotOlder(j, k, p.vals[k])
<1> DEFINE op == TheCall(c).op
           ret == Answered(op, p)
           r == p.to
<1>1. r \in Requests /\ Genuine(r) /\ r.id = run[c].id /\ TheCall(c) = calls[r.id].call
    BY DEF Answers, Truthful, TheCall
<1>2. op \in Setting \cup Fetching \cup Multi \cup {"delete", "incr"}
    BY RunningCall
<1>3. /\ ret \in Results \ {"pending"}
      /\ op \in {"set", "cas"} /\ ret = "yes" => p.ans = "STORED"
      /\ ret = "number" => p.ans = "NUMBER"
      /\ ret = "values" => op \in Fetching \cup {"get_multi"}
    BY <1>2 DEF Answered, Results, Setting, Fetching, Multi
<1>4. op = "delete" => r.op = "delete" /\ r.keys = TheCall(c).keys
    BY <1>1, GenuineKeys
<1>5. op \in Fetching \cup {"get_multi"} => r.op \in Fetching /\ r.keys = TheCall(c).keys
    BY <1>1, GenuineKeys DEF Fetching
<1>6. op = "delete" => Gone(TheCall(c).keys, calls[run[c].id].at)
    BY <1>1, <1>4 DEF Truthful
<1>7. op \in Fetching \cup {"get_multi"} =>
         \A k \in Range(TheCall(c).keys) : \A j \in 1..Len(calls) :
            j < run[c].id /\ ToldSet(j, c, k) => NotOlder(j, k, p.vals[k])
    BY <1>1, <1>5 DEF Truthful
<1>8. p.ans \in {"STORED", "NUMBER"} => Took(run[c].id) # {}
    BY <1>1 DEF Truthful
<1> HIDE DEF op, ret
<1>9. /\ ret \in Results \ {"pending"}
      /\ op \in {"set", "cas"} /\ ret = "yes" => Took(run[c].id) # {}
      /\ ret = "number" => Took(run[c].id) # {}
      /\ op = "delete" /\ ret = "yes" => Gone(TheCall(c).keys, calls[run[c].id].at)
      /\ ret = "values" =>
            /\ op \in Fetching \cup {"get_multi"}
            /\ \A k \in Range(TheCall(c).keys) : \A j \in 1..Len(calls) :
                  j < run[c].id /\ ToldSet(j, c, k) => NotOlder(j, k, p.vals[k])
    BY <1>3, <1>6, <1>7, <1>8
<1> QED
    BY <1>9 DEF op, ret

\* Of two sequences with one element in all.
LEMMA OneLeft ==
    ASSUME NEW S, NEW T, NEW a \in Seq(S), NEW b \in Seq(T), a # << >>, Len(a) + Len(b) <= 1
    PROVE  Tail(a) = << >> /\ b = << >>
<1>1. Len(a) \in Nat /\ Len(b) \in Nat /\ Len(a) # 0
    OBVIOUS
<1>2. \A m, n \in Nat : m # 0 /\ m + n <= 1 => m = 1 /\ n = 0
    OBVIOUS
<1>3. Len(a) = 1 /\ Len(b) = 0
    BY <1>1, <1>2
<1>4. Tail(a) \in Seq(S) /\ Len(Tail(a)) = 0
    BY <1>3
<1>5. Tail(a) = << >>
    BY <1>4
<1>6. b = << >>
    BY <1>3
<1> QED
    BY <1>5, <1>6

\* The last reply to a call.
LEMMA ReceiveLastSafe ==
    ASSUME Safe, NEW c \in Clients, Receive(c), Len(run[c].want) = 1
    PROVE  Safe'
<1> DEFINE p == Head(conn[c].rep)
           op == TheCall(c).op
           ret == Answered(op, p)
           w == run[c].want
           bad == IF op = "set_multi" /\ p.ans # "STORED"
                  THEN run[c].bad \cup {Head(w).keys[1]} ELSE run[c].bad
<1>1. /\ Awaiting(c) /\ conn[c].rep # << >>
      /\ conn' = [conn EXCEPT ![c].rep = Tail(@)]
      /\ Return(c, ret, bad, p.vals)
      /\ fetched' = [fetched EXCEPT ![c] = Learned(c, @, p)]
      /\ missed' = [missed EXCEPT ![c] = @ \ Signed(c, p)]
      /\ ids' = Remembered(c, p)
      /\ UNCHANGED <<server, store, late, sock, dead, troubles, effects>>
    BY DEF Receive
<1>2. /\ conn[c].rep \in Seq(Answers) /\ conn[c].req \in Seq(Requests) /\ conn[c] \in Sockets
      /\ conn \in [Clients -> Sockets]
    BY Types DEF Safe, Consistent, TypeOK
<1>3. ClientOK(c) /\ run[c].id # 0 /\ sock[c]
    BY <1>1 DEF Safe, Consistent, ClientOK, RunOK, Awaiting
<1>4. p \in Answers /\ Truthful(c, p)
    <2>1. p = conn[c].rep[1] /\ 1 \in 1..Len(conn[c].rep) /\ p \in Answers
        BY <1>1, <1>2
    <2> QED
        BY <1>3, <2>1 DEF ClientOK, RepliesOK
<1>5. bad \in SUBSET Keys
    <2>1. w \in Seq(Requests) /\ w # << >> /\ OneCalls(w, run[c].id)
        BY <1>3, Types DEF ClientOK, RunOK
    <2>2. Head(w) \in Requests /\ Genuine(Head(w))
        BY <2>1, TailOneCalls
    <2>3. Head(w).keys[1] \in Keys
        BY <2>2, GenuineKeys
    <2> QED
        BY <1>1, <2>3, RunningCall
<1>6. p.vals \in [Keys -> Nat]
    BY <1>4 DEF Answers
<1> HIDE DEF bad, w
<1>7. /\ KeepsCalls /\ Len(calls') = Len(calls)
      /\ run' = [run EXCEPT ![c] = Idle] /\ run' \in [Clients -> Runs]
      /\ \A i \in 1..Len(calls) : calls'[i] = calls[i] \/ i = run[c].id
      /\ CallsOK' /\ AnswersTrue' /\ ReadsOwnWrites'
    <2>1. /\ ret \in Results \ {"pending"}
          /\ op \in {"set", "cas"} /\ ret = "yes" => Took(run[c].id) # {}
          /\ ret = "number" => Took(run[c].id) # {}
          /\ op = "delete" /\ ret = "yes" => Gone(TheCall(c).keys, calls[run[c].id].at)
          /\ ret = "values" =>
                /\ op \in Fetching \cup {"get_multi"}
                /\ \A k \in Range(TheCall(c).keys) : \A j \in 1..Len(calls) :
                      j < run[c].id /\ ToldSet(j, c, k) => NotOlder(j, k, p.vals[k])
        BY <1>1, <1>4, AnswerTrue
    <2> HIDE DEF ret, p
    <2> QED
        BY <1>1, <1>5, <1>6, <2>1, CallReturned
<1>8. EffectsOK' /\ StoreOK' /\ AtMostOnce'
    BY <1>1, <1>7, HistoryKept
<1>9. conn'[c].req = << >> /\ conn'[c].rep = << >>
    <2>1. Len(conn[c].rep) + Len(conn[c].req) <= 1
        BY <1>1, <1>3 DEF ClientOK, InStep
    <2>3. Tail(conn[c].rep) = << >> /\ conn[c].req = << >>
        BY <1>1, <1>2, <2>1, OneLeft
    <2>4. conn'[c] = [conn[c] EXCEPT !.rep = Tail(conn[c].rep)]
        BY <1>1, <1>2
    <2> QED
        BY <1>2, <2>3, <2>4 DEF Sockets
<1>10. conn' \in [Clients -> Sockets]
    <2>1. Tail(conn[c].rep) \in Seq(Answers)
        BY <1>1, <1>2
    <2>2. [conn[c] EXCEPT !.rep = Tail(conn[c].rep)] \in Sockets
        BY <1>2, <2>1 DEF Sockets
    <2> QED
        BY <1>1, <1>2, <2>2
<1>11. run'[c] = Idle /\ \A d \in Clients \ {c} : run'[d] = run[d] /\ conn'[d] = conn[d]
    BY <1>1, <1>2, <1>7 DEF Safe, Consistent, TypeOK
<1>12. OnlyClient(c)
    BY <1>1, <1>7, <1>11, Types DEF OnlyClient, Idle
<1>13. ASSUME NEW d \in Clients PROVE ClientOK(d)'
    <2>1. CASE d = c
        BY <1>1, <1>3, <1>9, <1>11, <2>1, IdleOK DEF Idle
    <2>2. CASE d # c
        BY <1>1, <1>7, <1>12, <2>2, OthersKept
    <2> QED BY <2>1, <2>2
<1>14. LateOK'
    BY <1>1, <1>7, <1>12, LateKept
<1>15. SignsOK'
    <2> HIDE DEF p
    <2> QED
        BY <1>1, <1>6, SignsLearned
<1>16. TypeOK' /\ CacheOK'
    BY <1>1, <1>7, <1>10, <1>15 DEF Safe, Consistent, TypeOK, KeepsCalls, SignsOK
<1> QED
    BY <1>7, <1>8, <1>13, <1>14, <1>16 DEF Safe, Consistent

\* Steps that leave the store and the calls alone.
LEMMA QuietStep ==
    ASSUME Safe, UNCHANGED <<calls, effects, store>>, TypeOK', CacheOK', late' \subseteq late,
           \A c \in Clients : run'[c].id = run[c].id /\ ClientOK(c)'
    PROVE  Safe'
<1>1. KeepsCalls /\ AnswersTrue' /\ ReadsOwnWrites' /\ CallsOK'
    BY CallsQuiet
<1>2. EffectsOK' /\ StoreOK' /\ AtMostOnce'
    BY <1>1, HistoryKept
<1>3. LateOK'
    <2>1. ASSUME NEW reqs \in late
          PROVE  LET id == Head(reqs).id IN
                 /\ OneCalls(reqs, id)' /\ Unserved(reqs)'
                 /\ calls[id].ret \notin {"yes", "number"}
                 /\ \A c \in Clients : run'[c].id # id
        <3>1. LET id == Head(reqs).id IN
              /\ OneCalls(reqs, id) /\ Unserved(reqs)
              /\ calls[id].ret \notin {"yes", "number"}
              /\ \A c \in Clients : run[c].id # id
            BY DEF Safe, Consistent, LateOK
        <3> QED
            BY <1>1, <3>1, OneCallsKept, UnservedKept
    <2>2. \A r, s \in late : Head(r).id = Head(s).id => r = s
        BY DEF Safe, Consistent, LateOK
    <2> QED
        BY <2>1, <2>2 DEF LateOK
<1> QED
    BY <1>1, <1>2, <1>3 DEF Safe, Consistent

\* A reply that is not the last.
LEMMA ReceiveSomeSafe ==
    ASSUME Safe, NEW c \in Clients, Receive(c), Len(run[c].want) # 1
    PROVE  Safe'
<1> DEFINE p == Head(conn[c].rep)
           op == TheCall(c).op
           bad == IF op = "set_multi" /\ p.ans # "STORED"
                  THEN run[c].bad \cup {Head(run[c].want).keys[1]} ELSE run[c].bad
<1>1. /\ Awaiting(c) /\ conn[c].rep # << >>
      /\ conn' = [conn EXCEPT ![c].rep = Tail(@)]
      /\ run' = [run EXCEPT ![c].want = Tail(run[c].want), ![c].bad = bad]
      /\ fetched' = [fetched EXCEPT ![c] = Learned(c, @, p)]
      /\ missed' = [missed EXCEPT ![c] = @ \ Signed(c, p)]
      /\ ids' = Remembered(c, p)
      /\ UNCHANGED <<server, store, late, sock, dead, troubles, effects, calls>>
    BY DEF Receive
<1>2. PICK rep, req, w, id :
         /\ rep = conn[c].rep /\ req = conn[c].req /\ w = run[c].want /\ id = run[c].id
    OBVIOUS
<1>3. /\ rep \in Seq(Answers) /\ req \in Seq(Requests) /\ w \in Seq(Requests)
      /\ conn \in [Clients -> Sockets] /\ run \in [Clients -> Runs]
      /\ conn[c] \in Sockets /\ run[c] \in Runs
    BY <1>2, Types DEF Safe, Consistent, TypeOK
<1>4. /\ RunOK(c) /\ ConnOK(c) /\ InStep(c) /\ RepliesOK(c) /\ id # 0
      /\ w # << >> /\ OneCalls(w, id)
    BY <1>1, <1>2 DEF Safe, Consistent, ClientOK, RunOK, Awaiting
<1>5. KeepsCalls
    BY <1>1, CallsQuiet
<1>6. p \in Answers /\ Truthful(c, p)
    <2>1. p = conn[c].rep[1] /\ 1 \in 1..Len(conn[c].rep) /\ p \in Answers
        BY <1>1, <1>2, <1>3
    <2> QED
        BY <1>4, <2>1 DEF RepliesOK
<1>7. bad \in SUBSET Keys
    <2>1. Head(w) \in Requests /\ Genuine(Head(w))
        BY <1>3, <1>4, TailOneCalls
    <2>2. Head(w).keys[1] \in Keys
        BY <2>1, GenuineKeys
    <2> QED
        BY <1>1, <1>2, <2>2, RunningCall
<1> HIDE DEF bad
<1>8. /\ OneCalls(Tail(w), id) /\ Tail(w) \in Seq(Requests) /\ Len(Tail(w)) = Len(w) - 1
      /\ \A i \in 1..Len(Tail(w)) : Tail(w)[i] = w[i + 1]
      /\ Tail(w) # << >>
    <2>1. Len(w) \in Nat /\ Len(w) # 0 /\ Len(w) # 1
        BY <1>2, <1>3, <1>4
    <2>2. /\ OneCalls(Tail(w), id) /\ Tail(w) \in Seq(Requests) /\ Len(Tail(w)) = Len(w) - 1
          /\ \A i \in 1..Len(Tail(w)) : Tail(w)[i] = w[i + 1]
        BY <1>3, <1>4, TailOneCalls
    <2>3. Len(Tail(w)) # 0
        BY <2>1, <2>2
    <2>4. ASSUME Tail(w) = << >> PROVE FALSE
        <3>1. Len(<< >>) = 0
            OBVIOUS
        <3> QED BY <2>3, <2>4, <3>1
    <2> QED
        BY <2>2, <2>4
<1>9. /\ run' \in [Clients -> Runs] /\ run'[c].id = id /\ run'[c].want = Tail(w)
      /\ conn' \in [Clients -> Sockets] /\ conn'[c].rep = Tail(rep) /\ conn'[c].req = req
      /\ conn'[c].end = conn[c].end
      /\ \A d \in Clients \ {c} : run'[d] = run[d] /\ conn'[d] = conn[d]
    <2>1. Tail(rep) \in Seq(Answers)
        BY <1>1, <1>2, <1>3
    <2>2. conn'[c] = [conn[c] EXCEPT !.rep = Tail(rep)] /\ conn' = [conn EXCEPT ![c] = conn'[c]]
        BY <1>1, <1>2, <1>3
    <2>3. conn'[c] \in Sockets /\ conn'[c].rep = Tail(rep) /\ conn'[c].req = req
          /\ conn'[c].end = conn[c].end
        BY <1>2, <1>3, <2>1, <2>2 DEF Sockets
    <2>4. run'[c] = [run[c] EXCEPT !.want = Tail(w), !.bad = bad] /\ run' = [run EXCEPT ![c] = run'[c]]
        BY <1>1, <1>2, <1>3
    <2>5. run'[c] \in Runs /\ run'[c].id = id /\ run'[c].want = Tail(w)
        BY <1>2, <1>3, <1>7, <1>8, <2>4 DEF Runs
    <2> QED
        BY <1>3, <2>2, <2>3, <2>4, <2>5
<1>10. OnlyClient(c)
    BY <1>1, <1>2, <1>9 DEF OnlyClient
<1>11. RunOK(c)'
    <2>1. OneCalls(Tail(w), id)'
        BY <1>5, <1>8, OneCallsKept
    <2>2. OneCalls(run[c].want, run[c].id)'
        BY <1>9, <2>1
    <2> QED
        BY <1>1, <1>2, <1>4, <1>8, <1>9, <2>2 DEF RunOK, TheCall
<1>12. ConnOK(c)'
    <2>1. OneCalls(req, id) /\ Unserved(req)
        BY <1>2, <1>4 DEF ConnOK
    <2>2. OneCalls(req, id)' /\ Unserved(req)'
        BY <1>1, <1>5, <2>1, OneCallsKept, UnservedKept
    <2>3. OneCalls(conn[c].req, run[c].id)' /\ Unserved(conn[c].req)'
        BY <1>9, <2>2
    <2>4. sock[c]
        BY <1>2, <1>4 DEF RunOK
    <2> QED
        BY <1>1, <1>2, <1>4, <1>9, <2>3, <2>4 DEF ConnOK
<1>13. Len(rep) \in Nat \ {0} /\ Len(req) \in Nat /\ Len(w) \in Nat /\ Len(Tail(rep)) = Len(rep) - 1
       /\ \A i \in 1..Len(Tail(rep)) : i + 1 \in 1..Len(rep) /\ Tail(rep)[i] = rep[i + 1]
    BY <1>1, <1>2, <1>3
<1>14. InStep(c)'
    <2>1. Len(rep) + Len(req) <= Len(w)
        BY <1>1, <1>2, <1>4 DEF InStep
    <2>2. \A l, m, n \in Nat : l + m <= n => l - 1 + m <= n - 1
        OBVIOUS
    <2>3. Len(Tail(rep)) + Len(req) <= Len(Tail(w))
        BY <1>8, <1>13, <2>1, <2>2
    <2>4. ASSUME TheCall(c).big = {}
          PROVE  /\ \A i \in 1..Len(Tail(rep)) : Tail(rep)[i].to = Tail(w)[i]
                 /\ \A i \in 1..Len(req) : req[i] = Tail(w)[Len(Tail(rep)) + i]
        <3>1. /\ \A i \in 1..Len(rep) : rep[i].to = w[i]
              /\ \A i \in 1..Len(req) : req[i] = w[Len(rep) + i]
            BY <1>1, <1>2, <1>4, <2>4 DEF InStep
        <3>2. ASSUME NEW i \in 1..Len(Tail(rep)) PROVE Tail(rep)[i].to = Tail(w)[i]
            <4>1. \A l, m, n \in Nat : i <= l - 1 /\ l + m <= n => i <= n - 1
                OBVIOUS
            <4>2. i \in 1..Len(Tail(w))
                BY <1>8, <1>13, <2>1, <4>1
            <4> QED
                BY <1>8, <1>13, <3>1, <4>2
        <3>3. ASSUME NEW i \in 1..Len(req) PROVE req[i] = Tail(w)[Len(Tail(rep)) + i]
            <4>1. \A l \in Nat \ {0} : \A m, n \in Nat : i <= m /\ l + m <= n =>
                     l - 1 + i \in 1..(n - 1) /\ l - 1 + i + 1 = l + i
                OBVIOUS
            <4>2. Len(Tail(rep)) + i \in 1..Len(Tail(w)) /\ Len(Tail(rep)) + i + 1 = Len(rep) + i
                BY <1>8, <1>13, <2>1, <4>1
            <4> QED
                BY <1>8, <3>1, <4>2
        <3> QED BY <3>2, <3>3
    <2>5. TheCall(c)' = TheCall(c) /\ Awaiting(c)'
        BY <1>1, <1>2, <1>4, <1>9 DEF TheCall, Awaiting
    <2> QED
        BY <1>9, <2>3, <2>4, <2>5 DEF InStep
<1>15. RepliesOK(c)'
    <2>1. SUFFICES ASSUME NEW i \in 1..Len(Tail(rep)) PROVE Truthful(c, Tail(rep)[i])'
        BY <1>9 DEF RepliesOK
    <2>2. Tail(rep)[i] \in Answers /\ Truthful(c, Tail(rep)[i])
        BY <1>2, <1>3, <1>4, <1>13 DEF RepliesOK
    <2>3. \A j \in 1..Len(calls) : \A k : j < run[c].id /\ ToldSet(j, c, k)' => ToldSet(j, c, k)
        BY <1>1 DEF ToldSet
    <2>4. KeepsEffects /\ MovesOn /\ store' \in [Keys -> Nat] /\ CallsOK
        BY <1>1, <1>5, HistoryKept, Types DEF Safe, Consistent
    <2> QED
        BY <1>2, <1>5, <1>9, <2>2, <2>3, <2>4, TruthfulKept
<1>16. ASSUME NEW d \in Clients PROVE run'[d].id = run[d].id /\ ClientOK(d)'
    <2>1. CASE d = c
        BY <1>2, <1>9, <1>11, <1>12, <1>14, <1>15, <2>1 DEF ClientOK
    <2>2. CASE d # c
        BY <1>1, <1>5, <1>9, <1>10, <2>2, OthersKept
    <2> QED BY <2>1, <2>2
<1>17. SignsOK'
    <2>1. p.vals \in [Keys -> Nat]
        BY <1>6 DEF Answers
    <2> HIDE DEF p
    <2> QED
        BY <1>1, <2>1, SignsLearned
<1>18. TypeOK' /\ CacheOK'
    BY <1>1, <1>9, <1>17 DEF Safe, Consistent, TypeOK, SignsOK
<1> QED
    BY <1>1, <1>16, <1>18, QuietStep

\* The rest of a reply is lost with the connection.
LEMMA CutShortSafe ==
    ASSUME Safe, NEW c \in Clients, CutShort(c)
    PROVE  Safe'
<1> DEFINE p == Head(conn[c].rep)
           cut == [end |-> "fin", req |-> << >>, rep |-> << >>]
<1>0. [Fresh EXCEPT !.end = "fin"] = cut
    BY DEF Fresh
<1>1. /\ Awaiting(c) /\ conn[c].rep # << >>
      /\ conn' = [conn EXCEPT ![c] = cut]
      /\ ids' = Remembered(c, p) /\ fetched' = fetched
      /\ missed' = [missed EXCEPT ![c] = @ \cup Signed(c, p)]
      /\ UNCHANGED <<server, store, late, sock, dead, run, troubles, calls, effects>>
    BY <1>0 DEF CutShort, Partly
<1>2. p.vals \in [Keys -> Nat]
    <2>1. conn[c].rep \in Seq(Answers)
        BY Types
    <2>2. p \in Answers
        BY <1>1, <2>1
    <2> QED
        BY <2>2 DEF Answers
<1>3. cut \in Sockets
    BY DEF Sockets
<1>4. /\ conn \in [Clients -> Sockets] /\ conn' \in [Clients -> Sockets] /\ conn'[c] = cut
      /\ \A d \in Clients \ {c} : run'[d] = run[d] /\ conn'[d] = conn[d]
    BY <1>1, <1>3 DEF Safe, Consistent, TypeOK
<1> HIDE DEF p
<1>5. SignsOK'
    BY <1>1, <1>2, SignsLearned
<1>6. TypeOK' /\ CacheOK'
    BY <1>1, <1>4, <1>5 DEF Safe, Consistent, TypeOK, SignsOK
<1>7. KeepsCalls
    BY <1>1, CallsQuiet
<1>8. OnlyClient(c)
    BY <1>1 DEF OnlyClient
<1>9. RunOK(c) /\ run[c].id # 0 /\ sock[c] /\ run[c].want \in Seq(Requests)
    BY <1>1, Types DEF Safe, Consistent, ClientOK, RunOK, Awaiting
<1>10. RunOK(c)'
    <2>1. OneCalls(run[c].want, run[c].id)'
        BY <1>1, <1>7, <1>9, OneCallsKept DEF RunOK
    <2> QED
        BY <1>1, <1>9, <2>1 DEF RunOK, TheCall
<1>11. ConnOK(c)' /\ InStep(c)' /\ RepliesOK(c)'
    BY <1>1, <1>4, <1>9 DEF ConnOK, OneCalls, Unserved, InStep, RepliesOK, Awaiting
<1>12. ASSUME NEW d \in Clients PROVE run'[d].id = run[d].id /\ ClientOK(d)'
    <2>1. CASE d = c
        BY <1>1, <1>10, <1>11, <2>1 DEF ClientOK
    <2>2. CASE d # c
        BY <1>1, <1>4, <1>7, <1>8, <2>2, OthersKept
    <2> QED BY <2>1, <2>2
<1> QED
    BY <1>1, <1>6, <1>12, QuietStep

\* The other try of a set or a get, on a new socket.
LEMMA RetrySafe ==
    ASSUME Safe, NEW c \in Clients, Retry(c)
    PROVE  Safe'
<1>1. /\ Awaiting(c) /\ Retryable(TheCall(c).op)
      /\ run' = [run EXCEPT ![c].retried = TRUE]
      /\ conn' = [conn EXCEPT ![c] = [Fresh EXCEPT !.req = run[c].want]]
      /\ UNCHANGED <<server, store, late, sock, dead, ids, troubles, calls, effects, fetched, missed>>
    BY DEF Retry, Ended
<1>2. PICK w, id : w = run[c].want /\ id = run[c].id
    OBVIOUS
<1>3. /\ w \in Seq(Requests) /\ run[c] \in Runs
      /\ conn \in [Clients -> Sockets] /\ run \in [Clients -> Runs]
    BY <1>2, Types DEF Safe, Consistent, TypeOK
<1>4. RunOK(c) /\ sock[c] /\ id # 0 /\ OneCalls(w, id)
    BY <1>1, <1>2 DEF Safe, Consistent, ClientOK, RunOK, Awaiting
<1>5. KeepsCalls
    BY <1>1, CallsQuiet
<1>6. /\ run'[c].id = id /\ run'[c].want = w /\ run' \in [Clients -> Runs]
      /\ conn'[c] = [end |-> "up", req |-> w, rep |-> << >>] /\ conn' \in [Clients -> Sockets]
      /\ \A d \in Clients \ {c} : run'[d] = run[d] /\ conn'[d] = conn[d]
    <2>1. [run[c] EXCEPT !.retried = TRUE] \in Runs
        BY <1>3 DEF Runs
    <2>2. run' = [run EXCEPT ![c] = [run[c] EXCEPT !.retried = TRUE]]
        BY <1>1, <1>3
    <2>3. [Fresh EXCEPT !.req = w] = [end |-> "up", req |-> w, rep |-> << >>]
        BY DEF Fresh
    <2>4. [end |-> "up", req |-> w, rep |-> << >>] \in Sockets
        BY <1>3 DEF Sockets
    <2>5. [run[c] EXCEPT !.retried = TRUE].id = id /\ [run[c] EXCEPT !.retried = TRUE].want = w
        BY <1>2, <1>3 DEF Runs
    <2> QED
        BY <1>1, <1>2, <1>3, <2>1, <2>2, <2>3, <2>4, <2>5
<1>7. OnlyClient(c)
    BY <1>1, <1>2, <1>6 DEF OnlyClient
<1>8. OneCalls(w, id)'
    BY <1>4, <1>5, OneCallsKept
<1>9. RunOK(c)'
    <2>1. OneCalls(run[c].want, run[c].id)'
        BY <1>6, <1>8
    <2> QED
        BY <1>1, <1>2, <1>4, <1>6, <2>1 DEF RunOK, TheCall
<1>10. ConnOK(c)'
    <2>1. \A i \in 1..Len(w) : Retryable(calls[w[i].id].call.op)
        BY <1>1, <1>2, <1>4 DEF OneCalls, TheCall
    <2>2. Unserved(w)'
        BY <1>1, <2>1 DEF Unserved
    <2>3. OneCalls(conn[c].req, run[c].id)' /\ Unserved(conn[c].req)'
        BY <1>6, <1>8, <2>2
    <2> QED
        BY <1>1, <1>4, <1>6, <2>3 DEF ConnOK
<1>11. InStep(c)'
    <2>1. Len(<< >>) = 0 /\ Len(w) \in Nat /\ 0 + Len(w) <= Len(w)
        BY <1>3
    <2>2. \A i \in 1..Len(w) : w[i] = w[0 + i]
        OBVIOUS
    <2>3. Awaiting(c)'
        BY <1>4, <1>6 DEF Awaiting
    <2> QED
        BY <1>6, <2>1, <2>2, <2>3 DEF InStep
<1>12. RepliesOK(c)'
    BY <1>6 DEF RepliesOK
<1>13. ASSUME NEW d \in Clients PROVE run'[d].id = run[d].id /\ ClientOK(d)'
    <2>1. CASE d = c
        BY <1>2, <1>6, <1>9, <1>10, <1>11, <1>12, <2>1 DEF ClientOK
    <2>2. CASE d # c
        BY <1>1, <1>5, <1>6, <1>7, <2>2, OthersKept
    <2> QED BY <2>1, <2>2
<1>14. TypeOK' /\ CacheOK'
    BY <1>1, <1>6 DEF Safe, Consistent, TypeOK, CacheOK
<1> QED
    BY <1>1, <1>13, <1>14, QuietStep

-----------------------------------------------------------------------------
(* Steps of the server that store nothing.                                 *)

\* The server is stopped: requests and replies are lost.
LEMMA StopSafe ==
    ASSUME Safe, Stop
    PROVE  Safe'
<1>1. PICK end \in [Clients -> {"fin", "rst"}],
           kept \in [Clients -> UNION {0..Len(conn[c].rep) : c \in Clients}] :
         /\ \A c \in Clients : kept[c] <= Len(conn[c].rep)
         /\ conn' = [c \in Clients |-> IF sock[c] THEN Stopped(conn[c], end[c], kept[c])
                                                 ELSE conn[c]]
    BY DEF Stop
<1>2. /\ UNCHANGED <<store, sock, dead, ids, run, calls, effects, fetched, missed>>
      /\ server' = "down" /\ late' = {}
    BY DEF Stop
<1>3. KeepsCalls
    BY <1>2, CallsQuiet
<1>4. ASSUME NEW c \in Clients, sock[c]
      PROVE  /\ conn'[c] \in Sockets /\ conn'[c].req = << >> /\ conn'[c].rep \in Seq(Answers)
             /\ Len(conn'[c].rep) <= Len(conn[c].rep)
             /\ \A i \in 1..Len(conn'[c].rep) : conn'[c].rep[i] = conn[c].rep[i]
    <2>1. PICK rep, n : rep = conn[c].rep /\ n = kept[c]
        OBVIOUS
    <2>2. rep \in Seq(Answers) /\ n \in Nat /\ n <= Len(rep)
        <3>1. n \in UNION {0..Len(conn[d].rep) : d \in Clients}
            BY <1>1, <2>1
        <3>2. n \in Nat
            BY <3>1
        <3> QED
            BY <1>1, <2>1, <3>2, Types
    <2>3. /\ SubSeq(rep, 1, n) \in Seq(Answers) /\ Len(SubSeq(rep, 1, n)) = n
          /\ \A i \in 1..n : SubSeq(rep, 1, n)[i] = rep[i]
        BY <2>2
    <2>4. conn'[c] = [end |-> end[c], req |-> << >>, rep |-> SubSeq(rep, 1, n)]
        BY <1>1, <1>4, <2>1 DEF Stopped
    <2>5. conn'[c] \in Sockets /\ conn'[c].req = << >> /\ conn'[c].rep = SubSeq(rep, 1, n)
        BY <2>3, <2>4 DEF Sockets
    <2> QED
        BY <2>1, <2>2, <2>3, <2>5
<1>5. ASSUME NEW c \in Clients, ~sock[c] PROVE conn'[c] = conn[c]
    BY <1>1, <1>5
<1>6. ASSUME NEW c \in Clients PROVE ClientOK(c)'
    <2>1. ClientOK(c)
        BY DEF Safe, Consistent
    <2>2. RunOK(c)'
        <3>1. CASE run[c].id = 0
            BY <1>2, <2>1, <3>1 DEF ClientOK, RunOK
        <3>2. CASE run[c].id # 0
            <4>1. OneCalls(run[c].want, run[c].id)
                BY <2>1, <3>2 DEF ClientOK, RunOK
            <4>2. OneCalls(run[c].want, run[c].id)'
                BY <1>2, <1>3, <4>1, OneCallsKept
            <4> QED
                BY <1>2, <2>1, <3>2, <4>2 DEF ClientOK, RunOK, TheCall
        <3> QED BY <3>1, <3>2
    <2>3. \/ conn'[c] = conn[c] /\ conn[c] = Fresh /\ ~sock[c]
          \/ sock[c] /\ conn'[c].req = << >>
        BY <1>4, <1>5, <2>1 DEF ClientOK, ConnOK
    <2>4. conn'[c].req = << >>
        BY <2>3 DEF Fresh
    <2>5. ConnOK(c)'
        BY <1>2, <2>3, <2>4 DEF ConnOK, OneCalls, Unserved
    <2>6. CASE ~sock[c]
        <3>1. ~Awaiting(c)
            BY <2>1, <2>6 DEF ClientOK, RunOK, Awaiting
        <3> QED
            BY <1>2, <2>2, <2>3, <2>4, <2>5, <2>6, <3>1, NothingUnderWay, IdleOK DEF Fresh, Awaiting
    <2>7. CASE sock[c]
        <3>1. PICK a, b, q : a = conn[c].rep /\ b = conn'[c].rep /\ q = conn[c].req
            OBVIOUS
        <3>2. /\ Len(a) \in Nat /\ Len(b) \in Nat /\ Len(q) \in Nat /\ Len(b) <= Len(a)
              /\ \A i \in 1..Len(b) : i \in 1..Len(a) /\ b[i] = a[i]
            <4>1. a \in Seq(Answers) /\ q \in Seq(Requests)
                BY <3>1, Types
            <4>2. /\ b \in Seq(Answers) /\ Len(b) <= Len(a)
                  /\ \A i \in 1..Len(b) : b[i] = a[i]
                BY <1>4, <2>7, <3>1
            <4>3. Len(a) \in Nat /\ Len(b) \in Nat /\ Len(q) \in Nat
                BY <4>1, <4>2
            <4> QED
                BY <4>2, <4>3
        <3>3. InStep(c)'
            <4>1. ~Awaiting(c) => a = << >> /\ b = << >>
                <5>1. SUFFICES ASSUME ~Awaiting(c) PROVE a = << >> /\ b = << >>
                    OBVIOUS
                <5>2. a = << >> /\ Len(a) = 0
                    BY <3>1, <5>1, NothingUnderWay
                <5>3. b \in Seq(Answers) /\ Len(b) = 0
                    BY <1>4, <2>7, <3>1, <3>2, <5>2
                <5> QED BY <5>2, <5>3
            <4>2. Awaiting(c) => Len(b) + 0 <= Len(run[c].want)
                <5>1. Awaiting(c) => Len(a) + Len(q) <= Len(run[c].want)
                    BY <2>1, <3>1 DEF ClientOK, InStep
                <5>2. Len(run[c].want) \in Nat
                    BY Types
                <5>3. \A k, l, m, n \in Nat : k + l <= n /\ m <= k => m + 0 <= n
                    OBVIOUS
                <5> QED
                    BY <3>2, <5>1, <5>2, <5>3
            <4>3. Awaiting(c) /\ TheCall(c).big = {} =>
                     \A i \in 1..Len(b) : b[i].to = run[c].want[i]
                BY <2>1, <3>1, <3>2 DEF ClientOK, InStep
            <4> QED
                BY <1>2, <2>4, <3>1, <4>1, <4>2, <4>3 DEF InStep, Awaiting, TheCall
        <3>4. RepliesOK(c)'
            <4>1. SUFFICES ASSUME NEW i \in 1..Len(b) PROVE Truthful(c, b[i])'
                BY <3>1 DEF RepliesOK
            <4>2. b[i] \in Answers /\ Truthful(c, b[i])
                <5>1. i \in 1..Len(conn[c].rep) /\ b[i] = conn[c].rep[i]
                    BY <3>1, <3>2
                <5> QED
                    BY <2>1, <5>1, Types DEF ClientOK, RepliesOK
            <4>3. \A j \in 1..Len(calls) : \A k : j < run[c].id /\ ToldSet(j, c, k)' => ToldSet(j, c, k)
                BY <1>2 DEF ToldSet
            <4>4. KeepsEffects /\ MovesOn /\ store' \in [Keys -> Nat] /\ CallsOK
                BY <1>2, <1>3, HistoryKept, Types DEF Safe, Consistent
            <4> QED
                BY <1>2, <1>3, <4>2, <4>3, <4>4, TruthfulKept
        <3> QED
            BY <2>2, <2>5, <3>3, <3>4 DEF ClientOK
    <2> QED BY <2>6, <2>7
<1>7. TypeOK'
    <2>1. conn' \in [Clients -> Sockets]
        BY <1>1, <1>4, <1>5, Types
    <2> QED
        BY <1>2, <2>1 DEF Safe, Consistent, TypeOK
<1>8. CacheOK'
    BY <1>2 DEF Safe, Consistent, CacheOK
<1> QED
    BY <1>2, <1>6, <1>7, <1>8, QuietStep

\* The clients, and what the calls and the server's effects are, stay.
LEMMA NothingNew ==
    ASSUME Safe, UNCHANGED <<store, conn, sock, ids, run, calls, effects, fetched, missed>>,
           server' \in {"up", "down"}, dead' \in [Clients -> BOOLEAN], late' \subseteq late
    PROVE  Safe'
<1>1. ASSUME NEW c \in Clients PROVE ClientOK(c)'
    <2>1. ClientOK(c)
        BY DEF Safe, Consistent
    <2>2. RunOK(c)'
        BY <2>1, ZenonT(60) DEF ClientOK, RunOK, OneCalls, Genuine, TheCall
    <2>3. ConnOK(c)'
        BY <2>1, ZenonT(60) DEF ClientOK, ConnOK, OneCalls, Genuine, Unserved
    <2>4. InStep(c)'
        BY <2>1 DEF ClientOK, InStep, Awaiting, TheCall
    <2>5. RepliesOK(c)'
        <3>1. SUFFICES ASSUME NEW i \in 1..Len(conn[c].rep) PROVE Truthful(c, conn[c].rep[i])'
            BY DEF RepliesOK
        <3>2. conn[c].rep[i] \in Answers /\ Truthful(c, conn[c].rep[i])
            BY <2>1, Types DEF ClientOK, RepliesOK
        <3>3. KeepsCalls /\ KeepsEffects /\ MovesOn /\ store' \in [Keys -> Nat] /\ CallsOK
            BY CallsQuiet, HistoryKept, Types DEF Safe, Consistent
        <3>4. \A j \in 1..Len(calls) : \A k : j < run[c].id /\ ToldSet(j, c, k)' => ToldSet(j, c, k)
            BY DEF ToldSet
        <3> QED
            BY <3>2, <3>3, <3>4, TruthfulKept
    <2> QED
        BY <2>2, <2>3, <2>4, <2>5 DEF ClientOK
<1>2. TypeOK' /\ CacheOK'
    BY DEF Safe, Consistent, TypeOK, CacheOK
<1> QED
    BY <1>1, <1>2, QuietStep

-----------------------------------------------------------------------------
(* A call that is under way.                                               *)

\* A request that is sent asks what its call asks.
LEMMA LineGenuine ==
    ASSUME Safe, NEW c \in Clients, NEW call \in Calls[c], call.op # "disconnect_all",
           NEW id, id = Len(calls) + 1, Len(calls') = id,
           calls'[id] = Made(c, call, "pending", {}),
           NEW nr \in Nat \ {0}, NEW ks,
           IF call.op = "get_multi" THEN nr = 1 /\ ks = call.keys
           ELSE nr \in 1..Len(call.keys) /\ ks = <<call.keys[nr]>>,
           NEW r, r = Line(c, id, call, nr, ks)
    PROVE  r \in Requests /\ Genuine(r)' /\ r.id = id /\ r.nr = nr /\ Head(r.keys) = Head(ks)
<1>1. /\ call.keys \in Seq(Keys) /\ call.keys # << >>
      /\ call.op \notin Multi => Len(call.keys) = 1
      /\ call.op \in Setting \cup Fetching \cup Multi \cup {"delete", "incr"}
    BY CallFacts
<1>2. ks \in Seq(Keys) /\ Head(ks) \in Keys
      /\ (call.op # "get_multi" => Head(ks) = call.keys[nr])
    <2>1. CASE call.op = "get_multi"
        BY <1>1, <2>1
    <2>2. CASE call.op # "get_multi"
        <3>1. PICK k \in Keys : k = call.keys[nr]
            BY <1>1, <2>2
        <3>2. ks = <<k>> /\ <<k>> \in Seq(Keys) /\ Head(<<k>>) = k
            BY <2>2, <3>1
        <3> QED
            BY <2>2, <3>1, <3>2
    <2> QED BY <2>1, <2>2
<1>3. PICK k \in Keys : k = Head(ks)
    BY <1>2
<1>4. ids[c][k] \in Nat
    BY DEF Safe, Consistent, TypeOK
<1>5. PICK v : v = ids[c][k]
    OBVIOUS
<1>6. r = [id |-> id, nr |-> nr,
           op |-> CASE call.op = "cas" /\ v = 0 -> "set"
                    [] call.op = "set_multi" -> "set"
                    [] call.op = "delete_multi" -> "delete"
                    [] call.op = "get_multi" -> "get"
                    [] OTHER -> call.op,
           keys |-> ks, sign |-> v]
    BY <1>3, <1>5 DEF Line, Command
<1>7. /\ r.id = id /\ r.nr = nr /\ r.keys = ks /\ r.sign = v
      /\ r.op = CASE call.op = "cas" /\ v = 0 -> "set"
                    [] call.op = "set_multi" -> "set"
                    [] call.op = "delete_multi" -> "delete"
                    [] call.op = "get_multi" -> "get"
                    [] OTHER -> call.op
    BY <1>6
<1>8. r.op \in {"set", "cas", "add", "incr", "delete"} \cup Fetching
    BY <1>1, <1>7 DEF Setting, Fetching, Multi
<1>9. r \in Requests
    <2>1. id \in Nat /\ v \in Nat
        BY <1>4, <1>5, Types
    <2>2. r = [id |-> r.id, nr |-> r.nr, op |-> r.op, keys |-> r.keys, sign |-> r.sign]
        BY <1>6
    <2> QED
        BY <1>2, <1>7, <1>8, <2>1, <2>2 DEF Requests
<1>10. /\ calls'[id].call = call
       /\ calls'[id].sign = IF call.op = "cas" THEN ids[c][call.keys[1]] ELSE 0
    BY DEF Made
<1>11. call.op = "cas" => nr = 1 /\ k = call.keys[1] /\ calls'[id].sign = v
    BY <1>1, <1>2, <1>3, <1>5, <1>10 DEF Multi
<1>12. Genuine(r)'
    <2>1. r.id \in 1..Len(calls')
        BY <1>7, Types
    <2>2. r.op = CASE call.op = "cas" -> IF calls'[id].sign # 0 THEN "cas" ELSE "set"
                  [] call.op = "set_multi" -> "set"
                  [] call.op = "delete_multi" -> "delete"
                  [] call.op = "get_multi" -> "get"
                  [] OTHER -> call.op
        BY <1>4, <1>5, <1>7, <1>11, BoundsAssumption
    <2>3. r.op = "cas" => r.sign = calls'[id].sign
        <3>1. r.op = "cas" => call.op = "cas" /\ v # 0
            BY <1>7
        <3> QED
            BY <1>4, <1>5, <1>7, <1>11, <3>1
    <2>4. IF call.op = "get_multi" THEN r.nr = 1 /\ r.keys = call.keys
          ELSE r.nr \in 1..Len(call.keys) /\ r.keys = <<call.keys[r.nr]>>
        BY <1>7
    <2> QED
        BY <1>7, <1>10, <2>1, <2>2, <2>3, <2>4 DEF Genuine
<1> QED
    BY <1>7, <1>9, <1>12

\* What a call sends is what it waits for, or less of it.
LEMMA RequestsOK ==
    ASSUME Safe, NEW c \in Clients, NEW call \in Calls[c], call.op # "disconnect_all",
           NEW id, id = Len(calls) + 1, Len(calls') = id,
           calls'[id] = Made(c, call, "pending", {}),
           NEW w, w = Wanted(c, id, call), NEW s, s = Sent(c, id, call)
    PROVE  /\ w \in Seq(Requests) /\ w # << >> /\ OneCalls(w, id)'
           /\ s \in Seq(Requests) /\ Len(s) <= Len(w) /\ OneCalls(s, id)'
           /\ call.big = {} => \A i \in 1..Len(s) : s[i] = w[i]
<1>1. call.keys \in Seq(Keys) /\ call.keys # << >> /\ Len(call.keys) \in Nat \ {0}
    BY CallFacts
<1>2. \E n \in Nat \ {0} :
         /\ w \in Seq(Requests) /\ Len(w) = n
         /\ \A i \in 1..n : w[i] \in Requests /\ Genuine(w[i])' /\ w[i].id = id /\ w[i].nr = i
    <2>1. CASE call.op = "get_multi"
        <3>1. PICK r : r = Line(c, id, call, 1, call.keys)
            OBVIOUS
        <3>2. r \in Requests /\ Genuine(r)' /\ r.id = id /\ r.nr = 1
            BY <2>1, <3>1, LineGenuine
        <3>3. w = <<r>>
            <4>1. w = <<Line(c, id, call, 1, call.keys)>>
                BY <2>1, Zenon DEF Wanted
            <4> QED
                BY <3>1, <4>1
        <3>4. w \in Seq(Requests) /\ Len(w) = 1 /\ w[1] = r
            <4>1. ASSUME NEW x \in Requests
                  PROVE  <<x>> \in Seq(Requests) /\ Len(<<x>>) = 1 /\ <<x>>[1] = x
                OBVIOUS
            <4> QED
                BY <3>2, <3>3, <4>1
        <3>5. \A i \in 1..1 : w[i] = r /\ i = 1
            BY <3>4
        <3> QED
            BY <3>2, <3>4, <3>5
    <2>2. CASE call.op # "get_multi"
        <3>1. w = [j \in 1..Len(call.keys) |-> Line(c, id, call, j, <<call.keys[j]>>)]
            BY <2>2 DEF Wanted
        <3>2. ASSUME NEW j \in 1..Len(call.keys)
              PROVE  w[j] \in Requests /\ Genuine(w[j])' /\ w[j].id = id /\ w[j].nr = j
            <4>1. PICK r : r = Line(c, id, call, j, <<call.keys[j]>>)
                OBVIOUS
            <4>2. w[j] = r
                BY <3>1, <4>1
            <4>3. j \in Nat \ {0}
                BY <1>1
            <4>4. r \in Requests /\ Genuine(r)' /\ r.id = id /\ r.nr = j
                BY <2>2, <4>1, <4>3, LineGenuine
            <4> QED
                BY <4>2, <4>4
        <3>3. w \in Seq(Requests) /\ Len(w) = Len(call.keys)
            BY <1>1, <3>1, <3>2
        <3> QED
            BY <1>1, <3>2, <3>3
    <2> QED BY <2>1, <2>2
<1>3. PICK n \in Nat \ {0} :
         /\ w \in Seq(Requests) /\ Len(w) = n
         /\ \A i \in 1..n : w[i] \in Requests /\ Genuine(w[i])' /\ w[i].id = id /\ w[i].nr = i
    BY <1>2
<1>4. w # << >> /\ OneCalls(w, id)'
    <2>1. w # << >>
        BY <1>3
    <2>2. \A i \in 1..Len(w) : Genuine(w[i])' /\ w[i].id = id
        BY <1>3
    <2>3. \A i, j \in 1..Len(w) : i < j => w[i].nr < w[j].nr
        BY <1>3
    <2> QED
        BY <2>1, <2>2, <2>3 DEF OneCalls
<1> DEFINE fits == {j \in 1..Len(w) : Head(w[j].keys) \notin call.big}
           f == InOrder(fits)
           m == Cardinality(fits)
<1>5. s = [i \in 1..m |-> w[f[i]]]
    BY DEF Sent
<1>6. /\ m \in Nat /\ m <= n /\ f \in [1..m -> fits] /\ fits \in SUBSET (1..n)
      /\ \A i, j \in 1..m : i < j => f[i] < f[j]
      /\ fits = 1..n => \A i \in 1..m : f[i] = i
    <2>1. IsFiniteSet(1..n) /\ Cardinality(1..n) = n
        BY FS_Interval
    <2>2. fits \in SUBSET (1..n) /\ fits \in SUBSET Nat
        BY <1>3
    <2>3. IsFiniteSet(fits) /\ Cardinality(fits) <= n
        BY <2>1, <2>2, FS_Subset
    <2>4. fits = 1..n => Cardinality(fits) = n /\ \A i \in 1..n : InOrder(fits)[i] = i
        BY OrderedAll
    <2> HIDE DEF fits
    <2> QED
        BY <2>2, <2>3, <2>4, Ordered DEF Increasing
<1>7. call.big = {} => fits = 1..n
    BY <1>3
<1> HIDE DEF f, m, fits
<1>8. \A i \in 1..m : f[i] \in 1..n /\ s[i] = w[f[i]]
    BY <1>5, <1>6
<1>9. s \in Seq(Requests) /\ Len(s) = m
    BY <1>3, <1>5, <1>6, <1>8
<1>10. OneCalls(s, id)'
    <2>1. \A i \in 1..Len(s) : Genuine(s[i])' /\ s[i].id = id
        BY <1>3, <1>8, <1>9
    <2>2. \A i, j \in 1..Len(s) : i < j => s[i].nr < s[j].nr
        BY <1>3, <1>6, <1>8, <1>9, SMTT(30)
    <2> QED
        BY <2>1, <2>2 DEF OneCalls
<1>11. call.big = {} => \A i \in 1..Len(s) : s[i] = w[i]
    BY <1>6, <1>7, <1>8, <1>9
<1> QED
    BY <1>3, <1>4, <1>6, <1>9, <1>10, <1>11

\* A call begins: what it sends is on its way, unless the server has gone.
LEMMA StartSafe ==
    ASSUME Safe, NEW c \in Clients, NEW call \in Calls[c], Start(c, call)
    PROVE  Safe'
<1>1. PICK id, w, s, cn :
         /\ id = Len(calls) + 1 /\ w = Wanted(c, id, call) /\ s = Sent(c, id, call)
         /\ cn = IF sock[c] THEN conn[c] ELSE Fresh
    OBVIOUS
<1> DEFINE bad == IF call.op = "set_multi" THEN call.big ELSE {}
<1>2. /\ ~Awaiting(c) /\ call.op # "disconnect_all"
      /\ run' = [run EXCEPT ![c] = [Idle EXCEPT !.id = id, !.want = w, !.bad = bad]]
      /\ conn' = [conn EXCEPT ![c] =
            [cn EXCEPT !.req = IF cn.end = "up" THEN cn.req \o s ELSE cn.req]]
      /\ calls' = Append(calls, Made(c, call, "pending", {}))
      /\ sock' = [sock EXCEPT ![c] = TRUE]
      /\ UNCHANGED <<server, store, late, dead, ids, troubles, effects, fetched, missed>>
    BY <1>1 DEF Start, Begin, CanConnect
<1>3. /\ conn \in [Clients -> Sockets] /\ run \in [Clients -> Runs] /\ sock \in [Clients -> BOOLEAN]
      /\ conn[c] \in Sockets /\ run[c] \in Runs /\ bad \in SUBSET Keys
    BY CallFacts DEF Safe, Consistent, TypeOK
<1> HIDE DEF bad
<1>4. /\ cn \in Sockets /\ cn.req = << >> /\ cn.rep = << >>
    BY <1>1, <1>2, <1>3, NothingUnderWay, FreshSocket DEF Fresh
<1>5. /\ KeepsCalls /\ Len(calls') = id /\ id \in Nat \ {0}
      /\ calls'[id] = Made(c, call, "pending", {})
      /\ \A i \in 1..Len(calls) : calls'[i] = calls[i]
      /\ CallsOK' /\ AnswersTrue' /\ ReadsOwnWrites'
    <2>1. "pending" \in Results \ {"values", "number"} /\ {} \in SUBSET Keys
        BY DEF Results
    <2>2. run'[c].id = id
        BY <1>2, <1>3 DEF Idle
    <2>3. \A d \in Clients \ {c} : run'[d] = run[d]
        BY <1>2, <1>3
    <2>4. id \in Nat \ {0}
        BY <1>1, Types
    <2> QED
        BY <1>1, <1>2, <2>1, <2>2, <2>3, <2>4, CallMade
<1>6. /\ w \in Seq(Requests) /\ w # << >> /\ OneCalls(w, id)'
      /\ s \in Seq(Requests) /\ Len(s) <= Len(w) /\ OneCalls(s, id)'
      /\ call.big = {} => \A i \in 1..Len(s) : s[i] = w[i]
    BY <1>1, <1>2, <1>5, RequestsOK
<1>7. PICK req : /\ conn'[c] = [cn EXCEPT !.req = req]
                 /\ req = IF cn.end = "up" THEN s ELSE << >>
    <2>1. << >> \o s = s
        BY <1>6
    <2> QED
        BY <1>2, <1>3, <1>4, <2>1
<1>8. /\ req \in Seq(Requests) /\ Len(req) \in Nat /\ Len(w) \in Nat /\ 0 + Len(req) <= Len(w)
      /\ call.big = {} => \A i \in 1..Len(req) : req[i] = w[0 + i]
    <2>1. Len(<< >>) = 0 /\ << >> \in Seq(Requests)
        OBVIOUS
    <2>2. CASE req = s
        BY <1>6, <2>2
    <2>3. CASE req = << >>
        BY <1>6, <2>1, <2>3
    <2> QED BY <1>7, <2>2, <2>3
<1>9. /\ conn' \in [Clients -> Sockets] /\ conn'[c].req = req /\ conn'[c].rep = << >>
      /\ conn'[c].end = cn.end /\ (cn.end # "up" => req = << >>)
    <2>1. [cn EXCEPT !.req = req] \in Sockets
        BY <1>4, <1>8 DEF Sockets
    <2>2. /\ [cn EXCEPT !.req = req].req = req /\ [cn EXCEPT !.req = req].rep = << >>
          /\ [cn EXCEPT !.req = req].end = cn.end
        BY <1>4 DEF Sockets
    <2>3. conn' = [conn EXCEPT ![c] = [cn EXCEPT !.req = req]]
        BY <1>2, <1>3, <1>7
    <2> QED
        BY <1>3, <1>7, <2>1, <2>2, <2>3
<1>10. /\ run' \in [Clients -> Runs] /\ run'[c].id = id /\ run'[c].want = w
    <2>1. Idle \in Runs
        BY DEF Idle, Runs
    <2>2. PICK new : new = [Idle EXCEPT !.id = id, !.want = w, !.bad = bad]
        OBVIOUS
    <2>3. new \in Runs /\ new.id = id /\ new.want = w
        BY <1>3, <1>5, <1>6, <2>1, <2>2 DEF Runs
    <2> QED
        BY <1>2, <1>3, <2>2, <2>3
<1>11. /\ sock' \in [Clients -> BOOLEAN] /\ sock'[c]
       /\ \A d \in Clients \ {c} : run'[d] = run[d] /\ conn'[d] = conn[d] /\ sock'[d] = sock[d]
    BY <1>2, <1>3
<1>12. /\ calls'[id].by = c /\ calls'[id].call = call /\ calls'[id].ret = "pending"
    BY <1>5 DEF Made
<1>13. OnlyClient(c)
    <2>1. \A i \in 1..Len(calls') : i > Len(calls) => i = id
        BY <1>1, <1>5, Types
    <2>2. run'[c].id > Len(calls)
        BY <1>1, <1>10, Types
    <2> QED
        BY <1>5, <1>11, <1>12, <2>1, <2>2 DEF OnlyClient
<1>14. EffectsOK' /\ StoreOK' /\ AtMostOnce'
    BY <1>2, <1>5, HistoryKept
<1>15. TheCall(c)' = call /\ Awaiting(c)'
    BY <1>5, <1>10, <1>12 DEF TheCall, Awaiting
<1>16. RunOK(c)'
    <2>1. OneCalls(run[c].want, run[c].id)'
        BY <1>6, <1>10
    <2> QED
        BY <1>2, <1>5, <1>6, <1>10, <1>11, <1>12, <1>15, <2>1 DEF RunOK
<1>17. ConnOK(c)'
    <2>1. OneCalls(req, id)' /\ Unserved(req)'
        <3>1. CASE req = << >>
            BY <3>1 DEF OneCalls, Unserved
        <3>2. CASE req = s
            <4>1. \A i \in 1..Len(s) : s[i].id = id
                BY <1>6 DEF OneCalls
            <4>2. \A n \in 1..Len(effects) : effects[n].req.id # id
                BY <1>1, Types, EffectsSource
            <4>3. Unserved(s)'
                BY <1>2, <4>1, <4>2 DEF Unserved
            <4> QED
                BY <1>6, <3>2, <4>3
        <3> QED BY <1>7, <3>1, <3>2
    <2>2. OneCalls(conn[c].req, run[c].id)' /\ Unserved(conn[c].req)'
        BY <1>9, <1>10, <2>1
    <2> QED
        BY <1>9, <1>11, <2>2 DEF ConnOK
<1>18. InStep(c)'
    <2>1. Len(<< >>) = 0
        OBVIOUS
    <2> QED
        BY <1>8, <1>9, <1>10, <1>15, <2>1 DEF InStep
<1>19. RepliesOK(c)'
    BY <1>9 DEF RepliesOK
<1>20. ASSUME NEW d \in Clients PROVE ClientOK(d)'
    <2>1. CASE d = c
        BY <1>16, <1>17, <1>18, <1>19, <2>1 DEF ClientOK
    <2>2. CASE d # c
        BY <1>2, <1>5, <1>13, <2>2, OthersKept
    <2> QED BY <2>1, <2>2
<1>21. LateOK'
    BY <1>2, <1>5, <1>13, LateKept
<1>22. TypeOK' /\ CacheOK'
    BY <1>2, <1>5, <1>9, <1>10, <1>11 DEF Safe, Consistent, TypeOK, CacheOK, KeepsCalls
<1> QED
    BY <1>5, <1>14, <1>20, <1>21, <1>22 DEF Safe, Consistent

-----------------------------------------------------------------------------
(* The server executes a request.                                          *)

\* Requests of a call with the same number ask the same.
LEMMA SameRequest ==
    ASSUME NEW r, NEW q, Genuine(r), Genuine(q), r.id = q.id, r.nr = q.nr
    PROVE  r.op = q.op /\ r.keys = q.keys /\ (r.op = "cas" => r.sign = q.sign)
BY DEF Genuine

\* What a request is for.
LEMMA GenuineOps ==
    ASSUME NEW r, Genuine(r)
    PROVE  LET op == calls[r.id].call.op IN
           /\ op \in Fetching => r.op \in Fetching
           /\ r.op = "cas" => op = "cas" /\ r.sign # 0
           /\ r.op = "add" => op = "add"
           /\ r.op = "delete" => r.keys = <<calls[r.id].call.keys[r.nr]>>
<1>1. PICK it : it = calls[r.id]
    OBVIOUS
<1>2. /\ r.op = CASE it.call.op = "cas" -> IF it.sign # 0 THEN "cas" ELSE "set"
                  [] it.call.op = "set_multi" -> "set"
                  [] it.call.op = "delete_multi" -> "delete"
                  [] it.call.op = "get_multi" -> "get"
                  [] OTHER -> it.call.op
      /\ r.op = "cas" => r.sign = it.sign
      /\ it.call.op # "get_multi" => r.keys = <<it.call.keys[r.nr]>>
    BY <1>1 DEF Genuine
<1>3. /\ it.call.op \in Fetching => r.op \in Fetching
      /\ r.op = "cas" => it.call.op = "cas" /\ it.sign # 0
      /\ r.op = "add" => it.call.op = "add"
      /\ r.op = "delete" => it.call.op # "get_multi"
    BY <1>2 DEF Fetching
<1> QED
    BY <1>1, <1>2, <1>3

\* What the execution of a request that changes the store keeps.
LEMMA Stored ==
    ASSUME Safe, UNCHANGED <<calls, run>>, NEW r \in Requests, Genuine(r), Execute(r),
           Stores(r) \/ Removes(r),
           ~Retryable(calls[r.id].call.op) =>
              \A n \in 1..Len(effects) :
                 effects[n].req.id = r.id => effects[n].req.nr # r.nr
    PROVE  /\ KeepsEffects /\ MovesOn
           /\ store' \in [Keys -> 0..Len(effects')] /\ store' \in [Keys -> Nat]
           /\ EffectsOK' /\ StoreOK' /\ AtMostOnce'
           /\ Len(effects') = Len(effects) + 1 /\ effects'[Len(effects) + 1].req = r
           /\ Removes(r) => store'[r.keys[1]] = 0
<1>1. PICK k, N : k = r.keys[1] /\ N = Len(effects)
    OBVIOUS
<1>2. k \in Keys /\ r.keys # << >> /\ N \in Nat /\ effects \in Seq(Effects)
      /\ store \in [Keys -> 0..N] /\ store[k] \in 0..N
    BY <1>1, GenuineKeys, Types DEF Safe, Consistent, TypeOK
<1>3. PICK e : e = [req |-> r, old |-> store[k]]
    OBVIOUS
<1>4. e \in Effects /\ e.req = r /\ e.old = store[k]
    BY <1>2, <1>3 DEF Effects
<1>5. /\ effects' = Append(effects, e)
      /\ store' = [store EXCEPT ![k] = IF Removes(r) THEN 0 ELSE Len(effects')]
    BY <1>1, <1>3 DEF Execute
<1>6. /\ effects' \in Seq(Effects) /\ Len(effects') = N + 1 /\ effects'[N + 1] = e
      /\ \A n \in 1..N : effects'[n] = effects[n]
      /\ \A n \in 1..(N + 1) : n \in 1..N \/ n = N + 1
    BY <1>1, <1>2, <1>4, <1>5
<1>7. KeepsCalls /\ KeepsEffects
    BY <1>1, <1>2, <1>6, CallsQuiet, Types DEF KeepsCalls, KeepsEffects
<1>8. /\ store'[k] = IF Removes(r) THEN 0 ELSE N + 1
      /\ \A l \in Keys \ {k} : store'[l] = store[l]
      /\ store' \in [Keys -> 0..(N + 1)] /\ store' \in [Keys -> Nat]
    <2>1. (IF Removes(r) THEN 0 ELSE N + 1) \in 0..(N + 1) /\ \A x \in 0..N : x \in 0..(N + 1)
        BY <1>2
    <2>2. store \in [Keys -> 0..(N + 1)]
        BY <1>2, <2>1
    <2>3. store' = [store EXCEPT ![k] = IF Removes(r) THEN 0 ELSE N + 1]
        BY <1>5, <1>6
    <2>4. store' \in [Keys -> 0..(N + 1)]
        BY <1>2, <2>1, <2>2, <2>3
    <2>5. \A x \in 0..(N + 1) : x \in Nat
        BY <1>2
    <2>6. store' \in [Keys -> Nat]
        BY <2>4, <2>5
    <2> QED
        BY <1>2, <2>3, <2>4, <2>6
<1>9. MovesOn
    <2>1. ASSUME NEW l \in Keys PROVE store'[l] \in {store[l], 0} \/ store'[l] > N
        <3>1. CASE l = k
            BY <1>2, <1>8, <3>1
        <3>2. CASE l # k
            BY <1>8, <3>2
        <3> QED BY <3>1, <3>2
    <2> QED
        BY <1>1, <2>1 DEF MovesOn
<1>10. /\ r.op \in {"set", "cas", "incr", "delete"} /\ (r.op = "cas" => store[k] = r.sign)
       /\ Removes(r) <=> r.op = "delete"
    BY <1>1 DEF Stores, Removes
<1>11. EffectsOK'
    <2>1. ASSUME NEW n \in 1..(N + 1), NEW f, f = effects'[n]
          PROVE  /\ f.old < n
                 /\ f.req.op \in {"set", "cas", "incr", "delete"}
                 /\ f.req.keys # << >>
                 /\ f.req.op = "cas" => f.old = f.req.sign
                 /\ IF f.req.id = 0 THEN f.req.op = "set" /\ f.req.nr = n
                    ELSE Genuine(f.req)'
        <3>1. CASE n \in 1..N
            <4>1. f = effects[n]
                BY <1>6, <2>1, <3>1
            <4>2. /\ f.old < n
                  /\ f.req.op \in {"set", "cas", "incr", "delete"}
                  /\ f.req.keys # << >>
                  /\ f.req.op = "cas" => f.old = f.req.sign
                  /\ IF f.req.id = 0 THEN f.req.op = "set" /\ f.req.nr = n ELSE Genuine(f.req)
                BY <1>1, <3>1, <4>1 DEF Safe, Consistent, EffectsOK
            <4>3. f.req.id # 0 => Genuine(f.req)'
                BY <1>7, <4>2, GenuineKept
            <4> QED
                BY <4>2, <4>3
        <3>2. CASE n = N + 1
            <4>1. Genuine(r)' /\ r.id # 0
                <5>1. Genuine(r)
                    BY <1>1
                <5>2. r.id \in 1..Len(calls)
                    BY <5>1 DEF Genuine
                <5> QED BY <1>7, <5>1, <5>2, GenuineKept, Types
            <4>2. f = e /\ f.req = r /\ f.old = store[k] /\ f.old < n
                BY <1>2, <1>4, <1>6, <2>1, <3>2
            <4> QED
                BY <1>2, <1>10, <4>1, <4>2
        <3> QED BY <1>6, <3>1, <3>2
    <2> QED
        BY <1>6, <2>1 DEF EffectsOK
<1>12. StoreOK'
    <2>1. ASSUME NEW n \in 1..(N + 1), Removes(r) PROVE Deleted(k, n)'
        <3>1. N + 1 \in n..(N + 1)
            BY <1>2, <2>1
        <3>2. effects'[N + 1].req.op = "delete" /\ effects'[N + 1].req.keys[1] = k
            BY <1>1, <1>4, <1>6, <1>10, <2>1
        <3> QED
            BY <1>6, <3>1, <3>2 DEF Deleted
    <2>2. ASSUME NEW n \in 1..(N + 1), NEW l, l = effects'[n].req.keys[1]
          PROVE  store'[l] >= n \/ (store'[l] = 0 /\ Deleted(l, n)')
        <3>1. CASE l = k
            <4>1. CASE Removes(r)
                BY <1>2, <1>8, <2>1, <3>1, <4>1
            <4>2. CASE ~Removes(r)
                BY <1>2, <1>8, <3>1, <4>2
            <4> QED BY <4>1, <4>2
        <3>2. CASE l # k
            <4>1. n \in 1..N /\ l = effects[n].req.keys[1]
                BY <1>1, <1>4, <1>6, <2>2, <3>2
            <4>2. store[l] >= n \/ (store[l] = 0 /\ Deleted(l, n))
                BY <1>1, <4>1 DEF Safe, Consistent, StoreOK
            <4>3. effects[n].req \in Requests /\ effects[n].req.keys # << >>
                <5>1. effects[n] \in Effects
                    BY <1>1, <1>2, <4>1
                <5> QED
                    BY <1>1, <4>1, <5>1 DEF Effects, Safe, Consistent, EffectsOK
            <4>4. effects[n].req.keys \in Seq(Keys)
                BY <4>3 DEF Requests
            <4>5. l \in Keys
                BY <4>1, <4>3, <4>4
            <4>6. store'[l] = store[l]
                BY <1>8, <3>2, <4>5
            <4>7. n \in Nat \ {0}
                BY <1>2, <4>1
            <4>8. Deleted(l, n) => Deleted(l, n)'
                BY <1>7, <4>7, DeletedKept
            <4> QED
                BY <4>2, <4>6, <4>8
        <3> QED BY <3>1, <3>2
    <2> QED
        BY <1>6, <2>2 DEF StoreOK
<1>13. AtMostOnce'
    <2>1. SUFFICES ASSUME NEW m \in 1..(N + 1), NEW n \in 1..(N + 1), m < n,
                          effects'[m].req.id = effects'[n].req.id,
                          effects'[m].req.nr = effects'[n].req.nr
                   PROVE  /\ effects'[n].req.op = "set"
                          /\ calls[effects'[n].req.id].call.op \in Setting
        BY <1>6 DEF AtMostOnce
    <2>2. m \in 1..N /\ effects'[m] = effects[m]
        BY <1>2, <1>6, <2>1
    <2>3. CASE n \in 1..N
        BY <1>1, <1>6, <2>1, <2>2, <2>3 DEF Safe, AtMostOnce
    <2>4. CASE n = N + 1
        <3>1. PICK q : q = effects[m].req
            OBVIOUS
        <3>2. q.id = r.id /\ q.nr = r.nr
            BY <1>4, <1>6, <2>1, <2>2, <2>4, <3>1
        <3>3. r.id # 0
            BY Types DEF Genuine
        <3>4. Genuine(q) /\ effects[m].old < m /\ (q.op = "cas" => effects[m].old = q.sign)
            BY <1>1, <2>2, <3>1, <3>2, <3>3 DEF Safe, Consistent, EffectsOK
        <3>5. r.op = q.op /\ r.keys = q.keys /\ (r.op = "cas" => r.sign = q.sign)
            BY <3>2, <3>4, SameRequest
        <3>6. Retryable(calls[r.id].call.op)
            BY <1>1, <2>2, <3>1, <3>2
        <3>7. calls[r.id].call.op \in Setting /\ r.op \in {"set", "cas"}
            BY <1>10, <3>6, GenuineOps DEF Retryable, Setting, Fetching, Genuine
        <3>8. r.op # "cas"
            <4>1. SUFFICES ASSUME r.op = "cas" PROVE FALSE
                OBVIOUS
            <4>2. store[k] = r.sign /\ r.sign # 0 /\ r.sign < m
                BY <1>10, <3>4, <3>5, <4>1, GenuineOps
            <4>3. store[k] >= m \/ store[k] = 0
                BY <1>1, <2>2, <3>1, <3>5 DEF Safe, Consistent, StoreOK
            <4> QED
                BY <1>2, <4>2, <4>3
        <3> QED
            BY <1>4, <1>6, <2>4, <3>7, <3>8
    <2> QED BY <1>6, <2>3, <2>4
<1> QED
    BY <1>1, <1>4, <1>6, <1>7, <1>8, <1>9, <1>11, <1>12, <1>13

\* What the execution of any request keeps.
LEMMA Executed ==
    ASSUME Safe, UNCHANGED <<calls, run>>, NEW r \in Requests, Genuine(r), Execute(r),
           ~Retryable(calls[r.id].call.op) =>
              \A n \in 1..Len(effects) :
                 effects[n].req.id = r.id => effects[n].req.nr # r.nr
    PROVE  /\ KeepsCalls /\ KeepsEffects /\ MovesOn
           /\ store' \in [Keys -> 0..Len(effects')] /\ store' \in [Keys -> Nat]
           /\ EffectsOK' /\ StoreOK' /\ AtMostOnce' /\ AnswersTrue' /\ ReadsOwnWrites' /\ CallsOK'
           /\ \A n \in 1..Len(effects') :
                 effects'[n].req = r \/ (n \in 1..Len(effects) /\ effects'[n] = effects[n])
           /\ Answer(r) \in {"STORED", "NUMBER"} => Took(r.id)' # {}
           /\ r.op = "delete" => store'[r.keys[1]] = 0
<1>1. KeepsCalls
    BY Types DEF KeepsCalls
<1>2. r.keys[1] \in Keys /\ store[r.keys[1]] \in Nat /\ Len(effects) \in Nat
    BY GenuineKeys, Types
<1>3. Answer(r) \in {"STORED", "NUMBER"} => Stores(r)
    BY DEF Answer, Stores
<1>4. /\ KeepsEffects /\ MovesOn
      /\ store' \in [Keys -> 0..Len(effects')] /\ store' \in [Keys -> Nat]
      /\ EffectsOK' /\ StoreOK' /\ AtMostOnce'
      /\ \A n \in 1..Len(effects') :
            effects'[n].req = r \/ (n \in 1..Len(effects) /\ effects'[n] = effects[n])
      /\ Answer(r) \in {"STORED", "NUMBER"} => Took(r.id)' # {}
      /\ r.op = "delete" => store'[r.keys[1]] = 0
    <2>1. CASE Stores(r) \/ Removes(r)
        <3>1. /\ KeepsEffects /\ MovesOn
              /\ store' \in [Keys -> 0..Len(effects')] /\ store' \in [Keys -> Nat]
              /\ EffectsOK' /\ StoreOK' /\ AtMostOnce'
              /\ Len(effects') = Len(effects) + 1 /\ effects'[Len(effects) + 1].req = r
              /\ Removes(r) => store'[r.keys[1]] = 0
            BY <2>1, Stored
        <3>2. Took(r.id)' # {}
            <4>1. Len(effects) + 1 \in Took(r.id)'
                BY <1>2, <3>1 DEF Took
            <4> QED BY <4>1
        <3>3. r.op = "delete" => Removes(r)
            BY <2>1 DEF Stores, Removes
        <3>4. \A n \in 1..Len(effects') : n = Len(effects) + 1 \/ n \in 1..Len(effects)
            BY <1>2, <3>1
        <3>5. \A n \in 1..Len(effects) : effects'[n] = effects[n]
            BY <3>1 DEF KeepsEffects
        <3> QED
            BY <3>1, <3>2, <3>3, <3>4, <3>5
    <2>2. CASE ~(Stores(r) \/ Removes(r))
        <3>1. UNCHANGED <<effects, store>>
            BY <2>2 DEF Execute
        <3>2. KeepsEffects /\ MovesOn /\ EffectsOK' /\ StoreOK' /\ AtMostOnce'
            BY <1>1, <3>1, HistoryKept
        <3>3. store \in [Keys -> 0..Len(effects)]
            BY DEF Safe, Consistent, TypeOK
        <3>4. r.op = "delete" => store[r.keys[1]] = 0
            BY <2>2 DEF Removes
        <3> QED
            BY <1>3, <2>2, <3>1, <3>2, <3>3, <3>4, Types
    <2> QED BY <2>1, <2>2
<1>5. AnswersTrue'
    <2>1. SUFFICES ASSUME NEW i \in 1..Len(calls)
                   PROVE  /\ \/ calls[i].call.op \in {"set", "cas"} /\ calls[i].ret = "yes"
                             \/ calls[i].ret = "number"
                             => Took(i)' # {}
                          /\ calls[i].call.op = "delete" /\ calls[i].ret = "yes" =>
                                Gone(calls[i].call.keys, calls[i].at)'
        BY DEF AnswersTrue
    <2>2. PICK ks, at : ks = calls[i].call.keys /\ at = calls[i].at
        OBVIOUS
    <2>3. ks \in Seq(Keys) /\ at \in Nat /\ at <= Len(effects)
        <3>1. calls[i] \in Records /\ calls[i].call \in Calls[calls[i].by]
            BY Types DEF Safe, Consistent, CallsOK
        <3>2. calls[i].by \in Clients /\ calls[i].at \in Nat
            BY <3>1 DEF Records
        <3> QED
            BY <2>2, <3>1, <3>2, CallFacts DEF Safe, Consistent, CallsOK
    <2>4. Gone(ks, at) => Gone(ks, at)'
        BY <1>4, <2>3, Types, GoneKept
    <2>5. Took(i) # {} => Took(i)' # {}
        BY <1>4, TookKept
    <2>6. /\ \/ calls[i].call.op \in {"set", "cas"} /\ calls[i].ret = "yes"
             \/ calls[i].ret = "number"
             => Took(i) # {}
          /\ calls[i].call.op = "delete" /\ calls[i].ret = "yes" => Gone(ks, at)
        BY <2>2 DEF Safe, AnswersTrue
    <2>7. ks = calls'[i].call.keys /\ at = calls'[i].at
        BY <2>2
    <2> QED
        BY <2>4, <2>5, <2>6, <2>7
<1>6. ReadsOwnWrites'
    <2>1. SUFFICES ASSUME NEW i \in 1..Len(calls), NEW j \in 1..Len(calls), i < j,
                          calls[j].ret = "values", NEW k \in Range(calls[j].call.keys),
                          NEW by, by = calls[j].by, ToldSet(i, by, k)', NEW v, v = calls[j].vals[k]
                   PROVE  NotOlder(i, k, v)'
        BY DEF ReadsOwnWrites
    <2>2. ToldSet(i, by, k)
        BY <2>1 DEF ToldSet
    <2>3. NotOlder(i, k, v)
        BY <2>1, <2>2 DEF Safe, ReadsOwnWrites
    <2> QED
        BY <1>4, <2>3, NotOlderKept
<1>7. CallsOK'
    <2>1. \A i \in 1..Len(calls) : calls[i].at \in Nat
        <3>1. \A i \in 1..Len(calls) : calls[i] \in Records
            BY Types
        <3> QED BY <3>1 DEF Records
    <2>2. Len(effects) \in Nat /\ Len(effects') \in Nat /\ Len(effects) <= Len(effects')
        BY <1>4 DEF KeepsEffects
    <2>3. \A i \in 1..Len(calls) : calls[i].at <= Len(effects')
        BY <2>1, <2>2 DEF Safe, Consistent, CallsOK
    <2> QED
        BY <2>3 DEF Safe, Consistent, CallsOK
<1> QED
    BY <1>1, <1>4, <1>5, <1>6, <1>7

\* Other requests are where they were.
LEMMA UnservedStill ==
    ASSUME UNCHANGED calls, NEW r, NEW s, Unserved(s),
           \A n \in 1..Len(effects') :
              effects'[n].req = r \/ (n \in 1..Len(effects) /\ effects'[n] = effects[n]),
           \A i \in 1..Len(s) : s[i].id # r.id \/ s[i].nr # r.nr
    PROVE  Unserved(s)'
<1>1. ASSUME NEW i \in 1..Len(s), ~Retryable(calls[s[i].id].call.op),
             NEW n \in 1..Len(effects'), effects'[n].req.id = s[i].id
      PROVE  effects'[n].req.nr # s[i].nr
    <2>1. CASE effects'[n].req = r
        BY <1>1, <2>1
    <2>2. CASE n \in 1..Len(effects) /\ effects'[n] = effects[n]
        BY <1>1, <2>2 DEF Unserved
    <2> QED BY <2>1, <2>2
<1> QED
    BY <1>1 DEF Unserved

\* A client that is not concerned.
LEMMA OnlookerOK ==
    ASSUME Safe, UNCHANGED <<calls, run, sock>>, KeepsCalls, KeepsEffects, MovesOn,
           store' \in [Keys -> Nat], NEW c \in Clients, conn'[c] = conn[c],
           Unserved(conn[c].req)'
    PROVE  ClientOK(c)'
<1>1. ClientOK(c)
    BY DEF Safe, Consistent
<1>2. RunOK(c)'
    BY <1>1, ZenonT(60) DEF ClientOK, RunOK, OneCalls, Genuine, TheCall
<1>3. ConnOK(c)'
    BY <1>1, ZenonT(60) DEF ClientOK, ConnOK, OneCalls, Genuine
<1>4. InStep(c)'
    BY <1>1 DEF ClientOK, InStep, Awaiting, TheCall
<1>5. RepliesOK(c)'
    <2>1. SUFFICES ASSUME NEW i \in 1..Len(conn[c].rep) PROVE Truthful(c, conn[c].rep[i])'
        BY DEF RepliesOK
    <2>2. conn[c].rep[i] \in Answers /\ Truthful(c, conn[c].rep[i])
        BY <1>1, Types DEF ClientOK, RepliesOK
    <2>3. \A j \in 1..Len(calls) : \A k : j < run[c].id /\ ToldSet(j, c, k)' => ToldSet(j, c, k)
        BY DEF ToldSet
    <2>4. CallsOK
        BY DEF Safe, Consistent
    <2> QED
        BY <2>2, <2>3, <2>4, TruthfulKept
<1> QED
    BY <1>2, <1>3, <1>4, <1>5 DEF ClientOK

\* What the server answers is so.
LEMMA ReplyTrue ==
    ASSUME Safe, UNCHANGED <<calls, run>>, NEW c \in Clients,
           NEW r \in Requests, Genuine(r), r.id = run[c].id, Execute(r),
           ~Retryable(calls[r.id].call.op) =>
              \A n \in 1..Len(effects) :
                 effects[n].req.id = r.id => effects[n].req.nr # r.nr,
           NEW p, p = Reply(r)
    PROVE  p \in Answers /\ p.to = r /\ Truthful(c, p)'
<1>1. PICK ans, vals : /\ ans = Answer(r)
                       /\ vals = IF r.op \in Fetching THEN Found(r.keys) ELSE NoKeys
    OBVIOUS
<1>2. p = [to |-> r, ans |-> ans, vals |-> vals]
    BY <1>1 DEF Reply
<1>3. vals \in [Keys -> Nat]
    BY <1>1, Types DEF Found, NoKeys
<1>4. ans \in {"STORED", "EXISTS", "NUMBER", "NOT_FOUND", "DELETED", "VALUES", "ERROR"}
    BY <1>1 DEF Answer
<1>5. p \in Answers /\ p.to = r /\ p.ans = ans /\ p.vals = vals
    BY <1>2, <1>3, <1>4 DEF Answers
<1>6. /\ KeepsCalls /\ KeepsEffects
      /\ Answer(r) \in {"STORED", "NUMBER"} => Took(r.id)' # {}
      /\ r.op = "delete" => store'[r.keys[1]] = 0
    BY Executed
<1>7. Genuine(r)'
    BY <1>6, GenuineKept
<1>8. r.op = "delete" => \A n : Gone(r.keys, n)'
    <2>1. SUFFICES ASSUME r.op = "delete", NEW n, NEW k \in Range(r.keys) PROVE store'[k] = 0
        BY DEF Gone
    <2>2. PICK l : r.keys = <<l>>
        BY <2>1, GenuineOps
    <2>3. k = l /\ r.keys[1] = l
        BY <2>1, <2>2 DEF Range
    <2> QED
        BY <1>6, <2>1, <2>3
<1>9. ASSUME r.op \in Fetching, NEW k \in Range(r.keys), NEW j \in 1..Len(calls),
             ToldSet(j, c, k)'
      PROVE  NotOlder(j, k, vals[k])'
    <2>1. k \in Keys /\ vals[k] = store[k]
        <3>1. r.keys \in Seq(Keys)
            BY DEF Requests
        <3>2. k \in Keys
            BY <1>9, <3>1 DEF Range
        <3> QED
            BY <1>1, <1>9, <3>2 DEF Found
    <2>2. ToldSet(j, c, k)
        BY <1>9 DEF ToldSet
    <2>3. PICK n \in Took(j) : TRUE
        BY <2>2 DEF ToldSet, Safe, AnswersTrue
    <2>4. n \in 1..Len(effects) /\ effects[n].req.id = j /\ j # 0
        BY <2>3, Types DEF Took
    <2>5. effects[n].req \in Requests /\ Genuine(effects[n].req)
        <3>1. effects[n] \in Effects
            BY <2>4, Types
        <3> QED
            BY <2>4, <3>1 DEF Effects, Safe, Consistent, EffectsOK
    <2>6. effects[n].req.keys = calls[j].call.keys
        <3>1. calls[j].call.op \notin {"set_multi", "delete_multi"}
            BY <2>2 DEF ToldSet
        <3> QED
            BY <2>4, <2>5, <3>1, GenuineKeys
    <2>7. effects[n].req.keys[1] = k
        BY <2>2, <2>6 DEF ToldSet
    <2>8. store[k] >= n \/ (store[k] = 0 /\ Deleted(k, n))
        BY <2>4, <2>7 DEF Safe, Consistent, StoreOK
    <2>9. NotOlder(j, k, vals[k])
        BY <2>1, <2>3, <2>8 DEF NotOlder
    <2> QED
        BY <1>6, <2>9, NotOlderKept
<1>10. Truthful(c, p)'
    <2>1. p.ans \in {"STORED", "NUMBER"} => Took(r.id)' # {}
        BY <1>1, <1>5, <1>6
    <2> QED
        BY <1>5, <1>7, <1>8, <1>9, <2>1 DEF Truthful
<1> QED
    BY <1>5, <1>10

\* The command of a request that is not "add" is answered once.
LEMMA OneReply ==
    ASSUME Safe, KnownCalls, NEW r, Genuine(r)
    PROVE  Replies(r) = <<Reply(r)>>
<1>1. calls[r.id] \in Records /\ calls[r.id].call \in Calls[calls[r.id].by]
    BY Types DEF Genuine, Safe, Consistent, CallsOK
<1>2. calls[r.id].by \in Clients
    BY <1>1 DEF Records
<1>3. r.op # "add"
    BY <1>1, <1>2, GenuineOps DEF KnownCalls
<1> QED
    BY <1>3 DEF Replies

\* A request is executed and answered.
LEMMA ServeSafe ==
    ASSUME Safe, KnownCalls, NEW c \in Clients, Serve(c)
    PROVE  Safe'
<1>1. PICK rep, req, w, id, r, p :
         /\ rep = conn[c].rep /\ req = conn[c].req /\ w = run[c].want /\ id = run[c].id
         /\ r = Head(req) /\ p = Reply(r)
    OBVIOUS
<1>2. /\ sock[c] /\ conn[c].end = "up" /\ req # << >> /\ Execute(r)
      /\ conn' = [conn EXCEPT ![c].req = Tail(@), ![c].rep = @ \o Replies(r)]
      /\ UNCHANGED <<server, late, sock, dead, ids, run, troubles, calls, fetched, missed>>
    BY <1>1 DEF Serve
<1>3. /\ rep \in Seq(Answers) /\ req \in Seq(Requests) /\ w \in Seq(Requests)
      /\ conn \in [Clients -> Sockets] /\ conn[c] \in Sockets
    BY <1>1, Types DEF Safe, Consistent, TypeOK
<1>4. /\ RunOK(c) /\ ConnOK(c) /\ InStep(c) /\ RepliesOK(c)
      /\ OneCalls(req, id) /\ Unserved(req)
    BY <1>1 DEF Safe, Consistent, ClientOK, ConnOK
<1>5. Awaiting(c) /\ id # 0
    BY <1>1, <1>2, <1>4 DEF InStep, Awaiting
<1>6. /\ OneCalls(Tail(req), id) /\ Tail(req) \in Seq(Requests)
      /\ Len(Tail(req)) = Len(req) - 1
      /\ \A i \in 1..Len(Tail(req)) : Tail(req)[i] = req[i + 1]
      /\ r \in Requests /\ Genuine(r) /\ r.id = id
      /\ \A i \in 1..Len(Tail(req)) : Tail(req)[i].nr > r.nr
    BY <1>1, <1>2, <1>3, <1>4, TailOneCalls
<1>7. ~Retryable(calls[r.id].call.op) =>
         \A n \in 1..Len(effects) : effects[n].req.id = r.id => effects[n].req.nr # r.nr
    <2>1. 1 \in 1..Len(req) /\ r = req[1]
        BY <1>1, <1>2, <1>3
    <2> QED
        BY <1>4, <2>1 DEF Unserved
<1>8. /\ KeepsCalls /\ KeepsEffects /\ MovesOn
      /\ store' \in [Keys -> 0..Len(effects')] /\ store' \in [Keys -> Nat]
      /\ EffectsOK' /\ StoreOK' /\ AtMostOnce' /\ AnswersTrue' /\ ReadsOwnWrites' /\ CallsOK'
      /\ \A n \in 1..Len(effects') :
            effects'[n].req = r \/ (n \in 1..Len(effects) /\ effects'[n] = effects[n])
    BY <1>2, <1>6, <1>7, Executed
<1>9. p \in Answers /\ p.to = r /\ Truthful(c, p)'
    BY <1>1, <1>2, <1>6, <1>7, ReplyTrue
<1>10. PICK t, q : t = Tail(req) /\ q = Append(rep, p)
    OBVIOUS
<1>11. /\ conn' \in [Clients -> Sockets] /\ conn'[c].req = t /\ conn'[c].rep = q
       /\ conn'[c].end = "up" /\ \A d \in Clients \ {c} : conn'[d] = conn[d]
       /\ q \in Seq(Answers) /\ Len(q) = Len(rep) + 1 /\ q[Len(rep) + 1] = p
       /\ \A i \in 1..Len(rep) : q[i] = rep[i]
    <2>1. Replies(r) = <<p>>
        BY <1>1, <1>6, OneReply
    <2>2. rep \o <<p>> = q
        BY <1>3, <1>9, <1>10
    <2>3. /\ q \in Seq(Answers) /\ Len(q) = Len(rep) + 1 /\ q[Len(rep) + 1] = p
          /\ \A i \in 1..Len(rep) : q[i] = rep[i]
        BY <1>3, <1>9, <1>10
    <2>4. PICK new : new = [conn[c] EXCEPT !.req = t, !.rep = q]
        OBVIOUS
    <2>5. conn' = [conn EXCEPT ![c] = new]
        BY <1>1, <1>2, <1>3, <1>10, <2>1, <2>2, <2>4
    <2>6. new \in Sockets /\ new.req = t /\ new.rep = q /\ new.end = "up"
        BY <1>2, <1>3, <1>6, <1>10, <2>3, <2>4 DEF Sockets
    <2> QED
        BY <1>3, <2>3, <2>5, <2>6
<1>12. RunOK(c)'
    BY <1>2, <1>4 DEF RunOK, OneCalls, Genuine, TheCall
<1>13. ConnOK(c)'
    <2>1. OneCalls(t, id)'
        BY <1>6, <1>8, <1>10, OneCallsKept
    <2>2. Unserved(t)
        <3>1. \A i \in 1..Len(t) : i + 1 \in 1..Len(req) /\ t[i] = req[i + 1]
            BY <1>3, <1>6, <1>10
        <3> QED
            BY <1>4, <3>1 DEF Unserved
    <2>3. \A i \in 1..Len(t) : t[i].nr # r.nr
        <3>1. ASSUME NEW i \in 1..Len(t) PROVE t[i].nr # r.nr
            <4>1. t[i] \in Requests /\ t[i].nr > r.nr
                BY <1>6, <1>10
            <4>2. t[i].nr \in Nat /\ r.nr \in Nat
                BY <1>6, <4>1 DEF Requests
            <4> QED BY <4>1, <4>2
        <3> QED BY <3>1
    <2>4. Unserved(t)'
        BY <1>2, <1>8, <2>2, <2>3, UnservedStill
    <2>5. OneCalls(conn[c].req, run[c].id)' /\ Unserved(conn[c].req)'
        BY <1>1, <1>2, <1>11, <2>1, <2>4
    <2> QED
        BY <1>2, <1>11, <2>5 DEF ConnOK
<1>14. Len(rep) \in Nat /\ Len(req) \in Nat \ {0} /\ Len(w) \in Nat /\ Len(t) = Len(req) - 1
       /\ Len(rep) + Len(req) <= Len(w)
    <2>1. Len(req) # 0
        BY <1>2, <1>3
    <2>2. Len(rep) + Len(req) <= Len(w)
        BY <1>1, <1>4, <1>5 DEF InStep
    <2>3. Len(rep) \in Nat /\ Len(req) \in Nat /\ Len(w) \in Nat
        BY <1>3
    <2> QED
        BY <1>6, <1>10, <2>1, <2>2, <2>3
<1>15. InStep(c)'
    <2>1. Len(q) + Len(t) <= Len(w)
        <3>1. \A l, m, n \in Nat : l + m <= n => l + 1 + (m - 1) <= n
            OBVIOUS
        <3> QED
            BY <1>11, <1>14, <3>1
    <2>2. ASSUME TheCall(c).big = {}
          PROVE  /\ \A i \in 1..Len(q) : q[i].to = w[i]
                 /\ \A i \in 1..Len(t) : t[i] = w[Len(q) + i]
        <3>1. /\ \A i \in 1..Len(rep) : rep[i].to = w[i]
              /\ \A i \in 1..Len(req) : req[i] = w[Len(rep) + i]
            BY <1>1, <1>4, <1>5, <2>2 DEF InStep
        <3>2. ASSUME NEW i \in 1..Len(q) PROVE q[i].to = w[i]
            <4>1. i \in 1..Len(rep) \/ i = Len(rep) + 1
                BY <1>11, <1>14
            <4>2. 1 \in 1..Len(req) /\ r = req[1]
                BY <1>1, <1>2, <1>3
            <4>3. r = w[Len(rep) + 1]
                BY <3>1, <4>2
            <4> QED
                BY <1>9, <1>11, <3>1, <4>1, <4>3
        <3>3. ASSUME NEW i \in 1..Len(t) PROVE t[i] = w[Len(q) + i]
            <4>1. i + 1 \in 1..Len(req) /\ Len(rep) + (i + 1) = Len(q) + i
                BY <1>11, <1>14
            <4> QED
                BY <1>6, <1>10, <3>1, <4>1
        <3> QED BY <3>2, <3>3
    <2>3. TheCall(c)' = TheCall(c) /\ Awaiting(c)'
        BY <1>2, <1>5 DEF TheCall, Awaiting
    <2>4. run'[c].want = w
        BY <1>1, <1>2
    <2> QED
        BY <1>11, <2>1, <2>2, <2>3, <2>4 DEF InStep
<1>16. RepliesOK(c)'
    <2>1. SUFFICES ASSUME NEW i \in 1..Len(q) PROVE Truthful(c, q[i])'
        BY <1>11 DEF RepliesOK
    <2>2. CASE i = Len(rep) + 1
        BY <1>9, <1>11, <2>2
    <2>3. CASE i \in 1..Len(rep)
        <3>1. q[i] \in Answers /\ Truthful(c, q[i])
            BY <1>1, <1>3, <1>4, <1>11, <2>3, SMTT(30) DEF RepliesOK
        <3>2. \A j \in 1..Len(calls) : \A k : j < run[c].id /\ ToldSet(j, c, k)' => ToldSet(j, c, k)
            BY <1>2 DEF ToldSet
        <3>3. CallsOK
            BY DEF Safe, Consistent
        <3> QED
            BY <1>2, <1>8, <3>1, <3>2, <3>3, TruthfulKept
    <2> QED
        BY <1>11, <1>14, <2>2, <2>3
<1>17. ASSUME NEW d \in Clients PROVE ClientOK(d)'
    <2>1. CASE d = c
        BY <1>12, <1>13, <1>15, <1>16, <2>1 DEF ClientOK
    <2>2. CASE d # c
        <3>1. conn'[d] = conn[d] /\ RunOK(d) /\ ConnOK(d)
            BY <1>11, <2>2 DEF Safe, Consistent, ClientOK
        <3>2. PICK s : s = conn[d].req
            OBVIOUS
        <3>3. \A i \in 1..Len(s) : s[i].id # r.id
            <4>1. s = << >> \/ run[d].id # id
                <5>1. run[d].id # 0 => run[d].id # id
                    BY <1>1, <1>4, <1>5, <2>2, <3>1 DEF RunOK, Awaiting
                <5>2. run[d].id = 0 => s = << >>
                    BY <3>2, NothingUnderWay DEF Awaiting
                <5> QED BY <5>1, <5>2
            <4>2. \A i \in 1..Len(s) : s[i].id = run[d].id
                BY <3>1, <3>2 DEF ConnOK, OneCalls
            <4> QED
                BY <1>6, <4>1, <4>2
        <3>4. Unserved(s)'
            BY <1>2, <1>8, <3>1, <3>2, <3>3, UnservedStill, ZenonT(60) DEF ConnOK
        <3>5. Unserved(conn[d].req)'
            BY <3>1, <3>2, <3>4
        <3> QED
            BY <1>2, <1>8, <3>1, <3>5, OnlookerOK
    <2> QED BY <2>1, <2>2
<1>18. LateOK'
    <2>1. ASSUME NEW reqs \in late
          PROVE  LET m == Head(reqs).id IN
                 /\ OneCalls(reqs, m)' /\ Unserved(reqs)'
                 /\ calls[m].ret \notin {"yes", "number"}
                 /\ \A d \in Clients : run[d].id # m
        <3>1. LET m == Head(reqs).id IN
              /\ OneCalls(reqs, m) /\ Unserved(reqs)
              /\ calls[m].ret \notin {"yes", "number"}
              /\ \A d \in Clients : run[d].id # m
            BY DEF Safe, Consistent, LateOK
        <3>2. \A i \in 1..Len(reqs) : reqs[i].id # r.id
            BY <1>1, <1>6, <3>1 DEF OneCalls
        <3> QED
            BY <1>2, <1>8, <3>1, <3>2, OneCallsKept, UnservedStill
    <2>2. \A a, b \in late : Head(a).id = Head(b).id => a = b
        BY DEF Safe, Consistent, LateOK
    <2> QED
        BY <1>2, <2>1, <2>2 DEF LateOK
<1>19. TypeOK' /\ CacheOK'
    BY <1>2, <1>8, <1>11 DEF Safe, Consistent, TypeOK, CacheOK, KeepsEffects
<1> QED
    BY <1>8, <1>17, <1>18, <1>19 DEF Safe, Consistent

\* A request left behind is executed.
LEMMA ServeLateSafe ==
    ASSUME Safe, NEW reqs \in late, ServeLate(reqs)
    PROVE  Safe'
<1>1. PICK r, id, t : r = Head(reqs) /\ id = r.id /\ t = Tail(reqs)
    OBVIOUS
<1>2. /\ Execute(r) /\ late' = (late \ {reqs}) \cup ({t} \ {<< >>})
      /\ UNCHANGED <<server, conn, sock, dead, ids, run, troubles, calls, fetched, missed>>
    BY <1>1 DEF ServeLate
<1>3. /\ reqs \in Seq(Requests) /\ reqs # << >> /\ OneCalls(reqs, id) /\ Unserved(reqs)
      /\ calls[id].ret \notin {"yes", "number"} /\ \A c \in Clients : run[c].id # id
      /\ \A s \in late \ {reqs} : Head(s).id # id
    BY <1>1 DEF Safe, Consistent, LateOK, TypeOK
<1>4. /\ OneCalls(t, id) /\ t \in Seq(Requests) /\ Len(t) = Len(reqs) - 1
      /\ \A i \in 1..Len(t) : t[i] = reqs[i + 1]
      /\ r \in Requests /\ Genuine(r) /\ \A i \in 1..Len(t) : t[i].nr > r.nr
    BY <1>1, <1>3, TailOneCalls
<1>5. ~Retryable(calls[r.id].call.op) =>
         \A n \in 1..Len(effects) : effects[n].req.id = r.id => effects[n].req.nr # r.nr
    <2>1. 1 \in 1..Len(reqs) /\ r = reqs[1]
        BY <1>1, <1>3
    <2> QED
        BY <1>3, <2>1 DEF Unserved
<1>6. /\ KeepsCalls /\ KeepsEffects /\ MovesOn
      /\ store' \in [Keys -> 0..Len(effects')] /\ store' \in [Keys -> Nat]
      /\ EffectsOK' /\ StoreOK' /\ AtMostOnce' /\ AnswersTrue' /\ ReadsOwnWrites' /\ CallsOK'
      /\ \A n \in 1..Len(effects') :
            effects'[n].req = r \/ (n \in 1..Len(effects) /\ effects'[n] = effects[n])
    BY <1>2, <1>4, <1>5, Executed
<1>7. ASSUME NEW c \in Clients PROVE ClientOK(c)'
    <2>1. PICK s : s = conn[c].req
        OBVIOUS
    <2>2. OneCalls(s, run[c].id) /\ Unserved(s)
        BY <2>1 DEF Safe, Consistent, ClientOK, ConnOK
    <2>3. \A i \in 1..Len(s) : s[i].id # r.id
        BY <1>1, <1>3, <2>2 DEF OneCalls
    <2>4. Unserved(s)'
        BY <1>2, <1>6, <2>2, <2>3, UnservedStill
    <2>5. Unserved(conn[c].req)'
        BY <1>2, <2>1, <2>4
    <2> QED
        BY <1>2, <1>6, <2>5, OnlookerOK
<1>8. OneCalls(t, id)' /\ Unserved(t)' /\ (t # << >> => Head(t).id = id)
    <2>1. Unserved(t)
        <3>1. \A i \in 1..Len(t) : i + 1 \in 1..Len(reqs) /\ t[i] = reqs[i + 1]
            BY <1>3, <1>4
        <3> QED
            BY <1>3, <3>1 DEF Unserved
    <2>2. ASSUME NEW i \in 1..Len(t) PROVE t[i].nr # r.nr
        <3>1. t[i] \in Requests /\ t[i].nr > r.nr
            BY <1>4
        <3>2. t[i].nr \in Nat /\ r.nr \in Nat
            BY <1>4, <3>1 DEF Requests
        <3> QED BY <3>1, <3>2
    <2>3. Unserved(t)'
        BY <1>2, <1>6, <2>1, <2>2, UnservedStill
    <2>4. OneCalls(t, id)'
        BY <1>4, <1>6, OneCallsKept
    <2>5. t # << >> => Head(t).id = id
        BY <1>4 DEF OneCalls
    <2> QED
        BY <2>3, <2>4, <2>5
<1>9. LateOK'
    <2>1. ASSUME NEW s \in late \ {reqs}
          PROVE  LET m == Head(s).id IN
                 /\ OneCalls(s, m)' /\ Unserved(s)'
                 /\ calls[m].ret \notin {"yes", "number"}
                 /\ \A c \in Clients : run[c].id # m
        <3>1. LET m == Head(s).id IN
              /\ OneCalls(s, m) /\ Unserved(s)
              /\ calls[m].ret \notin {"yes", "number"}
              /\ \A c \in Clients : run[c].id # m
            BY DEF Safe, Consistent, LateOK
        <3>2. \A i \in 1..Len(s) : s[i].id # r.id
            BY <1>1, <1>3, <3>1 DEF OneCalls
        <3> QED
            BY <1>2, <1>6, <3>1, <3>2, OneCallsKept, UnservedStill
    <2>2. \A a, b \in late : Head(a).id = Head(b).id => a = b
        BY DEF Safe, Consistent, LateOK
    <2>3. ASSUME NEW s \in late'
          PROVE  LET m == Head(s).id IN
                 /\ OneCalls(s, m)' /\ Unserved(s)'
                 /\ calls[m].ret \notin {"yes", "number"}
                 /\ \A c \in Clients : run[c].id # m
        <3>1. CASE s \in late \ {reqs}
            BY <2>1, <3>1
        <3>2. CASE s = t /\ t # << >>
            BY <1>3, <1>8, <3>2
        <3> QED BY <1>2, <3>1, <3>2
    <2>4. ASSUME NEW a \in late', NEW b \in late', Head(a).id = Head(b).id PROVE a = b
        <3>1. /\ a \in late \ {reqs} \/ (a = t /\ t # << >>)
              /\ b \in late \ {reqs} \/ (b = t /\ t # << >>)
            BY <1>2
        <3> QED
            BY <1>3, <1>8, <2>2, <2>4, <3>1
    <2> QED
        BY <1>2, <2>3, <2>4 DEF LateOK
<1>10. TypeOK' /\ CacheOK'
    <2>1. \A s \in late' : s \in Seq(Requests) /\ s # << >>
        BY <1>2, <1>4 DEF Safe, Consistent, TypeOK
    <2> QED
        BY <1>2, <1>6, <2>1 DEF Safe, Consistent, TypeOK, CacheOK, KeepsEffects
<1> QED
    BY <1>6, <1>7, <1>9, <1>10 DEF Safe, Consistent

-----------------------------------------------------------------------------
(* At first, and then for ever.                                            *)

\* The keys that are there at first, in some order.
LEMMA PresentInOrder ==
    LET ks == SetToSeq(Present) IN
    /\ ks \in Seq(Present) /\ Len(ks) \in Nat
    /\ \A i, j \in 1..Len(ks) : ks[i] = ks[j] => i = j
    /\ \A k \in Present : \E i \in 1..Len(ks) : ks[i] = k
<1>1. IsFiniteSet(Present) /\ Cardinality(Present) \in Nat
    BY BoundsAssumption, FS_CardinalityType
<1>2. PICK n : n = Cardinality(Present)
    OBVIOUS
<1>3. ExistsBijection(1..n, Present)
    BY <1>1, <1>2, FS_NatBijection, FS_CountingElements
<1>4. PICK f \in [1..n -> Present] :
         /\ \A i, j \in 1..n : f[i] = f[j] => i = j
         /\ \A k \in Present : \E i \in 1..n : f[i] = k
    BY <1>3 DEF ExistsBijection, Bijection, Injection, Surjection, IsInjective
<1> DEFINE ks == SetToSeq(Present)
<1>5. ks \in [1..n -> Present] /\ IsInjective(ks)
    <2>1. f \in [1..n -> Present] /\ IsInjective(f)
        BY <1>4 DEF IsInjective
    <2>2. \E g \in [1..n -> Present] : IsInjective(g)
        BY <2>1
    <2> QED
        BY <1>2, <2>2, Zenon DEF SetToSeq
<1> HIDE DEF ks
<1>6. \A i, j \in 1..n : ks[i] = ks[j] => i = j
    BY <1>5 DEF IsInjective
<1>7. ks \in Seq(Present) /\ Len(ks) = n /\ n \in Nat
    BY <1>1, <1>2, <1>5
<1>8. ks \in Surjection(1..n, Present)
    <2>1. ks \in Injection(1..n, Present)
        BY <1>5 DEF Injection
    <2>2. IsFiniteSet(1..n) /\ Cardinality(1..n) = n
        BY <1>7, FS_Interval
    <2> QED
        BY <1>1, <1>2, <2>1, <2>2, FS_Injection
<1>9. \A k \in Present : \E i \in 1..Len(ks) : ks[i] = k
    BY <1>7, <1>8 DEF Surjection
<1> QED
    BY <1>6, <1>7, <1>9 DEF ks

\* When the clients start.
LEMMA InitSafe ==
    ASSUME Init
    PROVE  Safe
<1>1. PICK ks : ks = SetToSeq(Present)
    OBVIOUS
<1>2. /\ ks \in Seq(Present) /\ Len(ks) \in Nat
      /\ \A i, j \in 1..Len(ks) : ks[i] = ks[j] => i = j
      /\ \A k \in Present : \E i \in 1..Len(ks) : ks[i] = k
    BY <1>1, PresentInOrder
<1>3. \A n \in 1..Len(ks) : ks[n] \in Present /\ ks[n] \in Keys
    BY <1>2, BoundsAssumption
<1>4. /\ server = "up" /\ late = {} /\ conn = [c \in Clients |-> Fresh]
      /\ sock = [c \in Clients |-> FALSE] /\ dead = [c \in Clients |-> FALSE]
      /\ ids = [c \in Clients |-> [k \in Keys |-> 0]] /\ run = [c \in Clients |-> Idle]
      /\ calls = << >> /\ fetched = [c \in Clients |-> [k \in Keys |-> 0]]
      /\ missed = [c \in Clients |-> {}]
      /\ effects = [n \in 1..Len(ks) |-> Earlier(n, ks[n])]
      /\ store = [k \in Keys |-> IF k \in Present
                                 THEN CHOOSE n \in 1..Len(ks) : ks[n] = k ELSE 0]
    BY <1>1 DEF Init
<1>5. ASSUME NEW n \in 1..Len(ks)
      PROVE  /\ effects[n] \in Effects /\ effects[n].old = 0
             /\ effects[n].req.id = 0 /\ effects[n].req.nr = n
             /\ effects[n].req.op = "set" /\ effects[n].req.keys = <<ks[n]>>
    <2>1. PICK k \in Keys : k = ks[n]
        BY <1>3
    <2>2. effects[n] = [req |-> [id |-> 0, nr |-> n, op |-> "set", keys |-> <<k>>, sign |-> 0],
                        old |-> 0]
        BY <1>4, <2>1 DEF Earlier
    <2>3. [id |-> 0, nr |-> n, op |-> "set", keys |-> <<k>>, sign |-> 0] \in Requests
        BY <1>2 DEF Requests
    <2>4. effects[n] \in Effects
        BY <2>2, <2>3 DEF Effects
    <2> QED
        BY <2>1, <2>2, <2>4
<1>6. effects \in Seq(Effects) /\ Len(effects) = Len(ks)
    BY <1>2, <1>4, <1>5
<1>7. ASSUME NEW n \in 1..Len(ks) PROVE store[ks[n]] = n
    BY <1>2, <1>3, <1>4
<1>8. store \in [Keys -> 0..Len(effects)]
    <2>1. ASSUME NEW k \in Keys
          PROVE  (IF k \in Present THEN CHOOSE n \in 1..Len(ks) : ks[n] = k ELSE 0) \in 0..Len(ks)
        <3>1. CASE k \in Present
            <4>1. (CHOOSE n \in 1..Len(ks) : ks[n] = k) \in 1..Len(ks)
                BY <1>2, <3>1
            <4> QED
                BY <1>2, <3>1, <4>1
        <3>2. CASE k \notin Present
            BY <1>2, <3>2
        <3> QED BY <3>1, <3>2
    <2> QED
        BY <1>4, <1>6, <2>1
<1>9. TypeOK
    <2>1. Idle \in Runs /\ << >> \in Seq(Records)
        BY DEF Idle, Runs
    <2> QED
        BY <1>4, <1>6, <1>8, <2>1, FreshSocket DEF TypeOK
<1>10. ASSUME NEW c \in Clients PROVE ClientOK(c)
    <2>1. /\ run[c].id = 0 /\ run[c].want = << >> /\ conn[c] = Fresh
          /\ conn[c].req = << >> /\ conn[c].rep = << >> /\ conn[c].end = "up"
        BY <1>4 DEF Idle, Fresh
    <2>2. RunOK(c) /\ InStep(c) /\ RepliesOK(c)
        BY <2>1 DEF RunOK, InStep, Awaiting, RepliesOK
    <2>3. ConnOK(c)
        BY <2>1 DEF ConnOK, OneCalls, Unserved
    <2> QED
        BY <2>2, <2>3 DEF ClientOK
<1>11. CallsOK /\ CacheOK /\ LateOK /\ AnswersTrue /\ ReadsOwnWrites
    BY <1>4, BoundsAssumption DEF CallsOK, CacheOK, LateOK, AnswersTrue, ReadsOwnWrites
<1>12. EffectsOK /\ AtMostOnce
    <2>1. ASSUME NEW n \in 1..Len(ks) PROVE effects[n].req.keys # << >> /\ effects[n].old < n
        <3>1. \A k : <<k>> # << >>
            OBVIOUS
        <3>2. effects[n].req.keys # << >>
            BY <1>5, <3>1, SMTT(30)
        <3>3. effects[n].old < n
            BY <1>2, <1>5
        <3> QED BY <3>2, <3>3
    <2>2. EffectsOK
        BY <1>5, <1>6, <2>1 DEF EffectsOK
    <2>3. AtMostOnce
        BY <1>2, <1>5, <1>6 DEF AtMostOnce
    <2> QED BY <2>2, <2>3
<1>13. StoreOK
    <2>1. ASSUME NEW n \in 1..Len(ks) PROVE store[effects[n].req.keys[1]] >= n
        <3>1. effects[n].req.keys[1] = ks[n]
            BY <1>5
        <3> QED
            BY <1>2, <1>7, <3>1
    <2> QED
        BY <1>6, <2>1 DEF StoreOK
<1> QED
    BY <1>9, <1>10, <1>11, <1>12, <1>13 DEF Safe, Consistent

\* Every step.
LEMMA NextSafe ==
    ASSUME KnownCalls, Safe, [Next]_vars
    PROVE  Safe'
<1>1. CASE UNCHANGED vars
    <2>1. server \in {"up", "down"} /\ dead \in [Clients -> BOOLEAN]
        BY DEF Safe, Consistent, TypeOK
    <2> QED
        BY <1>1, <2>1, NothingNew DEF vars
<1>2. ASSUME NEW c \in Clients, Process(c) PROVE Safe'
    <2>1. CASE \E call \in Calls[c] : \/ StartRefused(c, call) \/ StartTooBig(c, call)
                                      \/ StartUnsent(c, call) \/ DisconnectAll(c, call)
        BY <2>1, StartFailedSafe
    <2>2. CASE \E call \in Calls[c] : Start(c, call)
        BY <2>2, StartSafe
    <2>3. CASE Receive(c)
        BY <2>3, ReceiveLastSafe, ReceiveSomeSafe
    <2>4. CASE Retry(c) \/ CutShort(c)
        BY <2>4, RetrySafe, CutShortSafe
    <2>5. CASE RetryRefused(c) \/ RetryEnded(c) \/ Raise(c) \/ Fail(c) \/ GiveUp(c)
        BY <2>5, GiveUpSafe
    <2>6. CASE Revive(c)
        <3>1. server \in {"up", "down"} /\ dead \in [Clients -> BOOLEAN]
            BY DEF Safe, Consistent, TypeOK
        <3> QED
            BY <2>6, <3>1, NothingNew DEF Revive
    <2> QED
        BY <1>2, <2>1, <2>2, <2>3, <2>4, <2>5, <2>6 DEF Process, Proceed
<1>3. ASSUME NEW c \in Clients, Serve(c) PROVE Safe'
    BY <1>3, ServeSafe
<1>4. ASSUME NEW reqs \in late, ServeLate(reqs) PROVE Safe'
    BY <1>4, ServeLateSafe
<1>5. ASSUME NEW reqs \in late, LoseLate(reqs) PROVE Safe'
    <2>1. server \in {"up", "down"} /\ dead \in [Clients -> BOOLEAN]
        BY DEF Safe, Consistent, TypeOK
    <2> QED
        BY <1>5, <2>1, NothingNew DEF LoseLate
<1>6. CASE Stop
    BY <1>6, StopSafe
<1>7. CASE Boot
    <2>1. dead \in [Clients -> BOOLEAN]
        BY DEF Safe, Consistent, TypeOK
    <2> QED
        BY <1>7, <2>1, NothingNew DEF Boot
<1> QED
    BY <1>1, <1>2, <1>3, <1>4, <1>5, <1>6, <1>7 DEF Next

\* The induction.
LEMMA SafeAlways == KnownCalls => (Spec => []Safe)
<1>1. KnownCalls /\ Safe /\ [Next]_vars => Safe'
    BY NextSafe
<1>2. Init => Safe
    BY InitSafe
<1>3. SUFFICES ASSUME KnownCalls PROVE Spec => []Safe
    OBVIOUS
<1>4. Safe /\ [Next]_vars => Safe'
    BY <1>1, <1>3
<1> QED
    BY <1>2, <1>4, PTL DEF Spec

\* The inductive invariant: replies are the replies to the requests a client
\* is waiting for, what they say is still true when they are read, and what was
\* left on a closed socket belongs to a call that did not succeed.  As long as
\* no call is append, prepend, add or replace: the server answers those twice.
THEOREM ClientInvariance == KnownCalls => (Spec => []Consistent)
<1>1. Safe => Consistent
    BY DEF Safe
<1> QED
    BY <1>1, SafeAlways, PTL

\* A call that reports success was carried out.
THEOREM ToldTheTruth == KnownCalls => (Spec => []AnswersTrue)
<1>1. Safe => AnswersTrue
    BY DEF Safe
<1> QED
    BY <1>1, SafeAlways, PTL

\* Sending a request again after a stop of the server never counts twice.
THEOREM NeverTwice == KnownCalls => (Spec => []AtMostOnce)
<1>1. Safe => AtMostOnce
    BY DEF Safe
<1> QED
    BY <1>1, SafeAlways, PTL

\* A client reads what it has set, or something newer.
THEOREM OwnWritesRead == KnownCalls => (Spec => []ReadsOwnWrites)
<1>1. Safe => ReadsOwnWrites
    BY DEF Safe
<1> QED
    BY <1>1, SafeAlways, PTL

\* A client that remembers what gets returned (cache_cas) replaces with cas
\* only what it has fetched, unless gets has read a sign since whose value did
\* not come.
THEOREM CasReplacesFetched == KnownCalls /\ CacheCas => (Spec => []CasUnaltered)
<1>1. ASSUME CacheCas, Safe PROVE CasUnaltered
    <2>1. SUFFICES ASSUME NEW n \in 1..Len(effects), NEW r, r = effects[n].req, r.id # 0,
                          ~calls[r.id].missed,
                          calls[r.id].call.op = "cas", calls[r.id].seen # 0
                   PROVE  effects[n].old = calls[r.id].seen
        BY DEF CasUnaltered, Informed, Unaltered
    <2>2. Genuine(r) /\ (r.op = "cas" => effects[n].old = r.sign)
        BY <1>1, <2>1 DEF Safe, Consistent, EffectsOK
    <2>3. r.id \in 1..Len(calls) /\ calls[r.id].sign = calls[r.id].seen
        BY <1>1, <2>1, <2>2 DEF Safe, Consistent, CallsOK, SignOK, Genuine
    <2>4. r.op = "cas" /\ r.sign = calls[r.id].seen
        BY <2>1, <2>2, <2>3 DEF Genuine
    <2> QED
        BY <2>2, <2>4
<1>2. SUFFICES ASSUME KnownCalls, CacheCas PROVE Spec => []CasUnaltered
    OBVIOUS
<1>3. Safe => CasUnaltered
    BY <1>1, <1>2
<1> QED
    BY <1>2, <1>3, SafeAlways, PTL

\* What a call that has reported success did is over.
THEOREM NothingSurfacesLate == KnownCalls => (Spec => NoLateEffects)
<1> DEFINE Over == effects' # effects =>
                      LET id == Last(effects').req.id IN calls[id].ret \notin {"yes", "number"}
<1>1. ASSUME Safe, NEW r \in Requests, Execute(r), calls[r.id].ret \notin {"yes", "number"}
      PROVE  Over
    <2>1. SUFFICES ASSUME effects' # effects PROVE Last(effects').req = r
        BY <1>1
    <2>2. PICK e : e = [req |-> r, old |-> store[r.keys[1]]]
        OBVIOUS
    <2>3. effects' = Append(effects, e) /\ e.req = r
        BY <1>1, <2>1, <2>2 DEF Execute
    <2>4. effects'[Len(effects')] = e
        BY <1>1, <2>3, Types
    <2> QED
        BY <2>3, <2>4 DEF Last
<1>2. ASSUME Safe, [Next]_vars PROVE Over
    <2>1. ASSUME NEW c \in Clients, Serve(c) PROVE Over
        <3>1. PICK req : req = conn[c].req
            OBVIOUS
        <3>2. req \in Seq(Requests) /\ req # << >> /\ OneCalls(req, run[c].id) /\ InStep(c) /\ RunOK(c)
            BY <1>2, <2>1, <3>1, Types DEF Serve, Safe, Consistent, ClientOK, ConnOK
        <3>3. Head(req) \in Requests /\ Head(req).id = run[c].id
            BY <3>2, TailOneCalls
        <3>4. calls[run[c].id].ret = "pending"
            BY <3>1, <3>2 DEF InStep, RunOK, Awaiting
        <3>5. Execute(Head(req))
            BY <2>1, <3>1 DEF Serve
        <3> QED
            BY <1>1, <1>2, <3>3, <3>4, <3>5
    <2>2. ASSUME NEW reqs \in late, ServeLate(reqs) PROVE Over
        <3>1. reqs \in Seq(Requests) /\ reqs # << >> /\ OneCalls(reqs, Head(reqs).id)
              /\ calls[Head(reqs).id].ret \notin {"yes", "number"}
            BY <1>2, <2>2 DEF Safe, Consistent, TypeOK, LateOK
        <3>2. Head(reqs) \in Requests
            BY <3>1
        <3> QED
            BY <1>1, <1>2, <2>2, <3>1, <3>2 DEF ServeLate
    <2>3. ASSUME NEW c \in Clients, Process(c) PROVE effects' = effects
        <3>1. ASSUME NEW call \in Calls[c],
                     \/ StartRefused(c, call) \/ StartTooBig(c, call)
                     \/ Start(c, call) \/ StartUnsent(c, call) \/ DisconnectAll(c, call)
              PROVE  effects' = effects
            BY <3>1 DEF StartRefused, StartTooBig, Start, StartUnsent, DisconnectAll
        <3>2. ASSUME Receive(c) \/ CutShort(c) \/ Retry(c) \/ Revive(c)
              PROVE  effects' = effects
            BY <3>2 DEF Receive, CutShort, Retry, Revive
        <3>3. ASSUME RetryRefused(c) \/ RetryEnded(c) \/ Raise(c) \/ Fail(c) \/ GiveUp(c)
              PROVE  effects' = effects
            BY <3>3 DEF RetryRefused, RetryEnded, Raise, Fail, GiveUp
        <3> QED
            BY <2>3, <3>1, <3>2, <3>3 DEF Process, Proceed
    <2>4. CASE \/ UNCHANGED vars \/ Stop \/ Boot \/ \E reqs \in late : LoseLate(reqs)
        <3>1. effects' = effects
            BY <2>4 DEF vars, Stop, Boot, LoseLate
        <3> QED BY <3>1
    <2>5. (\E c \in Clients : Process(c)) => Over
        BY <2>3
    <2> QED
        BY <1>2, <2>1, <2>2, <2>4, <2>5 DEF Next
<1>3. Safe /\ [Next]_vars => Over
    BY <1>2
<1>4. SUFFICES ASSUME KnownCalls PROVE Spec => [][Over]_vars
    BY DEF NoLateEffects
<1> HIDE DEF Over
<1>5. Spec => []Safe
    BY <1>4, SafeAlways
<1> QED
    BY <1>3, <1>5, PTL DEF Spec

=============================================================================
