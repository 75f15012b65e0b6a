--------------------------- MODULE TstFaultsProofs ---------------------------
(***************************************************************************)
(* Proofs of what a full disk can do to the store, for any set of workers, *)
(* keys and requests, any number of failed writes and any number of        *)
(* crashes.                                                                *)
(***************************************************************************)
EXTENDS TstFaults, TstStoreProofs

USE DEF disk, process, locks, locals, env, history, Goto, TypeOK
USE DEF PutOps, DeleteOps, GetOps, ScanOps, WriteOps, ReadOps

\* What most steps leave alone: the count of failures and the hurt keys.
Unhurt == UNCHANGED <<nfault, hurt>>

-----------------------------------------------------------------------------
(* The part of the invariant that no failed write touches.                 *)

\* A worker that is at work has a key at hand, and its command is one of
\* those clients send.
LEMMA FaultAtWork ==
    ASSUME ShapeInv, NEW w \in Workers, pc[w] \notin {"idle", "exited", "reply"}
    PROVE  /\ Key(w) \in Keys
           /\ Tail(todo[w]) \in Seq(Keys)
           /\ todo[w] \in Seq(Keys) /\ todo[w] # << >>
           /\ req[w] \in Requests
           /\ off[w] \in Nat
<1>1. todo[w] \in Seq(Keys) /\ todo[w] # << >> /\ off[w] \in Nat
    BY DEF ShapeInv, LocalsTypeOK, FaultFrame, Resting
<1>2. req[w] \in Requests
    BY DEF ShapeInv, LocalsTypeOK, FaultFrame, Resting
<1> QED
    BY <1>1, <1>2 DEF Key

\* Advance leaves only a get at work, with its remaining keys.
LEMMA FaultAdvancing ==
    ASSUME ShapeInv, NEW w \in Workers, pc[w] \notin {"idle", "exited", "reply"}, Advance(w)
    PROVE  /\ todo' \in [Workers -> Seq(Keys)]
           /\ pc' \in [Workers -> Points]
           /\ \/ pc'[w] = "reply"
              \/ pc'[w] = "rdlock" /\ req[w].op \in GetOps /\ todo'[w] # << >>
           /\ \A v \in Workers \ {w} : pc'[v] = pc[v] /\ todo'[v] = todo[v]
<1>1. todo[w] \in Seq(Keys) /\ todo[w] # << >> /\ Tail(todo[w]) \in Seq(Keys)
    BY FaultAtWork
<1>2. req[w].op \notin GetOps => Len(todo[w]) = 1
    BY DEF ShapeInv, FaultFrame, Resting
<1>3. Len(todo[w]) # 1 => Tail(todo[w]) # << >>
    <2>1. Len(todo[w]) \in Nat /\ Len(Tail(todo[w])) = Len(todo[w]) - 1
        BY <1>1, HeadTailProperties
    <2>2. ASSUME Tail(todo[w]) = << >> PROVE Len(Tail(todo[w])) = 0
        BY <2>2, EmptySeq
    <2> QED BY <2>1, <2>2
<1> QED
    BY <1>1, <1>2, <1>3 DEF ShapeInv, LocalsTypeOK, Advance, Points

\* A step of one worker that leaves the binlog and the life of the process
\* alone: what is left to show is what it does to that worker.
LEMMA WorkerShape ==
    ASSUME ShapeInv, NEW w \in Workers,
           TypeOK', nfault' \in Nat, hurt' \subseteq Keys,
           UNCHANGED <<binlog, phase, rpos>>,
           LockInv',
           phase \in {"up", "stopping"},
           \A v \in Workers \ {w} : /\ pc'[v] = pc[v] /\ todo'[v] = todo[v] /\ req'[v] = req[v]
                                    /\ off'[v] = off[v] /\ got'[v] = got[v],
           FaultFrame(w)'
    PROVE  ShapeInv'
<1>1. PhaseInv' /\ BinlogKeyed'
    BY DEF ShapeInv, PhaseInv, BinlogKeyed
<1>2. ASSUME NEW v \in Workers PROVE FaultFrame(v)'
    <2>1. CASE v # w
        BY <2>1 DEF ShapeInv, FaultFrame, Resting
    <2> QED BY <2>1
<1> QED
    BY <1>1, <1>2 DEF ShapeInv

\* A worker is at work only while main waits for it.
LEMMA FaultServing ==
    ASSUME ShapeInv, NEW w \in Workers, pc[w] \notin {"idle", "exited"}
    PROVE  phase \in {"up", "stopping"}
BY DEF ShapeInv, PhaseInv, Resting

LEMMA ReceiveShape ==
    ASSUME ShapeInv, NEW w \in Workers, NEW r \in Requests, Receive(w, r), Unhurt
    PROVE  ShapeInv'
<1>1. TypeOK'
    <2>1. DiskTypeOK' /\ ProcessTypeOK'
        BY DEF ShapeInv, Receive, DiskTypeOK, ProcessTypeOK
    <2>2. LocalsTypeOK'
        BY RequestFacts DEF ShapeInv, Receive, LocalsTypeOK, Points
    <2>3. HistoryTypeOK'
        BY DEF ShapeInv, Receive, HistoryTypeOK
    <2> QED BY <2>1, <2>2, <2>3
<1>2. LockInv'
    BY DEF ShapeInv, LocalsTypeOK, Receive, LockInv, Holding
<1>3. FaultFrame(w)'
    BY RequestFacts DEF ShapeInv, LocalsTypeOK, Receive, FaultFrame, Resting
<1> QED
    BY <1>1, <1>2, <1>3, WorkerShape DEF ShapeInv, LocalsTypeOK, Receive, Unhurt

LEMMA LockWriterShape ==
    ASSUME ShapeInv, NEW w \in Workers, LockWriter(w), Unhurt
    PROVE  ShapeInv'
<1>1. TypeOK'
    BY DEF ShapeInv, LockWriter, MutexFree, DiskTypeOK, ProcessTypeOK, LocalsTypeOK, HistoryTypeOK, Points
<1>2. LockInv'
    BY NilAssumption DEF ShapeInv, LocalsTypeOK, LockWriter, MutexFree, LockInv, Holding
<1>3. FaultFrame(w)'
    BY DEF ShapeInv, LocalsTypeOK, LockWriter, FaultFrame, Resting
<1> QED
    BY <1>1, <1>2, <1>3, WorkerShape, FaultServing DEF ShapeInv, LocalsTypeOK, LockWriter, Unhurt

LEMMA LockIndexShape ==
    ASSUME ShapeInv, NEW w \in Workers, LockIndex(w), Unhurt
    PROVE  ShapeInv'
<1>1. TypeOK'
    BY DEF ShapeInv, LockIndex, DiskTypeOK, ProcessTypeOK, LocalsTypeOK, HistoryTypeOK, Points
<1>2. LockInv'
    BY NilAssumption DEF ShapeInv, LocalsTypeOK, LockIndex, NoReaders, LockInv, Holding
<1>3. FaultFrame(w)'
    BY DEF ShapeInv, LocalsTypeOK, LockIndex, FaultFrame, Resting
<1> QED
    BY <1>1, <1>2, <1>3, WorkerShape, FaultServing DEF ShapeInv, LocalsTypeOK, LockIndex, Unhurt

LEMMA RdLockShape ==
    ASSUME ShapeInv, NEW w \in Workers, RdLock(w), Unhurt
    PROVE  ShapeInv'
<1>1. TypeOK'
    BY DEF ShapeInv, RdLock, DiskTypeOK, ProcessTypeOK, LocalsTypeOK, HistoryTypeOK, Points
<1>2. LockInv'
    BY NilAssumption DEF ShapeInv, LocalsTypeOK, RdLock, LockInv, Holding
<1>3. FaultFrame(w)'
    BY DEF ShapeInv, LocalsTypeOK, RdLock, FaultFrame, Resting
<1> QED
    BY <1>1, <1>2, <1>3, WorkerShape, FaultServing DEF ShapeInv, LocalsTypeOK, RdLock, Unhurt

LEMMA WorkerExitShape ==
    ASSUME ShapeInv, NEW w \in Workers, WorkerExit(w), Unhurt
    PROVE  ShapeInv'
<1>1. TypeOK'
    BY DEF ShapeInv, WorkerExit, DiskTypeOK, ProcessTypeOK, LocalsTypeOK, HistoryTypeOK, Points
<1>2. LockInv'
    BY DEF ShapeInv, LocalsTypeOK, WorkerExit, LockInv, Holding
<1>3. FaultFrame(w)'
    BY DEF ShapeInv, LocalsTypeOK, WorkerExit, FaultFrame, Resting
<1> QED
    BY <1>1, <1>2, <1>3, WorkerShape DEF ShapeInv, LocalsTypeOK, WorkerExit, Unhurt

LEMMA ReplyShape ==
    ASSUME ShapeInv, NEW w \in Workers, Reply(w), Unhurt
    PROVE  ShapeInv'
<1>1. TypeOK'
    <2>1. DiskTypeOK' /\ ProcessTypeOK'
        BY DEF ShapeInv, Reply, DiskTypeOK, ProcessTypeOK
    <2>2. LocalsTypeOK'
        BY DEF ShapeInv, Reply, ClearFrame, LocalsTypeOK, Points, Record, Junk
    <2>3. HistoryTypeOK'
        BY DEF ShapeInv, Reply, ClearFrame, HistoryTypeOK, NoKeys
    <2> QED BY <2>1, <2>2, <2>3
<1>2. LockInv'
    BY DEF ShapeInv, LocalsTypeOK, Reply, LockInv, Holding
<1>3. FaultFrame(w)'
    BY DEF ShapeInv, LocalsTypeOK, Reply, ClearFrame, FaultFrame, Resting
<1> QED
    BY <1>1, <1>2, <1>3, WorkerShape, FaultServing DEF ShapeInv, LocalsTypeOK, Reply, ClearFrame, Unhurt

LEMMA CheckShape ==
    ASSUME ShapeInv, NEW w \in Workers, Check(w), Unhurt
    PROVE  ShapeInv'
<1>1. /\ req[w] \in Requests /\ req[w].op \notin {"incr", "decr"}
      /\ pc[w] = "check" /\ phase \in {"up", "stopping"}
    BY FaultAtWork, FaultServing, FaultsAssumption DEF Check
<1>2. tmp' = tmp /\ UNCHANGED <<disk, process, wrlock, readers, req, off, got, env, history>>
    BY <1>1 DEF Check, ShapeInv, LocalsTypeOK
<1>3. CASE MustGiveUp(w)
    <2>1. mutex' = Nil /\ Advance(w) /\ msg' = [msg EXCEPT ![w] = "fail"]
        BY <1>3 DEF Check, GiveUp
    <2>2. /\ todo' \in [Workers -> Seq(Keys)]
          /\ pc' \in [Workers -> Points]
          /\ \/ pc'[w] = "reply"
             \/ pc'[w] = "rdlock" /\ req[w].op \in GetOps /\ todo'[w] # << >>
          /\ \A v \in Workers \ {w} : pc'[v] = pc[v] /\ todo'[v] = todo[v]
        BY <1>1, <2>1, FaultAdvancing
    <2>3. TypeOK'
        BY <1>2, <2>1, <2>2 DEF ShapeInv, DiskTypeOK, ProcessTypeOK, LocalsTypeOK, HistoryTypeOK
    <2>4. LockInv'
        BY <1>1, <1>2, <2>1, <2>2, NilAssumption DEF ShapeInv, LockInv, Holding
    <2>5. FaultFrame(w)'
        BY <1>1, <1>2, <2>1, <2>2 DEF ShapeInv, FaultFrame, Resting
    <2> QED
        BY <1>1, <1>2, <2>2, <2>3, <2>4, <2>5, WorkerShape DEF ShapeInv, Unhurt
<1>4. CASE ~MustGiveUp(w)
    <2>1. TypeOK'
        BY <1>2, <1>4 DEF ShapeInv, Check, DiskTypeOK, ProcessTypeOK, LocalsTypeOK, HistoryTypeOK, Points
    <2>2. LockInv'
        BY <1>2, <1>4 DEF ShapeInv, LocalsTypeOK, Check, LockInv, Holding
    <2>3. FaultFrame(w)'
        BY <1>2, <1>4, SMTT(30) DEF ShapeInv, LocalsTypeOK, Check, FaultFrame, Resting
    <2> QED
        BY <1>1, <1>2, <1>4, <2>1, <2>2, <2>3, WorkerShape DEF ShapeInv, LocalsTypeOK, Check, Unhurt
<1> QED
    BY <1>3, <1>4

\* The record a put writes, with incr and decr left out.
LEMMA FaultNewRecord ==
    ASSUME ShapeInv, NEW w \in Workers, pc[w] = "data"
    PROVE  NewRecord(w, now) \in Record /\ NewRecord(w, now).key = Key(w)
<1>1. /\ Key(w) \in Keys /\ req[w] \in Requests /\ req[w].op \notin {"incr", "decr"}
      /\ req[w].val \in Int /\ req[w].exp \in Int /\ now \in Int
    <2>1. Key(w) \in Keys /\ req[w] \in Requests
        BY FaultAtWork
    <2>2. now \in Int
        BY DEF ShapeInv, HistoryTypeOK
    <2> QED BY <2>1, <2>2, RequestFacts, FaultsAssumption
<1>2. Wrap(req[w].exp + now) \in Int
    BY <1>1, BoundsAssumption DEF Wrap
<1> QED
    BY <1>1, <1>2 DEF NewRecord, Record

\* An append to the data file, whole, partial or failed, with the file's
\* header or without.
Appends(w) ==
    /\ pc[w] = "data"
    /\ data' \in {data, Append(data, Junk), Append(data, NewRecord(w, now))}
    /\ \E o \in {0, Len(data) + 1} : off' = [off EXCEPT ![w] = o]
    /\ Goto(w, "binlog")
    /\ UNCHANGED <<binlog, index, process, locks, req, todo, tmp, got, msg, env, history>>

LEMMA AppendedFile ==
    ASSUME ShapeInv, NEW w \in Workers, Appends(w)
    PROVE  /\ data \in Seq(Record) /\ data' \in Seq(Record)
           /\ Len(data) \in Nat /\ Len(data') \in Nat /\ Len(data) <= Len(data')
           /\ \A k : \A o \in Nat : Owns(k, o) => Owns(k, o)'
<1>1. data \in Seq(Record) /\ Junk \in Record /\ NewRecord(w, now) \in Record
    BY FaultNewRecord DEF ShapeInv, DiskTypeOK, Appends, Junk, Record
<1>2. CASE data' = data
    BY <1>1, <1>2, LenProperties DEF Owns
<1>3. ASSUME NEW x \in Record, data' = Append(data, x)
      PROVE  /\ data' \in Seq(Record) /\ Len(data') = Len(data) + 1
             /\ \A k : \A o \in Nat : Owns(k, o) => Owns(k, o)'
    BY <1>1, <1>3, OwnsKept
<1> QED
    BY <1>1, <1>2, <1>3, LenProperties DEF Appends

LEMMA AppendsShape ==
    ASSUME ShapeInv, NEW w \in Workers, Appends(w), nfault' \in Nat, hurt' \subseteq Keys
    PROVE  ShapeInv'
<1>1. TypeOK'
    <2>1. DiskTypeOK' /\ ProcessTypeOK'
        BY AppendedFile DEF ShapeInv, Appends, DiskTypeOK, ProcessTypeOK
    <2>2. PICK o \in {0, Len(data) + 1} : off' = [off EXCEPT ![w] = o]
        BY DEF Appends
    <2>3. o \in Nat
        BY AppendedFile
    <2>4. LocalsTypeOK' /\ HistoryTypeOK'
        BY <2>2, <2>3 DEF ShapeInv, Appends, LocalsTypeOK, HistoryTypeOK, Points
    <2> QED BY <2>1, <2>4
<1>2. LockInv'
    BY DEF ShapeInv, LocalsTypeOK, Appends, LockInv, Holding
<1>3. FaultFrame(w)'
    BY DEF ShapeInv, LocalsTypeOK, Appends, FaultFrame, Resting
<1> QED
    BY <1>1, <1>2, <1>3, WorkerShape, FaultServing DEF ShapeInv, LocalsTypeOK, Appends

\* A failed write is one more, and hurts the key at hand.
LEMMA FaultTypes ==
    ASSUME ShapeInv, NEW w \in Workers, pc[w] \notin {"idle", "exited", "reply"}, Fault({Key(w)})
    PROVE  nfault' \in Nat /\ hurt' \subseteq Keys
BY FaultAtWork DEF ShapeInv, Fault

LEMMA BinlogFullShape ==
    ASSUME ShapeInv, NEW w \in Workers, BinlogFull(w)
    PROVE  ShapeInv'
<1>1. TypeOK'
    BY DEF ShapeInv, BinlogFull, DiskTypeOK, ProcessTypeOK, LocalsTypeOK, HistoryTypeOK, Points
<1>2. LockInv'
    BY DEF ShapeInv, LocalsTypeOK, BinlogFull, LockInv, Holding
<1>3. FaultFrame(w)'
    BY DEF ShapeInv, LocalsTypeOK, BinlogFull, FaultFrame, Resting
<1> QED
    BY <1>1, <1>2, <1>3, WorkerShape, FaultServing, FaultTypes DEF ShapeInv, LocalsTypeOK, BinlogFull

LEMMA LoggedFile ==
    ASSUME ShapeInv, NEW w \in Workers, WriteBinlog(w)
    PROVE  /\ binlog' \in Seq(Entry)
           /\ Len(binlog) \in Nat /\ Len(binlog') = Len(binlog) + 1
           /\ binlog'[Len(binlog) + 1] = [key |-> Key(w), off |-> off[w]]
           /\ \A i \in 1..Len(binlog) : binlog'[i] = binlog[i]
<1> DEFINE e == [key |-> Key(w), off |-> off[w]]
<1>1. e \in Entry /\ binlog \in Seq(Entry) /\ binlog' = Append(binlog, e)
    BY FaultAtWork DEF ShapeInv, DiskTypeOK, WriteBinlog, Entry
<1> HIDE DEF e
<1>2. /\ binlog' \in Seq(Entry)
      /\ Len(binlog) \in Nat /\ Len(binlog') = Len(binlog) + 1
      /\ binlog'[Len(binlog) + 1] = e
      /\ \A i \in 1..Len(binlog) : binlog'[i] = binlog[i]
    BY <1>1, AppendProperties, LenProperties
<1> QED
    BY <1>2 DEF e

LEMMA LoggedShape ==
    ASSUME ShapeInv, NEW w \in Workers, Logged(w)
    PROVE  ShapeInv'
<1>1. /\ WriteBinlog(w) /\ pc[w] = "binlog" /\ Key(w) \in Keys
      /\ phase \in {"up", "stopping"} /\ phase' = phase /\ rpos' = rpos
    BY FaultAtWork, FaultServing DEF Logged, WriteBinlog
<1> DEFINE n == Len(binlog)
<1>2. /\ binlog' \in Seq(Entry)
      /\ n \in Nat /\ Len(binlog') = n + 1
      /\ binlog'[n + 1].key = Key(w)
      /\ \A i \in 1..n : binlog'[i] = binlog[i]
    <2>1. [key |-> Key(w), off |-> off[w]].key = Key(w)
        OBVIOUS
    <2>2. /\ binlog' \in Seq(Entry)
          /\ Len(binlog) \in Nat /\ Len(binlog') = Len(binlog) + 1
          /\ binlog'[Len(binlog) + 1] = [key |-> Key(w), off |-> off[w]]
          /\ \A i \in 1..Len(binlog) : binlog'[i] = binlog[i]
        BY <1>1, LoggedFile
    <2> QED BY <2>1, <2>2
<1>3. TypeOK'
    <2>1. DiskTypeOK' /\ ProcessTypeOK'
        BY <1>1, <1>2 DEF ShapeInv, WriteBinlog, DiskTypeOK, ProcessTypeOK
    <2>2. LocalsTypeOK'
        BY <1>1 DEF ShapeInv, WriteBinlog, LocalsTypeOK, Points
    <2>3. HistoryTypeOK'
        BY <1>1 DEF ShapeInv, WriteBinlog, HistoryTypeOK
    <2> QED BY <2>1, <2>2, <2>3
<1>4. LockInv'
    BY <1>1 DEF ShapeInv, LocalsTypeOK, WriteBinlog, LockInv, Holding
<1>5. PhaseInv'
    <2>1. \A i \in 1..rpos : binlog'[i] # Torn
        BY <1>1, <1>2 DEF ShapeInv, ProcessTypeOK, PhaseInv
    <2> QED BY <1>1, <2>1 DEF PhaseInv
<1>6. BinlogKeyed'
    <2>1. ASSUME NEW i \in 1..Len(binlog') PROVE binlog'[i].key \in Keys
        <3>1. CASE i = n + 1
            BY <1>1, <1>2, <3>1
        <3>2. CASE i \in 1..n
            BY <1>1, <1>2, <3>2 DEF ShapeInv, BinlogKeyed
        <3> QED BY <1>2, <3>1, <3>2
    <2> QED BY <2>1 DEF BinlogKeyed
<1>7. ASSUME NEW v \in Workers PROVE FaultFrame(v)'
    BY <1>1 DEF ShapeInv, LocalsTypeOK, WriteBinlog, FaultFrame, Resting
<1>8. nfault' \in Nat /\ hurt' \subseteq Keys
    BY DEF ShapeInv, Logged
<1> QED
    BY <1>3, <1>4, <1>5, <1>6, <1>7, <1>8 DEF ShapeInv

LEMMA UpdateIndexShape ==
    ASSUME ShapeInv, NEW w \in Workers, UpdateIndex(w), Unhurt
    PROVE  ShapeInv'
<1>1. /\ pc[w] = "index" /\ Advance(w) /\ Key(w) \in Keys /\ off[w] \in Nat
      /\ phase \in {"up", "stopping"}
    BY FaultAtWork, FaultServing DEF UpdateIndex
<1>2. /\ todo' \in [Workers -> Seq(Keys)]
      /\ pc' \in [Workers -> Points]
      /\ \/ pc'[w] = "reply"
         \/ pc'[w] = "rdlock" /\ req[w].op \in GetOps /\ todo'[w] # << >>
      /\ \A v \in Workers \ {w} : pc'[v] = pc[v] /\ todo'[v] = todo[v]
    BY <1>1, FaultAdvancing
<1>3. TypeOK'
    <2>1. DiskTypeOK' /\ ProcessTypeOK'
        BY <1>1 DEF ShapeInv, UpdateIndex, TreeAfter, DiskTypeOK, ProcessTypeOK
    <2>2. LocalsTypeOK'
        BY <1>2 DEF ShapeInv, UpdateIndex, LocalsTypeOK
    <2>3. HistoryTypeOK'
        <3>1. Len(data) + 1 \in Nat
            BY LenProperties DEF ShapeInv, DiskTypeOK
        <3> QED BY <1>1, <3>1 DEF ShapeInv, UpdateIndex, HistoryTypeOK
    <2> QED BY <2>1, <2>2, <2>3
<1>4. LockInv'
    BY <1>2, NilAssumption DEF ShapeInv, UpdateIndex, LockInv, Holding
<1>5. FaultFrame(w)'
    BY <1>1, <1>2 DEF ShapeInv, UpdateIndex, FaultFrame, Resting
<1> QED
    BY <1>1, <1>2, <1>3, <1>4, <1>5, WorkerShape DEF ShapeInv, UpdateIndex, Unhurt

\* A reader's steps.  What it finds is an offset of the tree, whether or not
\* a record begins there.
LEMMA SearchEffect ==
    ASSUME ShapeInv, NEW w \in Workers, Search(w)
    PROVE  /\ pc[w] = "search" /\ Key(w) \in Keys
           /\ off' \in [Workers -> Nat]
           /\ todo' \in [Workers -> Seq(Keys)]
           /\ pc' \in [Workers -> Points]
           /\ \/ pc'[w] = "reply"
              \/ pc'[w] = "rdlock" /\ req[w].op \in GetOps /\ todo'[w] # << >>
              \/ /\ pc'[w] = "load" /\ req[w].op \in GetOps /\ todo'[w] = todo[w]
                 /\ off'[w] = tst[Key(w)] /\ off'[w] > 0
           /\ \A v \in Workers \ {w} : /\ pc'[v] = pc[v] /\ todo'[v] = todo[v]
                                       /\ off'[v] = off[v] /\ got'[v] = got[v]
           /\ got'[w] = got[w] \/ got'[w] = Listing
           /\ got' \in [Workers -> SUBSET (Keys \X Nat)]
<1>1. pc[w] = "search" /\ Key(w) \in Keys /\ tst[Key(w)] \in Nat
    BY FaultAtWork DEF Search, ShapeInv, ProcessTypeOK
<1>2. Listing \in SUBSET (Keys \X Nat)
    BY DEF ShapeInv, ProcessTypeOK, Listing
<1>3. \/ /\ Advance(w) /\ off' = off
         /\ got' = [got EXCEPT ![w] = Listing]
      \/ /\ Advance(w) /\ off' = [off EXCEPT ![w] = tst[Key(w)]] /\ got' = got
      \/ /\ Goto(w, "load") /\ todo' = todo /\ req[w].op \notin ScanOps
         /\ tst[Key(w)] > 0 /\ off' = [off EXCEPT ![w] = tst[Key(w)]] /\ got' = got
    BY DEF Search, TstGet
<1>4. /\ off' \in [Workers -> Nat]
      /\ got' \in [Workers -> SUBSET (Keys \X Nat)]
      /\ got'[w] = got[w] \/ got'[w] = Listing
      /\ \A v \in Workers \ {w} : off'[v] = off[v] /\ got'[v] = got[v]
    BY <1>1, <1>2, <1>3 DEF ShapeInv, LocalsTypeOK
<1>5. CASE Advance(w)
    BY <1>1, <1>4, <1>5, FaultAdvancing
<1>6. CASE ~Advance(w)
    <2>1. /\ Goto(w, "load") /\ todo' = todo /\ req[w].op \in GetOps
          /\ tst[Key(w)] > 0 /\ off' = [off EXCEPT ![w] = tst[Key(w)]]
        BY <1>1, <1>3, <1>6 DEF ShapeInv, FaultFrame
    <2> QED
        BY <1>1, <1>4, <2>1 DEF ShapeInv, LocalsTypeOK, Points
<1> QED
    BY <1>5, <1>6

LEMMA SearchShape ==
    ASSUME ShapeInv, NEW w \in Workers, Search(w), Unhurt
    PROVE  ShapeInv'
<1>1. TypeOK'
    <2>1. DiskTypeOK' /\ ProcessTypeOK'
        BY DEF ShapeInv, Search, DiskTypeOK, ProcessTypeOK
    <2>2. LocalsTypeOK' /\ HistoryTypeOK'
        BY SearchEffect DEF ShapeInv, Search, LocalsTypeOK, HistoryTypeOK
    <2> QED BY <2>1, <2>2
<1>2. LockInv'
    <2>1. /\ pc[w] = "search" /\ pc'[w] \in {"reply", "rdlock", "load"}
          /\ \A v \in Workers \ {w} : pc'[v] = pc[v]
        BY SearchEffect
    <2>2. readers' = readers \ {w} /\ UNCHANGED <<mutex, wrlock>>
        BY DEF Search
    <2> QED BY <2>1, <2>2, NilAssumption DEF ShapeInv, LockInv, Holding
<1>3. FaultFrame(w)'
    BY SearchEffect DEF ShapeInv, Search, FaultFrame, Resting
<1> QED
    BY <1>1, <1>2, <1>3, SearchEffect, FaultServing, WorkerShape DEF ShapeInv, Search, Unhurt

\* Load and LoadGarbage differ in which outcomes the file allows.
Loads(w) ==
    /\ pc[w] = "load"
    /\ \/ Goto(w, "lock") /\ UNCHANGED <<todo, got>>
       \/ Advance(w) /\ got' \in {got, [got EXCEPT ![w] = @ \cup {<<Key(w), off[w]>>}]}
    /\ off' = [off EXCEPT ![w] = 0]
    /\ UNCHANGED <<disk, process, locks, req, tmp, msg, env, history>>

LEMMA LoadEffect ==
    ASSUME ShapeInv, NEW w \in Workers, Loads(w)
    PROVE  /\ pc[w] = "load" /\ Key(w) \in Keys
           /\ todo' \in [Workers -> Seq(Keys)]
           /\ pc' \in [Workers -> Points]
           /\ \/ pc'[w] = "reply"
              \/ pc'[w] = "rdlock" /\ req[w].op \in GetOps /\ todo'[w] # << >>
              \/ pc'[w] = "lock" /\ todo'[w] = todo[w]
           /\ off' \in [Workers -> Nat] /\ off'[w] = 0
           /\ \A v \in Workers \ {w} : /\ pc'[v] = pc[v] /\ todo'[v] = todo[v]
                                       /\ off'[v] = off[v] /\ got'[v] = got[v]
           /\ \A e \in got'[w] : e \in got[w] \/ e = <<Key(w), off[w]>>
           /\ got' \in [Workers -> SUBSET (Keys \X Nat)]
<1>1. pc[w] = "load" /\ Key(w) \in Keys /\ off[w] \in Nat
    BY FaultAtWork DEF Loads
<1>2. off' \in [Workers -> Nat] /\ off'[w] = 0 /\ \A v \in Workers \ {w} : off'[v] = off[v]
    BY DEF ShapeInv, LocalsTypeOK, Loads
<1>3. /\ got' \in [Workers -> SUBSET (Keys \X Nat)]
      /\ \A e \in got'[w] : e \in got[w] \/ e = <<Key(w), off[w]>>
      /\ \A v \in Workers \ {w} : got'[v] = got[v]
    <2>1. got' = got \/ got' = [got EXCEPT ![w] = got[w] \cup {<<Key(w), off[w]>>}]
        BY DEF Loads
    <2>2. got[w] \cup {<<Key(w), off[w]>>} \in SUBSET (Keys \X Nat)
        BY <1>1 DEF ShapeInv, LocalsTypeOK
    <2>3. got \in [Workers -> SUBSET (Keys \X Nat)]
        BY DEF ShapeInv, LocalsTypeOK
    <2> HIDE DEF Key
    <2> QED BY <2>1, <2>2, <2>3
<1>4. CASE Advance(w)
    BY <1>1, <1>2, <1>3, <1>4, FaultAdvancing
<1>5. CASE ~Advance(w)
    <2>1. Goto(w, "lock") /\ todo' = todo
        BY <1>5 DEF Loads
    <2> QED
        BY <1>1, <1>2, <1>3, <2>1 DEF ShapeInv, LocalsTypeOK, Points
<1> QED
    BY <1>4, <1>5

LEMMA LoadShape ==
    ASSUME ShapeInv, NEW w \in Workers, Loads(w), Unhurt
    PROVE  ShapeInv'
<1>1. TypeOK'
    <2>1. DiskTypeOK' /\ ProcessTypeOK'
        BY DEF ShapeInv, Loads, DiskTypeOK, ProcessTypeOK
    <2>2. LocalsTypeOK' /\ HistoryTypeOK'
        BY LoadEffect DEF ShapeInv, Loads, LocalsTypeOK, HistoryTypeOK
    <2> QED BY <2>1, <2>2
<1>2. LockInv'
    BY LoadEffect, ZenonT(60) DEF ShapeInv, Loads, LockInv, Holding
<1>3. FaultFrame(w)'
    BY LoadEffect DEF ShapeInv, Loads, FaultFrame, Resting
<1> QED
    BY <1>1, <1>2, <1>3, LoadEffect, FaultServing, WorkerShape DEF ShapeInv, Loads, Unhurt

\* The life of the process.  No worker is at work in any of these steps,
\* except a crash, which leaves none.
LEMMA HurtMainShape ==
    ASSUME ShapeInv, TypeOK', nfault' \in Nat, hurt' \subseteq Keys,
           UNCHANGED <<locks, locals>>, PhaseInv', BinlogKeyed'
    PROVE  ShapeInv'
BY DEF ShapeInv, LockInv, Holding, FaultFrame, Resting

LEMMA MainShape ==
    ASSUME ShapeInv, TypeOK', Unhurt, UNCHANGED <<locks, locals>>, PhaseInv', BinlogKeyed'
    PROVE  ShapeInv'
BY HurtMainShape DEF ShapeInv, Unhurt

LEMMA BootShape ==
    ASSUME ShapeInv, Boot, Unhurt
    PROVE  ShapeInv'
<1>1. TypeOK'
    BY DEF ShapeInv, Boot, Reloaded, DiskTypeOK, ProcessTypeOK, LocalsTypeOK, HistoryTypeOK, Phases
<1>2. PhaseInv' /\ BinlogKeyed'
    BY DEF ShapeInv, Boot, CanStart, PhaseInv, Resting, BinlogKeyed
<1> QED
    BY <1>1, <1>2, MainShape DEF Boot

LEMMA ReplayOneShape ==
    ASSUME ShapeInv, ReplayOne, Unhurt
    PROVE  ShapeInv'
<1>1. rpos \in Nat /\ Len(binlog) \in Nat /\ rpos + 1 \in 1..Len(binlog)
    BY LenProperties DEF ShapeInv, DiskTypeOK, ProcessTypeOK, ReplayOne, AtEndOfBinlog
<1>2. binlog[rpos + 1] # Torn /\ binlog[rpos + 1] \in Entry
    BY <1>1 DEF ShapeInv, DiskTypeOK, ReplayOne, AtEndOfBinlog
<1>3. binlog[rpos + 1].key \in Keys /\ binlog[rpos + 1].off \in Nat
    BY <1>1, <1>2 DEF ShapeInv, BinlogKeyed, Entry
<1>4. TypeOK'
    <2>1. DiskTypeOK' /\ ProcessTypeOK'
        BY <1>1, <1>3 DEF ShapeInv, ReplayOne, NextPos, DiskTypeOK, ProcessTypeOK
    <2>2. LocalsTypeOK' /\ HistoryTypeOK'
        BY DEF ShapeInv, ReplayOne, LocalsTypeOK, HistoryTypeOK
    <2> QED BY <2>1, <2>2
<1>5. PhaseInv' /\ BinlogKeyed'
    BY <1>1, <1>2 DEF ShapeInv, ReplayOne, NextPos, PhaseInv, Resting, BinlogKeyed
<1> QED
    BY <1>4, <1>5, MainShape DEF ReplayOne

LEMMA ReplayDoneShape ==
    ASSUME ShapeInv, ReplayDone, Unhurt
    PROVE  ShapeInv'
<1>1. rpos \in Nat /\ Len(binlog) \in Nat /\ rpos <= Len(binlog) /\ binlog \in Seq(Entry)
    BY LenProperties DEF ShapeInv, DiskTypeOK, ProcessTypeOK
<1>2. /\ binlog' \in Seq(Entry)
      /\ Len(binlog') = rpos
      /\ \A i \in 1..rpos : binlog'[i] = binlog[i]
    BY <1>1, SubSeqProperties DEF ReplayDone, KeptBinlog
<1>3. \A i \in 1..rpos : binlog[i].key \in Keys
    BY <1>1 DEF ShapeInv, PhaseInv, BinlogKeyed
<1>4. TypeOK'
    <2>1. DiskTypeOK' /\ ProcessTypeOK'
        BY <1>1, <1>2 DEF ShapeInv, ReplayDone, DiskTypeOK, ProcessTypeOK, Phases
    <2>2. LocalsTypeOK' /\ HistoryTypeOK'
        BY DEF ShapeInv, ReplayDone, LocalsTypeOK, HistoryTypeOK
    <2> QED BY <2>1, <2>2
<1>5. PhaseInv' /\ BinlogKeyed'
    BY <1>2, <1>3 DEF ShapeInv, ReplayDone, PhaseInv, Resting, BinlogKeyed
<1> QED
    BY <1>4, <1>5, MainShape DEF ReplayDone

LEMMA ShutdownShape ==
    ASSUME ShapeInv, Shutdown, Unhurt
    PROVE  ShapeInv'
<1>1. TypeOK'
    BY DEF ShapeInv, Shutdown, DiskTypeOK, ProcessTypeOK, LocalsTypeOK, HistoryTypeOK, Phases
<1>2. PhaseInv' /\ BinlogKeyed'
    BY DEF ShapeInv, Shutdown, PhaseInv, Resting, BinlogKeyed
<1> QED
    BY <1>1, <1>2, MainShape DEF Shutdown

\* A dump, whole or short: the index file has what the tree has, but for
\* keys that are hurt.
Dumps ==
    /\ phase = "stopping"
    /\ \A w \in Workers : pc[w] = "exited"
    /\ index' \in [Keys -> Nat]
    /\ \A k \in Keys : index'[k] \in {tst[k], 0}
    /\ \A k \in Keys \ hurt' : index'[k] = tst[k]
    /\ nfault' \in Nat /\ hurt \subseteq hurt' /\ hurt' \subseteq Keys
    /\ phase' = "renamed"
    /\ UNCHANGED <<data, binlog, tst, rpos, locks, locals, env, history>>

LEMMA DumpsEffect ==
    ASSUME ShapeInv, DumpWhole \/ DumpFull
    PROVE  Dumps
<1>1. tst \in [Keys -> Nat] /\ nfault \in Nat /\ hurt \subseteq Keys
    BY DEF ShapeInv, ProcessTypeOK
<1>2. CASE DumpWhole
    BY <1>1, <1>2 DEF DumpWhole, DumpIndex, Dumped, Dumps
<1>3. CASE DumpFull
    <2>1. PICK missing \in SUBSET Keys :
              /\ index' = [k \in Keys |-> IF k \in missing THEN 0 ELSE tst[k]]
              /\ Fault(missing)
        BY <1>3 DEF DumpFull, Dumped
    <2>2. index' \in [Keys -> Nat] /\ \A k \in Keys : index'[k] \in {tst[k], 0}
        BY <1>1, <2>1
    <2>3. nfault' \in Nat /\ hurt' = hurt \cup missing
        BY <1>1, <2>1 DEF Fault
    <2>4. \A k \in Keys \ hurt' : index'[k] = tst[k]
        BY <2>1, <2>3
    <2> QED
        BY <1>1, <1>3, <2>2, <2>3, <2>4 DEF DumpFull, Dumps
<1> QED
    BY <1>2, <1>3

LEMMA DumpsShape ==
    ASSUME ShapeInv, Dumps
    PROVE  ShapeInv'
<1>1. TypeOK'
    BY DEF ShapeInv, Dumps, DiskTypeOK, ProcessTypeOK, LocalsTypeOK, HistoryTypeOK, Phases
<1>2. PhaseInv' /\ BinlogKeyed'
    BY DEF ShapeInv, Dumps, PhaseInv, Resting, BinlogKeyed
<1> QED
    BY <1>1, <1>2, HurtMainShape DEF Dumps

LEMMA TickShape ==
    ASSUME ShapeInv, Tick, Unhurt
    PROVE  ShapeInv'
<1>1. TypeOK'
    <2>1. DiskTypeOK' /\ ProcessTypeOK'
        BY DEF ShapeInv, Tick, DiskTypeOK, ProcessTypeOK
    <2>2. LocalsTypeOK' /\ HistoryTypeOK'
        BY DEF ShapeInv, Tick, LocalsTypeOK, HistoryTypeOK
    <2> QED BY <2>1, <2>2
<1>2. PhaseInv' /\ BinlogKeyed'
    BY DEF ShapeInv, Tick, PhaseInv, Resting, BinlogKeyed
<1> QED
    BY <1>1, <1>2, MainShape DEF Tick

\* A process that is gone leaves its files, with names in the binlog.
LEMMA VanishShape ==
    ASSUME ShapeInv, Vanish, Unhurt, DiskTypeOK', HistoryTypeOK', BinlogKeyed'
    PROVE  ShapeInv'
<1>1. ProcessTypeOK'
    <2>1. Len(binlog') \in Nat
        BY LenProperties DEF DiskTypeOK
    <2> QED BY <2>1 DEF Vanish, ProcessTypeOK, Phases, NoKeys
<1>2. LocalsTypeOK'
    BY DEF Vanish, LocalsTypeOK, Points, Record, Junk
<1>3. LockInv' /\ PhaseInv'
    BY NilAssumption DEF Vanish, LockInv, PhaseInv, Holding, Resting
<1>4. \A v \in Workers : FaultFrame(v)'
    BY DEF Vanish, FaultFrame, Resting
<1> QED
    BY <1>1, <1>2, <1>3, <1>4 DEF ShapeInv, Unhurt

LEMMA RemoveBinlogShape ==
    ASSUME ShapeInv, RemoveBinlog, Unhurt
    PROVE  ShapeInv'
<1>1. Vanish /\ binlog' = << >> /\ UNCHANGED <<data, index, env, acked, settled>>
    BY DEF RemoveBinlog
<1>2. DiskTypeOK' /\ BinlogKeyed'
    BY <1>1, EmptySeq DEF ShapeInv, DiskTypeOK, BinlogKeyed
<1>3. HistoryTypeOK'
    BY <1>1 DEF ShapeInv, HistoryTypeOK, Vanish, NoKeys
<1> QED
    BY <1>1, <1>2, <1>3, VanishShape

LEMMA CrashFiles ==
    ASSUME ShapeInv, Crash
    PROVE  /\ data \in Seq(Record) /\ data' \in Seq(Record)
           /\ Len(data) \in Nat /\ Len(data') \in Nat /\ Len(data) <= Len(data')
           /\ \A k : \A o \in Nat : Owns(k, o) => Owns(k, o)'
           /\ \/ binlog' = binlog
              \/ /\ binlog' = Append(binlog, Torn) /\ phase \in {"up", "stopping"}
                 /\ \E v \in Workers : pc[v] = "binlog"
<1>1. Junk \in Record /\ data \in Seq(Record) /\ Len(data) \in Nat
    BY LenProperties DEF ShapeInv, DiskTypeOK, Junk, Record
<1>2. data' = data \/ data' = Append(data, Junk)
    BY DEF Crash
<1>3. /\ data' \in Seq(Record) /\ Len(data') \in Nat /\ Len(data) <= Len(data')
      /\ \A k : \A o \in Nat : Owns(k, o) => Owns(k, o)'
    <2>1. CASE data' = data
        BY <1>1, <2>1 DEF Owns
    <2>2. CASE data' = Append(data, Junk)
        BY <1>1, <2>2, OwnsKept
    <2> QED BY <1>2, <2>1, <2>2
<1>4. ASSUME binlog' # binlog
      PROVE  /\ binlog' = Append(binlog, Torn) /\ phase \in {"up", "stopping"}
             /\ \E v \in Workers : pc[v] = "binlog"
    <2>1. PICK v \in Workers : pc[v] = "binlog" /\ binlog' = Append(binlog, Torn)
        BY <1>4 DEF Crash
    <2> QED
        BY <2>1 DEF ShapeInv, PhaseInv, Resting
<1> QED
    BY <1>1, <1>3, <1>4

LEMMA CrashShape ==
    ASSUME ShapeInv, Crash, Unhurt
    PROVE  ShapeInv'
<1>1. Vanish /\ UNCHANGED <<index, now, nreq, acked, settled>> /\ ncrash' = ncrash + 1
    BY DEF Crash
<1>2. data' \in Seq(Record)
    BY CrashFiles
<1>3. binlog \in Seq(Entry) /\ Torn \in Entry /\ Len(binlog) \in Nat
    BY LenProperties DEF ShapeInv, DiskTypeOK, Torn, Entry
<1>4. binlog' \in Seq(Entry) /\ BinlogKeyed'
    <2>1. CASE binlog' = binlog
        BY <1>1, <1>3, <2>1 DEF ShapeInv, BinlogKeyed, Vanish
    <2>2. CASE binlog' = Append(binlog, Torn) /\ phase \in {"up", "stopping"}
        <3>1. /\ binlog' \in Seq(Entry) /\ Len(binlog') = Len(binlog) + 1
              /\ binlog'[Len(binlog) + 1] = Torn
              /\ \A i \in 1..Len(binlog) : binlog'[i] = binlog[i]
            BY <1>3, <2>2, AppendProperties
        <3>2. \A i \in 1..Len(binlog) : binlog[i].key \in Keys
            BY <2>2 DEF ShapeInv, BinlogKeyed
        <3>3. phase' = "down"
            BY <1>1 DEF Vanish
        <3> QED
            BY <1>3, <3>1, <3>2, <3>3 DEF BinlogKeyed
    <2> QED
        BY <2>1, <2>2, CrashFiles
<1>5. DiskTypeOK'
    BY <1>1, <1>2, <1>4 DEF ShapeInv, DiskTypeOK
<1>6. HistoryTypeOK'
    BY <1>1 DEF ShapeInv, HistoryTypeOK, Vanish, NoKeys
<1> QED
    BY <1>1, <1>4, <1>5, <1>6, VanishShape

-----------------------------------------------------------------------------
(* What a restart would rebuild.                                           *)

LEMMA RecoveredType ==
    ASSUME ShapeInv, NEW n \in 0..Len(binlog)
    PROVE  Recovered(n) \in [Keys -> Nat]
<1>1. n \in Nat /\ \A i \in 1..n : binlog[i].off \in Nat
    <2>1. binlog \in Seq(Entry) /\ Len(binlog) \in Nat
        BY LenProperties DEF ShapeInv, DiskTypeOK
    <2>2. n \in Nat /\ \A i \in 1..n : i \in 1..Len(binlog)
        BY <2>1
    <2>3. \A i \in 1..n : binlog[i] \in Entry
        BY <2>1, <2>2
    <2> QED BY <2>2, <2>3 DEF Entry
<1>2. ASSUME NEW k \in Keys PROVE Recovered(n)[k] \in Nat
    <2>1. CASE Recovered(n)[k] = index[k]
        BY <2>1 DEF ShapeInv, DiskTypeOK
    <2>2. CASE \E i \in 1..n : IsLast(i, k, n) /\ Recovered(n)[k] = binlog[i].off
        BY <1>1, <2>2
    <2> QED BY <1>1, <2>1, <2>2, NoneOrLast
<1>3. Recovered(n) = [k \in Keys |-> Recovered(n)[k]]
    BY DEF Recovered
<1> QED
    BY <1>2, <1>3

LEMMA ContentTypes ==
    ASSUME ShapeInv
    PROVE  /\ data \in Seq(Record) /\ Len(data) \in Nat
           /\ binlog \in Seq(Entry) /\ Len(binlog) \in Nat
           /\ tst \in [Keys -> Nat] /\ index \in [Keys -> Nat]
           /\ Restarted \in [Keys -> Nat] /\ Recovered(rpos) \in [Keys -> Nat]
           /\ acked \in [Keys -> Nat] /\ settled \in [Keys -> Nat]
           /\ floor \in [Workers -> [Keys -> Nat]]
           /\ off \in [Workers -> Nat]
           /\ got \in [Workers -> SUBSET (Keys \X Nat)]
           /\ pc \in [Workers -> Points]
           /\ rpos \in 0..Len(binlog)
<1>1. Len(data) \in Nat /\ Len(binlog) \in Nat /\ rpos \in 0..Len(binlog)
    BY LenProperties DEF ShapeInv, DiskTypeOK, ProcessTypeOK
<1>2. Restarted \in [Keys -> Nat] /\ Recovered(rpos) \in [Keys -> Nat]
    BY <1>1, RecoveredType DEF Restarted
<1> QED
    BY <1>1, <1>2 DEF ShapeInv, DiskTypeOK, ProcessTypeOK, LocalsTypeOK, HistoryTypeOK

\* The commit point of a command.
LEMMA LoggedRestarted ==
    ASSUME ShapeInv, NEW w \in Workers, WriteBinlog(w)
    PROVE  Restarted' = [Restarted EXCEPT ![Key(w)] = off[w]]
<1> DEFINE e == [key |-> Key(w), off |-> off[w]]
<1>1. PICK n \in Nat : n = Len(binlog)
    BY ContentTypes
<1>2. /\ Len(binlog') = n + 1
      /\ binlog'[n + 1] = e
      /\ \A i \in 1..n : binlog'[i] = binlog[i]
    BY <1>1, LoggedFile
<1>3. Recovered(n)' = Recovered(n)
    BY <1>2, RecoveredKept DEF WriteBinlog
<1>4. Recovered(n + 1)' = [Recovered(n)' EXCEPT ![(binlog[n + 1].key)'] = (binlog[n + 1].off)']
    BY RecoveredOneMoreNext
<1>5. Restarted' = Recovered(n + 1)'
    BY <1>2 DEF Restarted
<1> QED
    BY <1>1, <1>2, <1>3, <1>4, <1>5 DEF Restarted

LEMMA FaultCrashRestarted ==
    ASSUME ShapeInv, Crash
    PROVE  Restarted' = Restarted
<1>1. PICK n \in Nat : n = Len(binlog)
    BY ContentTypes
<1>2. CASE binlog' = binlog
    BY <1>2, FilesKept DEF Crash
<1>3. CASE binlog' = Append(binlog, Torn)
    <2>1. /\ Len(binlog') = n + 1
          /\ binlog'[n + 1] = Torn
          /\ \A i \in 1..n : binlog'[i] = binlog[i]
        <3>1. Torn \in Entry /\ binlog \in Seq(Entry)
            BY ContentTypes DEF Torn, Entry
        <3> QED
            BY <1>1, <1>3, <3>1, AppendProperties
    <2>2. Recovered(n)' = Restarted
        BY <1>1, <2>1, RecoveredKept DEF Crash, Restarted
    <2>3. Recovered(n + 1)' = [Recovered(n)' EXCEPT ![(binlog[n + 1].key)'] = (binlog[n + 1].off)']
        BY RecoveredOneMoreNext
    <2>4. Recovered(n + 1)' = [Restarted EXCEPT ![Torn.key] = Torn.off]
        BY <2>1, <2>2, <2>3
    <2>5. Restarted' = Recovered(n + 1)'
        BY <2>1 DEF Restarted
    <2> QED
        BY <2>4, <2>5, TornChangesNothing, ContentTypes
<1> QED
    BY <1>2, <1>3, CrashFiles

\* A replay stops at the end, or at an incomplete entry, which is the last.
LEMMA FaultReplayDoneRestarted ==
    ASSUME ShapeInv, ReplayDone
    PROVE  Restarted' = Restarted /\ Recovered(rpos) = Restarted
<1>1. /\ binlog \in Seq(Entry) /\ Len(binlog) \in Nat /\ rpos \in 0..Len(binlog)
      /\ Recovered(rpos) \in [Keys -> Nat]
    BY ContentTypes
<1>2. PICK n \in Nat : n = rpos
    BY <1>1
<1>3. Recovered(n) = Restarted
    <2>1. CASE n = Len(binlog)
        BY <2>1 DEF Restarted
    <2>2. CASE n < Len(binlog)
        <3>1. binlog[n + 1] = Torn /\ n + 1 \in 1..Len(binlog)
            BY <1>1, <1>2, <2>2 DEF ReplayDone, AtEndOfBinlog
        <3>2. Len(binlog) = n + 1
            BY <3>1, NilAssumption DEF ShapeInv, BinlogKeyed, Torn
        <3>3. Recovered(n + 1) = [Recovered(n) EXCEPT ![Torn.key] = Torn.off]
            BY <3>1, RecoveredOneMore
        <3> QED
            BY <1>1, <1>2, <3>2, <3>3, TornChangesNothing DEF Restarted
    <2> QED
        BY <1>1, <1>2, <2>1, <2>2
<1>4. Len(binlog') = n /\ \A i \in 1..n : binlog'[i] = binlog[i]
    BY <1>1, <1>2, SubSeqProperties DEF ReplayDone, KeptBinlog
<1>5. Recovered(n)' = Recovered(n)
    BY <1>4, RecoveredKept DEF ReplayDone
<1> QED
    BY <1>2, <1>3, <1>4, <1>5 DEF Restarted

\* The dump says what the index file and the binlog said together, of every
\* key for which the tree says the same.
LEMMA FaultDumpRestarted ==
    ASSUME NEW k \in Keys, tst[k] = Restarted[k], index'[k] = tst[k], binlog' = binlog
    PROVE  Restarted'[k] = Restarted[k]
<1>2. PICK n : n = Len(binlog)
    OBVIOUS
<1>3. Mentions(k, n)' = Mentions(k, n)
    BY DEF Mentions
<1>4. LastMention(k, n)' = LastMention(k, n)
    BY <1>3 DEF LastMention
<1>5. index'[k] = Recovered(n)[k]
    BY <1>2 DEF Restarted
<1>6. Recovered(n)'[k] = Recovered(n)[k]
    BY <1>3, <1>4, <1>5 DEF Recovered
<1> QED
    BY <1>2, <1>6 DEF Restarted

-----------------------------------------------------------------------------
(* The part of the invariant that says what survives.                      *)

\* A step that leaves the files, the tree and the phase alone.
LEMMA QuietContent ==
    ASSUME ShapeInv, ContentInv, Unhurt,
           UNCHANGED <<disk, process, acked, settled, ncrash>>,
           \A v \in Workers : /\ InFlight(v)' <=> InFlight(v)
                              /\ InFlight(v) => Key(v)' = Key(v) /\ off'[v] = off[v]
           ,
           \A v \in Workers : Written(v)',
           \A v \in Workers, k \in Keys : floor'[v][k] <= settled[k],
           ncrash = 0 => /\ \A v \in Workers : pc'[v] = "load" => off'[v] >= floor'[v][Key(v)']
                         /\ ReadsFresh'
    PROVE  ContentInv'
<1>1. Restarted' = Restarted
    BY FilesKept
<1>2. Recovered(rpos)' = Recovered(rpos)
    BY DEF Recovered, Mentions, LastMention
<1>3. FaultRestart'
    <2>1. \A k \in Keys, v \in Workers : InFlight(v) /\ Key(v) = k => InFlight(v)' /\ Key(v)' = k
        OBVIOUS
    <2> QED
        BY <1>1, <1>2, <2>1 DEF ContentInv, FaultRestart, Unhurt
<1>4. SettledInv'
    BY DEF ContentInv, SettledInv
<1>5. FaultsContained'
    BY <1>1 DEF ContentInv, FaultsContained, Unhurt, Restarted, Owns
<1>6. ncrash' = 0 => UnkilledInv'
    BY DEF ContentInv, UnkilledInv, Fresh, Key
<1> QED
    BY <1>3, <1>4, <1>5, <1>6 DEF ContentInv

\* A quiet step of a worker that is not in flight and finds nothing.
LEMMA MoveContent ==
    ASSUME ShapeInv, ContentInv, NEW w \in Workers, Unhurt,
           UNCHANGED <<disk, process, acked, settled, floor, got, ncrash>>,
           InFlight(w)' <=> InFlight(w),
           InFlight(w) => Key(w)' = Key(w),
           off' = off,
           pc'[w] # "load",
           pc'[w] \in {"binlog", "wrlock", "index"} =>
               off[w] = 0 \/ (pc[w] \in {"binlog", "wrlock", "index"} /\ Key(w)' = Key(w)),
           \A v \in Workers \ {w} : pc'[v] = pc[v] /\ todo'[v] = todo[v]
    PROVE  ContentInv'
<1>1. ASSUME NEW v \in Workers PROVE Written(v)'
    <2>1. CASE v = w
        BY <2>1 DEF ContentInv, Written, Owns, Unhurt
    <2>2. CASE v # w
        BY <2>2 DEF ContentInv, Written, Key, Owns, Unhurt
    <2> QED BY <2>1, <2>2
<1>2. ASSUME NEW v \in Workers
      PROVE  /\ InFlight(v)' <=> InFlight(v)
             /\ InFlight(v) => Key(v)' = Key(v) /\ off'[v] = off[v]
             /\ ncrash = 0 /\ pc'[v] = "load" => off'[v] >= floor'[v][Key(v)']
    <2>1. CASE v # w
        BY <2>1 DEF InFlight, Key, ContentInv, UnkilledInv
    <2>2. CASE v = w
        BY <2>2
    <2> QED BY <2>1, <2>2
<1>3. ncrash = 0 => ReadsFresh'
    BY DEF ContentInv, UnkilledInv, ReadsFresh
<1>4. \A v \in Workers, k \in Keys : floor'[v][k] <= settled[k]
    BY DEF ContentInv, SettledInv
<1> QED
    BY <1>1, <1>2, <1>3, <1>4, QuietContent

LEMMA LockWriterContent ==
    ASSUME ShapeInv, ContentInv, NEW w \in Workers, LockWriter(w), Unhurt
    PROVE  ContentInv'
<1>1. /\ pc'[w] \in {"data", "binlog", "check"} /\ pc[w] = "lock" /\ off[w] = 0
      /\ \A v \in Workers \ {w} : pc'[v] = pc[v] /\ todo'[v] = todo[v]
    BY ContentTypes DEF LockWriter, ShapeInv, FaultFrame
<1> QED
    BY <1>1, MoveContent DEF LockWriter, InFlight

LEMMA LockIndexContent ==
    ASSUME ShapeInv, ContentInv, NEW w \in Workers, LockIndex(w), Unhurt
    PROVE  ContentInv'
<1>1. /\ pc'[w] = "index" /\ pc[w] = "wrlock" /\ Key(w)' = Key(w)
      /\ \A v \in Workers \ {w} : pc'[v] = pc[v] /\ todo'[v] = todo[v]
    BY ContentTypes DEF LockIndex, Key
<1> QED
    BY <1>1, MoveContent DEF LockIndex, InFlight

LEMMA RdLockContent ==
    ASSUME ShapeInv, ContentInv, NEW w \in Workers, RdLock(w), Unhurt
    PROVE  ContentInv'
<1>1. /\ pc'[w] = "search" /\ pc[w] = "rdlock"
      /\ \A v \in Workers \ {w} : pc'[v] = pc[v] /\ todo'[v] = todo[v]
    BY ContentTypes DEF RdLock
<1> QED
    BY <1>1, MoveContent DEF RdLock, InFlight

LEMMA WorkerExitContent ==
    ASSUME ShapeInv, ContentInv, NEW w \in Workers, WorkerExit(w), Unhurt
    PROVE  ContentInv'
<1>1. /\ pc'[w] = "exited" /\ pc[w] = "idle"
      /\ \A v \in Workers \ {w} : pc'[v] = pc[v] /\ todo'[v] = todo[v]
    BY ContentTypes DEF WorkerExit
<1> QED
    BY <1>1, MoveContent DEF WorkerExit, InFlight

LEMMA CheckContent ==
    ASSUME ShapeInv, ContentInv, NEW w \in Workers, Check(w), Unhurt
    PROVE  ContentInv'
<1>1. pc[w] = "check" /\ off[w] = 0
    BY DEF Check, ShapeInv, FaultFrame
<1>2. /\ pc'[w] \in {"reply", "rdlock", "data", "binlog"}
      /\ \A v \in Workers \ {w} : pc'[v] = pc[v] /\ todo'[v] = todo[v]
    <2>1. CASE MustGiveUp(w)
        BY <1>1, <2>1, FaultAdvancing DEF Check
    <2>2. CASE ~MustGiveUp(w)
        BY <2>2, ContentTypes DEF Check
    <2> QED BY <2>1, <2>2
<1> QED
    BY <1>1, <1>2, MoveContent DEF Check, InFlight

LEMMA ReceiveContent ==
    ASSUME ShapeInv, ContentInv, NEW w \in Workers, NEW r \in Requests, Receive(w, r), Unhurt
    PROVE  ContentInv'
<1>1. /\ pc[w] = "idle" /\ pc'[w] \in {"rdlock", "lock"} /\ got[w] = {}
      /\ \A v \in Workers \ {w} : pc'[v] = pc[v] /\ todo'[v] = todo[v] /\ floor'[v] = floor[v]
      /\ floor'[w] = settled
      /\ UNCHANGED <<disk, process, acked, settled, off, got, ncrash>>
    BY ContentTypes DEF Receive, ShapeInv, LocalsTypeOK, FaultFrame, Resting
<1>2. ASSUME NEW v \in Workers
      PROVE  /\ InFlight(v)' <=> InFlight(v)
             /\ InFlight(v) => Key(v)' = Key(v) /\ off'[v] = off[v]
             /\ Written(v)'
             /\ \A k \in Keys : floor'[v][k] <= settled[k]
             /\ ncrash = 0 => /\ pc'[v] = "load" => off'[v] >= floor'[v][Key(v)']
                              /\ \A e \in got'[v] : e[2] >= floor'[v][e[1]]
    <2>1. CASE v # w
        BY <1>1, <2>1 DEF InFlight, Key, Written, Owns, Unhurt, ContentInv, SettledInv, UnkilledInv, ReadsFresh
    <2>2. CASE v = w
        BY <1>1, <2>2, ContentTypes DEF InFlight, Written
    <2> QED BY <2>1, <2>2
<1>3. ncrash = 0 => ReadsFresh'
    BY <1>2 DEF ReadsFresh
<1> QED
    BY <1>1, <1>2, <1>3, QuietContent

LEMMA ReplyContent ==
    ASSUME ShapeInv, ContentInv, NEW w \in Workers, Reply(w), Unhurt
    PROVE  ContentInv'
<1>1. /\ pc[w] = "reply" /\ pc'[w] = "idle" /\ got'[w] = {} /\ floor'[w] = NoKeys
      /\ \A v \in Workers \ {w} : /\ pc'[v] = pc[v] /\ todo'[v] = todo[v] /\ off'[v] = off[v]
                                  /\ floor'[v] = floor[v] /\ got'[v] = got[v]
      /\ UNCHANGED <<disk, process, acked, settled, ncrash>>
    BY ContentTypes DEF Reply, ClearFrame, ShapeInv, LocalsTypeOK
<1>2. ASSUME NEW v \in Workers
      PROVE  /\ InFlight(v)' <=> InFlight(v)
             /\ InFlight(v) => Key(v)' = Key(v) /\ off'[v] = off[v]
             /\ Written(v)'
             /\ \A k \in Keys : floor'[v][k] <= settled[k]
             /\ ncrash = 0 => /\ pc'[v] = "load" => off'[v] >= floor'[v][Key(v)']
                              /\ \A e \in got'[v] : e[2] >= floor'[v][e[1]]
    <2>1. CASE v # w
        BY <1>1, <2>1 DEF InFlight, Key, Written, Owns, Unhurt, ContentInv, SettledInv, UnkilledInv, ReadsFresh
    <2>2. CASE v = w
        BY <1>1, <2>2, ContentTypes DEF InFlight, Written, NoKeys
    <2> QED BY <2>1, <2>2
<1>3. ncrash = 0 => ReadsFresh'
    BY <1>2 DEF ReadsFresh
<1> QED
    BY <1>1, <1>2, <1>3, QuietContent

\* As long as nobody kills the server, a reader finds nothing older than what
\* was settled when its request came in, whatever the disk did.
LEMMA FaultTreeFresh ==
    ASSUME ShapeInv, ContentInv, ncrash = 0, NEW w \in Workers, pc[w] \notin {"idle", "exited"},
           NEW k \in Keys, tst[k] > 0
    PROVE  tst[k] >= floor[w][k]
<1>1. phase # "down"
    BY FaultServing
<1>2. tst[k] >= settled[k] /\ floor[w][k] <= settled[k]
    BY <1>1, ContentTypes DEF ContentInv, UnkilledInv, Fresh, SettledInv
<1> QED
    BY <1>2, ContentTypes

LEMMA SearchContent ==
    ASSUME ShapeInv, ContentInv, NEW w \in Workers, Search(w), Unhurt
    PROVE  ContentInv'
<1>1. /\ pc[w] = "search" /\ Key(w) \in Keys
      /\ pc'[w] \in {"reply", "rdlock", "load"}
      /\ pc'[w] = "load" => todo'[w] = todo[w] /\ off'[w] = tst[Key(w)] /\ off'[w] > 0
      /\ \A v \in Workers \ {w} : /\ pc'[v] = pc[v] /\ todo'[v] = todo[v]
                                  /\ off'[v] = off[v] /\ got'[v] = got[v]
      /\ got'[w] = got[w] \/ got'[w] = Listing
    BY SearchEffect
<1>2. UNCHANGED <<disk, process, acked, settled, floor, ncrash>>
    BY DEF Search
<1>3. ASSUME ncrash = 0
      PROVE  /\ pc'[w] = "load" => off'[w] >= floor'[w][Key(w)']
             /\ \A e \in got'[w] : e[2] >= floor'[w][e[1]]
    <2>1. pc'[w] = "load" => off'[w] >= floor'[w][Key(w)']
        BY <1>1, <1>2, <1>3, FaultTreeFresh DEF Key
    <2>2. CASE got'[w] = got[w]
        BY <1>2, <1>3, <2>1, <2>2 DEF ContentInv, UnkilledInv, ReadsFresh
    <2>3. CASE got'[w] = Listing
        BY <1>1, <1>2, <1>3, <2>1, <2>3, FaultTreeFresh DEF Listing
    <2> QED BY <1>1, <2>2, <2>3
<1>4. ASSUME NEW v \in Workers
      PROVE  /\ InFlight(v)' <=> InFlight(v)
             /\ InFlight(v) => Key(v)' = Key(v) /\ off'[v] = off[v]
             /\ Written(v)'
             /\ ncrash = 0 => /\ pc'[v] = "load" => off'[v] >= floor'[v][Key(v)']
                              /\ \A e \in got'[v] : e[2] >= floor'[v][e[1]]
    <2>1. CASE v # w
        BY <1>1, <1>2, <2>1 DEF InFlight, Key, Written, Owns, Unhurt, ContentInv, UnkilledInv, ReadsFresh
    <2>2. CASE v = w
        BY <1>1, <1>3, <2>2 DEF InFlight, Written
    <2> QED BY <2>1, <2>2
<1>5. ncrash = 0 => ReadsFresh'
    BY <1>4 DEF ReadsFresh
<1>6. \A v \in Workers, k \in Keys : floor'[v][k] <= settled[k]
    BY <1>2 DEF ContentInv, SettledInv
<1> QED
    BY <1>2, <1>4, <1>5, <1>6, QuietContent

LEMMA LoadContent ==
    ASSUME ShapeInv, ContentInv, NEW w \in Workers, Loads(w), Unhurt
    PROVE  ContentInv'
<1>1. /\ pc[w] = "load" /\ pc'[w] \in {"reply", "rdlock", "lock"}
      /\ \A v \in Workers \ {w} : /\ pc'[v] = pc[v] /\ todo'[v] = todo[v]
                                  /\ off'[v] = off[v] /\ got'[v] = got[v]
      /\ \A e \in got'[w] : e \in got[w] \/ e = <<Key(w), off[w]>>
    BY LoadEffect
<1>2. UNCHANGED <<disk, process, acked, settled, floor, ncrash>>
    BY DEF Loads
<1>3. ASSUME ncrash = 0, NEW e \in got'[w] PROVE e[2] >= floor'[w][e[1]]
    <2>1. off[w] >= floor[w][Key(w)]
        BY <1>1, <1>3 DEF ContentInv, UnkilledInv
    <2> QED
        BY <1>1, <1>2, <1>3, <2>1 DEF ContentInv, UnkilledInv, ReadsFresh
<1>4. ASSUME NEW v \in Workers
      PROVE  /\ InFlight(v)' <=> InFlight(v)
             /\ InFlight(v) => Key(v)' = Key(v) /\ off'[v] = off[v]
             /\ Written(v)'
             /\ ncrash = 0 => /\ pc'[v] = "load" => off'[v] >= floor'[v][Key(v)']
                              /\ \A e \in got'[v] : e[2] >= floor'[v][e[1]]
    <2>1. CASE v # w
        BY <1>1, <1>2, <2>1 DEF InFlight, Key, Written, Owns, Unhurt, ContentInv, UnkilledInv, ReadsFresh
    <2>2. CASE v = w
        BY <1>1, <1>3, <2>2 DEF InFlight, Written
    <2> QED BY <2>1, <2>2
<1>5. ncrash = 0 => ReadsFresh'
    BY <1>4 DEF ReadsFresh
<1>6. \A v \in Workers, k \in Keys : floor'[v][k] <= settled[k]
    BY <1>2 DEF ContentInv, SettledInv
<1> QED
    BY <1>2, <1>4, <1>5, <1>6, QuietContent

LEMMA TickContent ==
    ASSUME ShapeInv, ContentInv, Tick, Unhurt
    PROVE  ContentInv'
<1>1. UNCHANGED <<disk, process, acked, settled, floor, got, off, pc, todo, ncrash>>
    BY DEF Tick
<1> QED
    BY <1>1, QuietContent DEF InFlight, Key, Written, Owns, Unhurt, ContentInv, SettledInv, UnkilledInv, ReadsFresh

-----------------------------------------------------------------------------
(* The writers.                                                            *)

\* A worker that has something to write is the only one.
LEMMA FaultOnlyWriter ==
    ASSUME ShapeInv, NEW w \in Workers, pc[w] \in {"data", "binlog", "index"}
    PROVE  /\ phase \in {"up", "stopping"}
           /\ \A v \in Workers \ {w} : pc[v] \notin Holding /\ ~InFlight(v)
           /\ Key(w) \in Keys
           /\ off[w] \in Nat
<1>1. \A v \in Workers \ {w} : pc[v] \notin Holding
    BY NilAssumption DEF ShapeInv, LockInv, Holding
<1>2. pc[w] \notin {"idle", "exited", "reply"}
    OBVIOUS
<1> QED
    BY <1>1, <1>2, FaultAtWork, FaultServing DEF Holding, InFlight

\* An append to the data file publishes nothing; if the record is not there,
\* the key is among the hurt ones.
LEMMA AppendsContent ==
    ASSUME ShapeInv, ContentInv, NEW w \in Workers, Appends(w), hurt \subseteq hurt', hurt' \subseteq Keys,
           Key(w) \notin hurt' => Owns(Key(w), off[w])'
    PROVE  ContentInv'
<1> PICK o \in {0, Len(data) + 1} : off' = [off EXCEPT ![w] = o]
    BY DEF Appends
<1>1. /\ pc[w] = "data" /\ pc' = [pc EXCEPT ![w] = "binlog"]
      /\ UNCHANGED <<binlog, index, process, todo, got, env, history>>
    BY DEF Appends
<1>2. /\ Len(data') \in Nat /\ Len(data) \in Nat /\ Len(data) <= Len(data')
      /\ \A k : \A n \in Nat : Owns(k, n) => Owns(k, n)'
    BY AppendedFile
<1>3. /\ phase \in {"up", "stopping"}
      /\ \A v \in Workers \ {w} : pc[v] \notin Holding /\ ~InFlight(v)
      /\ Key(w) \in Keys
    BY <1>1, FaultOnlyWriter
<1>4. Restarted' = Restarted
    BY <1>1, FilesKept
<1>5. \A v \in Workers : ~InFlight(v) /\ ~InFlight(v)'
    BY <1>1, <1>3, ContentTypes DEF InFlight
<1>6. FaultRestart'
    BY <1>1, <1>3, <1>4, <1>5 DEF ContentInv, FaultRestart
<1>7. SettledInv'
    <2>1. \A k \in Keys : settled[k] <= Len(data) + 1 /\ settled[k] \in Nat
        BY ContentTypes DEF ContentInv, SettledInv
    <2>2. \A k \in Keys : settled[k] <= Len(data') + 1
        BY <1>2, <2>1
    <2> QED
        BY <1>1, <2>2 DEF ContentInv, SettledInv
<1>8. ASSUME NEW v \in Workers PROVE Written(v)'
    <2>1. CASE v # w
        BY <1>1, <1>3, <2>1, ContentTypes DEF Written, Holding
    <2>2. CASE v = w
        <3>1. settled[Key(w)] <= Len(data) + 1
            BY <1>3 DEF ContentInv, SettledInv
        <3>2. Key(w)' = Key(w) /\ off'[w] = o /\ settled' = settled
            BY <1>1, ContentTypes DEF Key
        <3> QED
            BY <1>2, <2>2, <3>1, <3>2 DEF Written, Owns
    <2> QED BY <2>1, <2>2
<1>9. FaultsContained'
    BY <1>1, <1>2, <1>4, ContentTypes DEF ContentInv, FaultsContained, Restarted
<1>10. ncrash' = 0 => UnkilledInv'
    BY <1>1, ContentTypes DEF ContentInv, UnkilledInv, Fresh, ReadsFresh, Key
<1> QED
    BY <1>6, <1>7, <1>8, <1>9, <1>10 DEF ContentInv

LEMMA DataKeptContent ==
    ASSUME ShapeInv, ContentInv, NEW w \in Workers, WriteData(w), Unhurt
    PROVE  ContentInv'
<1>1. Appends(w)
    BY DEF WriteData, Appends
<1>2. /\ data \in Seq(Record) /\ NewRecord(w, now) \in Record /\ NewRecord(w, now).key = Key(w)
      /\ data' = Append(data, NewRecord(w, now))
    BY FaultNewRecord, ContentTypes DEF WriteData
<1>3. data'[Len(data) + 1] = NewRecord(w, now) /\ Len(data') = Len(data) + 1 /\ Len(data) \in Nat
    BY <1>2, AppendProperties, LenProperties
<1>4. Owns(Key(w), off[w])'
    <2>1. Key(w)' = Key(w) /\ off'[w] = Len(data) + 1
        BY ContentTypes DEF WriteData, Key
    <2>2. Len(data) + 1 \in 1..Len(data') => data'[Len(data) + 1].key = Key(w)
        BY <1>2, <1>3
    <2> QED
        BY <1>1, <1>2, <1>3, <2>1, <2>2 DEF Owns
<1>5. hurt' = hurt /\ hurt \subseteq Keys
    BY DEF Unhurt, ShapeInv
<1> QED
    BY <1>1, <1>4, <1>5, AppendsContent

\* The append failed, or the record begins at position 0: the key is hurt.
LEMMA DataLostContent ==
    ASSUME ShapeInv, ContentInv, NEW w \in Workers, Appends(w), hurt' = hurt \cup {Key(w)}
    PROVE  ContentInv'
<1>1. hurt' \subseteq Keys
    BY FaultAtWork DEF ShapeInv, Appends
<1> QED
    BY <1>1, AppendsContent

\* A binlog entry that is not written leaves a tree that a restart would not
\* rebuild, for a key that is among the hurt ones.
LEMMA BinlogFullContent ==
    ASSUME ShapeInv, ContentInv, NEW w \in Workers, BinlogFull(w)
    PROVE  ContentInv'
<1>1. /\ pc[w] = "binlog" /\ pc' = [pc EXCEPT ![w] = "wrlock"] /\ hurt' = hurt \cup {Key(w)}
      /\ UNCHANGED <<disk, process, todo, off, got, env, history>>
    BY DEF BinlogFull, Fault
<1>2. /\ phase \in {"up", "stopping"}
      /\ \A v \in Workers \ {w} : pc[v] \notin Holding /\ ~InFlight(v)
      /\ Key(w) \in Keys
    BY <1>1, FaultOnlyWriter
<1>3. Restarted' = Restarted
    BY <1>1, FilesKept
<1>4. \A v \in Workers \ {w} : ~InFlight(v)'
    BY <1>1, <1>2, ContentTypes DEF InFlight
<1>5. Key(w)' = Key(w) /\ ~InFlight(w)
    BY <1>1 DEF Key, InFlight
<1>6. FaultRestart'
    <2>1. \A k \in Keys \ hurt' : tst[k] = Restarted[k]
        BY <1>1, <1>2, <1>5 DEF ContentInv, FaultRestart
    <2>2. \A v \in Workers : InFlight(v)' => Key(v)' \in hurt'
        BY <1>1, <1>4, <1>5
    <2> QED
        BY <1>1, <1>2, <1>3, <2>1, <2>2 DEF ContentInv, FaultRestart
<1>7. SettledInv' /\ FaultsContained'
    BY <1>1, <1>3 DEF ContentInv, SettledInv, FaultsContained, Restarted, Owns
<1>8. ASSUME NEW v \in Workers PROVE Written(v)'
    <2>1. CASE v # w
        BY <1>1, <1>2, <2>1, ContentTypes DEF Written, Holding
    <2>2. CASE v = w
        BY <1>1, <1>5, <2>2 DEF ContentInv, Written
    <2> QED BY <2>1, <2>2
<1>9. ncrash' = 0 => UnkilledInv'
    BY <1>1, ContentTypes DEF ContentInv, UnkilledInv, Fresh, ReadsFresh, Key
<1> QED
    BY <1>6, <1>7, <1>8, <1>9 DEF ContentInv

\* A logged write of a record that is there, or a logged deletion, repairs
\* its key.
LEMMA LoggedContent ==
    ASSUME ShapeInv, ContentInv, NEW w \in Workers, Logged(w)
    PROVE  ContentInv'
<1>1. /\ pc[w] = "binlog" /\ pc' = [pc EXCEPT ![w] = "wrlock"]
      /\ acked' = IF off[w] = 0 THEN [acked EXCEPT ![Key(w)] = 0] ELSE acked
      /\ UNCHANGED <<data, index, process, todo, off, got, env, settled, floor>>
    BY DEF Logged, WriteBinlog
<1>2. /\ phase \in {"up", "stopping"}
      /\ \A v \in Workers \ {w} : pc[v] \notin Holding /\ ~InFlight(v)
      /\ Key(w) \in Keys
      /\ off[w] \in Nat
    BY <1>1, FaultOnlyWriter
<1>3. Restarted' = [Restarted EXCEPT ![Key(w)] = off[w]]
    BY LoggedRestarted DEF Logged
<1>4. /\ hurt' \subseteq hurt /\ hurt \subseteq hurt' \cup {Key(w)}
      /\ Key(w) \notin hurt' => Owns(Key(w), off[w])
    BY <1>1 DEF Logged, Repairs, ContentInv, Written
<1>5. Key(w)' = Key(w) /\ ~InFlight(w) /\ InFlight(w)' /\ \A v \in Workers \ {w} : ~InFlight(v)'
    BY <1>1, <1>2, ContentTypes DEF Key, InFlight
<1>6. off[w] > 0 => settled[Key(w)] <= off[w] /\ off[w] <= Len(data) + 1
    BY <1>1 DEF ContentInv, Written
<1>7. FaultRestart'
    <2>1. \A k \in Keys \ hurt : tst[k] = Restarted[k]
        BY <1>2, <1>5 DEF ContentInv, FaultRestart
    <2>2. \A k \in Keys \ hurt' : k # Key(w) => tst'[k] = Restarted'[k]
        BY <1>1, <1>3, <1>4, <2>1, ContentTypes
    <2>3. \A k \in Keys \ hurt' : tst'[k] = Restarted'[k] \/ \E v \in Workers : InFlight(v)' /\ Key(v)' = k
        BY <1>5, <2>2
    <2>4. \A v \in Workers : InFlight(v)' => Restarted'[Key(v)'] = off'[v]
        BY <1>1, <1>2, <1>3, <1>5, ContentTypes
    <2> QED
        BY <1>1, <1>2, <2>3, <2>4 DEF ContentInv, FaultRestart
<1>8. \A k \in Keys : acked'[k] \in Nat /\ acked'[k] <= settled[k] /\ (k = Key(w) /\ off[w] = 0 => acked'[k] = 0)
    <2>1. \A k \in Keys : acked[k] \in Nat /\ settled[k] \in Nat /\ acked[k] <= settled[k]
        BY ContentTypes DEF ContentInv, SettledInv
    <2>2. \A k \in Keys : (acked'[k] = acked[k] \/ acked'[k] = 0) /\ (k = Key(w) /\ off[w] = 0 => acked'[k] = 0)
        BY <1>1, ContentTypes
    <2>3. \A m \in Nat : 0 <= m
        OBVIOUS
    <2>4. ASSUME NEW k \in Keys PROVE acked'[k] \in Nat /\ acked'[k] <= settled[k]
        <3>1. CASE acked'[k] = acked[k]
            BY <2>1, <3>1
        <3>2. CASE acked'[k] = 0
            BY <2>1, <2>3, <3>2
        <3> QED BY <2>2, <3>1, <3>2
    <2> QED BY <2>2, <2>4
<1>9. SettledInv'
    BY <1>1, <1>8 DEF ContentInv, SettledInv
<1>10. ASSUME NEW v \in Workers PROVE Written(v)'
    <2>1. CASE v # w
        BY <1>1, <1>2, <2>1, ContentTypes DEF Written, Holding
    <2>2. CASE v = w
        BY <1>1, <1>4, <1>5, <1>6, <2>2 DEF Written, Owns
    <2> QED BY <2>1, <2>2
<1>11. FaultsContained'
    <2>1. ASSUME NEW k \in Keys \ hurt'
          PROVE  /\ Owns(k, Restarted[k])'
                 /\ Restarted'[k] >= acked'[k]
                 /\ Restarted'[k] = 0 \/ Restarted'[k] >= settled[k]
        <3>1. CASE k = Key(w)
            <4>1. Restarted'[k] = off[w]
                BY <1>3, <3>1, ContentTypes
            <4>2. Owns(k, Restarted[k])'
                BY <1>1, <1>4, <3>1, <4>1 DEF Owns
            <4>3. settled[k] \in Nat /\ acked'[k] \in Nat /\ acked'[k] <= settled[k]
                BY <1>8, ContentTypes
            <4> QED
                BY <1>2, <1>6, <1>8, <3>1, <4>1, <4>2, <4>3
        <3>2. CASE k # Key(w)
            <4>1. k \notin hurt /\ Restarted'[k] = Restarted[k] /\ acked'[k] = acked[k]
                BY <1>1, <1>3, <1>4, <3>2, ContentTypes
            <4> QED
                BY <1>1, <4>1 DEF ContentInv, FaultsContained, Restarted, Owns
        <3> QED BY <3>1, <3>2
    <2> QED
        BY <1>1, <2>1 DEF FaultsContained, Restarted
<1>12. ncrash' = 0 => UnkilledInv'
    BY <1>1, <1>2, ContentTypes DEF ContentInv, UnkilledInv, Fresh, ReadsFresh, Key
<1> QED
    BY <1>7, <1>9, <1>10, <1>11, <1>12 DEF ContentInv

\* The change of the tree.
LEMMA UpdateIndexContent ==
    ASSUME ShapeInv, ContentInv, NEW w \in Workers, UpdateIndex(w), Unhurt
    PROVE  ContentInv'
<1> DEFINE new == IF off[w] = 0 THEN Len(data) + 1 ELSE off[w]
<1>1. /\ pc[w] = "index" /\ Advance(w)
      /\ tst' = [tst EXCEPT ![Key(w)] = off[w]]
      /\ acked' = [acked EXCEPT ![Key(w)] = off[w]]
      /\ settled' = [settled EXCEPT ![Key(w)] = new]
      /\ UNCHANGED <<disk, phase, rpos, off, got, floor, env, hurt>>
    BY DEF UpdateIndex, TreeAfter, Unhurt
<1>2. /\ phase \in {"up", "stopping"}
      /\ \A v \in Workers \ {w} : pc[v] \notin Holding /\ ~InFlight(v)
      /\ Key(w) \in Keys
      /\ off[w] \in Nat
    BY <1>1, FaultOnlyWriter
<1>3. Restarted' = Restarted /\ (Key(w) \notin hurt => Restarted[Key(w)] = off[w])
    BY <1>1, FilesKept DEF ContentInv, FaultRestart, InFlight
<1>4. /\ pc'[w] \in {"reply", "rdlock"}
      /\ \A v \in Workers \ {w} : pc'[v] = pc[v] /\ todo'[v] = todo[v]
    BY <1>1, FaultAdvancing
<1>5. \A v \in Workers : ~InFlight(v)'
    BY <1>2, <1>4 DEF InFlight
<1>6. /\ new \in Nat /\ settled[Key(w)] <= new /\ new <= Len(data) + 1
      /\ off[w] <= new /\ (off[w] = 0 \/ off[w] = new)
    <2>1. off[w] > 0 => settled[Key(w)] <= off[w] /\ off[w] <= Len(data) + 1
        BY <1>1 DEF ContentInv, Written
    <2>2. settled[Key(w)] <= Len(data) + 1
        BY <1>2 DEF ContentInv, SettledInv
    <2> QED
        BY <1>2, <2>1, <2>2, ContentTypes
<1> HIDE DEF new
<1>7. \A k \in Keys : settled[k] <= settled'[k] /\ settled'[k] \in Nat
    BY <1>1, <1>6, ContentTypes, SMTT(30)
<1>8. FaultRestart'
    <2>1. \A k \in Keys \ hurt : k # Key(w) => tst[k] = Restarted[k]
        BY <1>1, <1>2 DEF ContentInv, FaultRestart
    <2>2. \A k \in Keys \ hurt' : tst'[k] = Restarted'[k]
        BY <1>1, <1>2, <1>3, <2>1, ContentTypes
    <2> QED
        BY <1>1, <1>2, <1>5, <2>2 DEF ContentInv, FaultRestart
<1>9. SettledInv'
    <2>1. \A k \in Keys : acked'[k] <= settled'[k] /\ settled'[k] <= Len(data) + 1
        BY <1>1, <1>2, <1>6, ContentTypes DEF ContentInv, SettledInv
    <2>2. \A v \in Workers, k \in Keys : floor[v][k] <= settled'[k]
        <3>1. \A v \in Workers, k \in Keys : floor[v][k] <= settled[k] /\ floor[v][k] \in Nat
            BY ContentTypes DEF ContentInv, SettledInv
        <3> QED
            BY <1>7, <3>1, ContentTypes
    <2> QED
        BY <1>1, <2>1, <2>2 DEF SettledInv
<1>10. ASSUME NEW v \in Workers PROVE Written(v)'
    <2>1. CASE v # w
        BY <1>2, <1>4, <2>1 DEF Written, Holding
    <2>2. CASE v = w
        BY <1>4, <2>2 DEF Written
    <2> QED BY <2>1, <2>2
<1>11. FaultsContained'
    <2>1. ASSUME NEW k \in Keys \ hurt
          PROVE  /\ Owns(k, Restarted[k])'
                 /\ Restarted[k] >= acked'[k]
                 /\ Restarted[k] = 0 \/ Restarted[k] >= settled'[k]
        <3>1. Owns(k, Restarted[k])'
            BY <1>1, <1>3 DEF ContentInv, FaultsContained, Restarted, Owns
        <3>2. CASE k = Key(w)
            <4>1. Restarted[k] = off[w] /\ acked'[k] = off[w] /\ settled'[k] = new
                BY <1>1, <1>3, <3>2, ContentTypes
            <4> QED
                BY <1>2, <1>6, <3>1, <4>1
        <3>3. CASE k # Key(w)
            <4>1. acked'[k] = acked[k] /\ settled'[k] = settled[k]
                BY <1>1, <3>3, ContentTypes
            <4> QED
                BY <3>1, <4>1 DEF ContentInv, FaultsContained, Restarted
        <3> QED BY <3>2, <3>3
    <2> QED
        BY <1>1, <1>3, <2>1 DEF FaultsContained, Restarted
<1>12. ASSUME ncrash' = 0 PROVE UnkilledInv'
    <2>1. UnkilledInv
        BY <1>1, <1>12 DEF ContentInv
    <2>2. \A k \in Keys : tst'[k] = 0 \/ tst'[k] >= settled'[k]
        BY <1>1, <1>2, <1>6, <2>1, ContentTypes DEF UnkilledInv, Fresh
    <2>3. ASSUME NEW v \in Workers, pc'[v] = "load" PROVE off'[v] >= floor'[v][Key(v)']
        BY <1>1, <1>4, <2>1, <2>3 DEF UnkilledInv, Key
    <2>4. ReadsFresh'
        BY <1>1, <2>1 DEF UnkilledInv, ReadsFresh
    <2> QED
        BY <1>1, <1>2, <2>2, <2>3, <2>4 DEF UnkilledInv, Fresh
<1> QED
    BY <1>8, <1>9, <1>10, <1>11, <1>12 DEF ContentInv

-----------------------------------------------------------------------------
(* The life of the process.                                                *)

\* What a step of main keeps while the workers do nothing.
LEMMA HurtStillContent ==
    ASSUME ShapeInv, ContentInv, hurt \subseteq hurt', UNCHANGED <<data, locals, history>>
    PROVE  /\ \A w \in Workers : Written(w)' /\ (InFlight(w)' <=> InFlight(w))
           /\ \A w \in Workers : Key(w)' = Key(w) /\ off'[w] = off[w]
           /\ SettledInv'
           /\ (\A k \in Keys \ hurt' : Restarted'[k] = Restarted[k]) => FaultsContained'
           /\ UnkilledInv => /\ ReadsFresh'
                             /\ \A w \in Workers : pc'[w] = "load" => off'[w] >= floor'[w][Key(w)']
<1>1. \A w \in Workers : Written(w)' /\ (InFlight(w)' <=> InFlight(w)) /\ Key(w)' = Key(w) /\ off'[w] = off[w]
    BY DEF ContentInv, Written, InFlight, Key, Owns
<1>2. SettledInv'
    BY DEF ContentInv, SettledInv
<1>3. (\A k \in Keys \ hurt' : Restarted'[k] = Restarted[k]) => FaultsContained'
    BY DEF ContentInv, FaultsContained, Restarted, Owns
<1>4. UnkilledInv => /\ ReadsFresh'
                     /\ \A w \in Workers : pc'[w] = "load" => off'[w] >= floor'[w][Key(w)']
    BY DEF UnkilledInv, ReadsFresh, Key
<1> QED
    BY <1>1, <1>2, <1>3, <1>4

LEMMA StillContent ==
    ASSUME ShapeInv, ContentInv, Unhurt, UNCHANGED <<data, locals, history>>
    PROVE  /\ \A w \in Workers : Written(w)' /\ (InFlight(w)' <=> InFlight(w))
           /\ \A w \in Workers : Key(w)' = Key(w) /\ off'[w] = off[w]
           /\ SettledInv'
           /\ (\A k \in Keys \ hurt : Restarted'[k] = Restarted[k]) => FaultsContained'
           /\ UnkilledInv => /\ ReadsFresh'
                             /\ \A w \in Workers : pc'[w] = "load" => off'[w] >= floor'[w][Key(w)']
<1>1. hurt' = hurt
    BY DEF Unhurt
<1> QED
    BY <1>1, HurtStillContent

\* Only a served store has commands in flight.
LEMMA NoneInFlight ==
    ASSUME ShapeInv, phase \notin {"up", "stopping"}
    PROVE  \A w \in Workers : ~InFlight(w)
BY DEF ShapeInv, PhaseInv, Resting, InFlight

LEMMA ShutdownContent ==
    ASSUME ShapeInv, ContentInv, Shutdown, Unhurt
    PROVE  ContentInv'
<1>1. phase = "up" /\ phase' = "stopping" /\ UNCHANGED <<disk, tst, rpos, locals, env, history>>
    BY DEF Shutdown
<1>2. Restarted' = Restarted
    BY <1>1, FilesKept
<1>3. FaultRestart'
    BY <1>1, <1>2, StillContent DEF ContentInv, FaultRestart, Unhurt
<1>4. ncrash' = 0 => UnkilledInv'
    BY <1>1, StillContent DEF ContentInv, UnkilledInv, Fresh
<1> QED
    BY <1>1, <1>2, <1>3, <1>4, StillContent DEF ContentInv

LEMMA BootContent ==
    ASSUME ShapeInv, ContentInv, Boot, Unhurt
    PROVE  ContentInv'
<1>1. /\ phase = "down" /\ phase' = "replay" /\ tst' = index /\ rpos' = rpos
      /\ UNCHANGED <<disk, locals, env, history>>
    BY DEF Boot, CanStart, Reloaded
<1>2. Restarted' = Restarted
    BY <1>1, FilesKept
<1>3. rpos = 0
    BY <1>1 DEF ContentInv, FaultRestart
<1>4. \A w \in Workers : ~InFlight(w)'
    BY <1>1, NoneInFlight, StillContent
<1>5. Recovered(rpos)' = index
    <2>1. \A k \in Keys : Mentions(k, rpos)' = {}
        BY <1>1, <1>3 DEF Mentions
    <2> QED
        BY <1>1, <2>1, ContentTypes DEF Recovered
<1>6. FaultRestart'
    BY <1>1, <1>4, <1>5 DEF FaultRestart
<1>7. ncrash' = 0 => UnkilledInv'
    BY <1>1, StillContent DEF ContentInv, UnkilledInv, Fresh
<1> QED
    BY <1>1, <1>2, <1>6, <1>7, StillContent DEF ContentInv

\* A server that was never killed finds nothing to replay.
LEMMA ReplayOneContent ==
    ASSUME ShapeInv, ContentInv, ReplayOne, Unhurt
    PROVE  ContentInv'
<1>1. /\ phase = "replay" /\ phase' = "replay" /\ UNCHANGED <<disk, locals, env, history>>
      /\ tst' = [tst EXCEPT ![binlog[rpos + 1].key] = binlog[rpos + 1].off] /\ rpos' = rpos + 1
      /\ rpos < Len(binlog)
    BY DEF ReplayOne, NextPos, AtEndOfBinlog
<1>2. Restarted' = Restarted
    BY <1>1, FilesKept
<1>3. PICK n \in Nat : n = rpos
    BY ContentTypes
<1>4. tst' = Recovered(n + 1)
    BY <1>1, <1>3, RecoveredOneMore DEF ContentInv, FaultRestart
<1>5. Recovered(rpos)' = Recovered(n + 1)
    BY <1>1, <1>3 DEF Recovered, Mentions, LastMention
<1>6. \A w \in Workers : ~InFlight(w)'
    BY <1>1, NoneInFlight, StillContent
<1>7. FaultRestart'
    BY <1>1, <1>4, <1>5, <1>6 DEF FaultRestart
<1>8. ncrash' # 0
    BY <1>1, <1>3 DEF ContentInv, UnkilledInv
<1> QED
    BY <1>1, <1>2, <1>7, <1>8, StillContent DEF ContentInv

LEMMA ReplayDoneContent ==
    ASSUME ShapeInv, ContentInv, ReplayDone, Unhurt
    PROVE  ContentInv'
<1>1. /\ phase = "replay" /\ phase' = "up" /\ rpos' = 0 /\ tst' = tst
      /\ UNCHANGED <<data, index, locals, env, history>>
    BY DEF ReplayDone
<1>2. Restarted' = Restarted /\ tst = Restarted
    BY <1>1, FaultReplayDoneRestarted DEF ContentInv, FaultRestart
<1>3. \A w \in Workers : ~InFlight(w)'
    BY <1>1, NoneInFlight, StillContent
<1>4. FaultRestart'
    BY <1>1, <1>2, <1>3 DEF FaultRestart
<1>5. ncrash' = 0 => UnkilledInv'
    BY <1>1, StillContent DEF ContentInv, UnkilledInv, Fresh
<1> QED
    BY <1>1, <1>2, <1>4, <1>5, StillContent DEF ContentInv

\* The dump writes what the tree has, or nothing, of a hurt key.
LEMMA DumpsContent ==
    ASSUME ShapeInv, ContentInv, Dumps
    PROVE  ContentInv'
<1>1. /\ phase = "stopping" /\ phase' = "renamed" /\ binlog' = binlog
      /\ \A k \in Keys : index'[k] \in {tst[k], 0}
      /\ \A k \in Keys \ hurt' : index'[k] = tst[k]
      /\ hurt \subseteq hurt'
      /\ \A w \in Workers : pc[w] = "exited"
      /\ UNCHANGED <<data, tst, rpos, locals, env, history>>
    BY DEF Dumps
<1>2. \A w \in Workers : ~InFlight(w) /\ ~InFlight(w)'
    BY <1>1 DEF InFlight
<1>3. \A k \in Keys \ hurt : tst[k] = Restarted[k]
    BY <1>1, <1>2 DEF ContentInv, FaultRestart
<1>4. \A k \in Keys \ hurt' : Restarted'[k] = Restarted[k]
    BY <1>1, <1>3, FaultDumpRestarted
<1>5. FaultRestart'
    BY <1>1, <1>2, <1>3, <1>4 DEF ContentInv, FaultRestart
<1>6. ncrash' = 0 => UnkilledInv'
    BY <1>1, HurtStillContent DEF ContentInv, UnkilledInv, Fresh
<1> QED
    BY <1>1, <1>4, <1>5, <1>6, HurtStillContent DEF ContentInv

\* A process that is gone leaves its files and nothing else.
LEMMA VanishContent ==
    ASSUME ShapeInv, ContentInv, Vanish, Unhurt, UNCHANGED <<acked, settled>>,
           \A k \in Keys \ hurt : Restarted'[k] = Restarted[k],
           Len(data) \in Nat, Len(data') \in Nat, Len(data) <= Len(data'),
           \A k : \A o \in Nat : Owns(k, o) => Owns(k, o)',
           ncrash' = 0 => Len(binlog') = 0 /\ Fresh(index)'
    PROVE  ContentInv'
<1>1. FaultRestart'
    BY DEF Vanish, FaultRestart, InFlight
<1>2. SettledInv'
    <2>1. \A k \in Keys : settled[k] \in Nat /\ acked[k] <= settled[k] /\ settled[k] <= Len(data) + 1
        BY ContentTypes DEF ContentInv, SettledInv
    <2>2. \A k \in Keys : settled[k] <= Len(data') + 1
        BY <2>1
    <2>3. \A w \in Workers, k \in Keys : floor'[w][k] <= settled[k]
        BY <2>1 DEF Vanish, NoKeys
    <2> QED
        BY <2>1, <2>2, <2>3 DEF SettledInv
<1>3. \A w \in Workers : Written(w)'
    BY DEF Vanish, Written
<1>4. FaultsContained'
    <2>1. ASSUME NEW k \in Keys \ hurt
          PROVE  /\ Owns(k, Restarted[k])'
                 /\ Restarted'[k] >= acked'[k]
                 /\ Restarted'[k] = 0 \/ Restarted'[k] >= settled'[k]
        <3>1. Restarted[k] \in Nat /\ Restarted'[k] = Restarted[k]
            BY ContentTypes
        <3>2. /\ Owns(k, Restarted[k])
              /\ Restarted[k] >= acked[k]
              /\ Restarted[k] = 0 \/ Restarted[k] >= settled[k]
            BY DEF ContentInv, FaultsContained, Restarted
        <3>3. PICK o \in Nat : o = Restarted[k]
            BY <3>1
        <3>4. Owns(k, o)'
            BY <3>2, <3>3
        <3>5. Owns(k, Restarted[k])'
            BY <3>1, <3>3, <3>4 DEF Owns
        <3> QED BY <3>1, <3>2, <3>5
    <2> QED
        BY <2>1 DEF FaultsContained, Restarted, Unhurt
<1>5. ncrash' = 0 => UnkilledInv'
    BY DEF Vanish, UnkilledInv, ReadsFresh
<1> QED
    BY <1>1, <1>2, <1>3, <1>4, <1>5 DEF ContentInv

LEMMA RemoveBinlogContent ==
    ASSUME ShapeInv, ContentInv, RemoveBinlog, Unhurt
    PROVE  ContentInv'
<1>1. phase = "renamed" /\ Vanish /\ binlog' = << >> /\ UNCHANGED <<data, index, env, acked, settled>>
    BY DEF RemoveBinlog
<1>2. /\ \A w \in Workers : ~InFlight(w)
      /\ \A k \in Keys : index[k] \in {tst[k], 0}
      /\ \A k \in Keys \ hurt : index[k] = tst[k]
    BY <1>1, NoneInFlight DEF ContentInv, FaultRestart
<1>3. \A k \in Keys \ hurt : tst[k] = Restarted[k]
    BY <1>1, <1>2 DEF ContentInv, FaultRestart
<1>4. Restarted' = index
    BY RemoveBinlogRestarted, ContentTypes
<1>5. \A k \in Keys \ hurt : Restarted'[k] = Restarted[k]
    BY <1>2, <1>3, <1>4
<1>6. ncrash' = 0 => Len(binlog') = 0 /\ Fresh(index)'
    BY <1>1, <1>2, EmptySeq DEF ContentInv, UnkilledInv, Fresh
<1>7. \A k : \A o \in Nat : Owns(k, o) => Owns(k, o)'
    BY <1>1 DEF Owns
<1>8. Len(data) \in Nat /\ Len(data') \in Nat /\ Len(data) <= Len(data')
    BY <1>1, ContentTypes
<1> QED
    BY <1>1, <1>5, <1>6, <1>7, <1>8, VanishContent

LEMMA CrashContent ==
    ASSUME ShapeInv, ContentInv, Crash, Unhurt
    PROVE  ContentInv'
<1>1. Vanish /\ ncrash' = ncrash + 1 /\ UNCHANGED <<acked, settled>>
    BY DEF Crash
<1>2. ncrash' # 0
    BY <1>1 DEF ShapeInv, HistoryTypeOK
<1>3. Restarted' = Restarted
    BY FaultCrashRestarted
<1>4. /\ Len(data) \in Nat /\ Len(data') \in Nat /\ Len(data) <= Len(data')
      /\ \A k : \A o \in Nat : Owns(k, o) => Owns(k, o)'
    BY CrashFiles
<1> QED
    BY <1>1, <1>2, <1>3, <1>4, VanishContent

-----------------------------------------------------------------------------
(* The invariant.                                                          *)

LEMMA InitFault == FaultInit => FaultInv
<1> SUFFICES ASSUME FaultInit PROVE FaultInv
    OBVIOUS
<1>1. Init /\ head = "buffered" /\ nfault = 0 /\ hurt = {}
    BY DEF FaultInit
<1>2. TypeOK /\ LockInv /\ PhaseInv
    BY <1>1, InitInv DEF IInv
<1>3. Len(binlog) = 0 /\ Len(data) = 0
    BY <1>1, EmptySeq DEF Init
<1>4. BinlogKeyed /\ \A w \in Workers : FaultFrame(w)
    BY <1>1, <1>3 DEF Init, BinlogKeyed, FaultFrame, Resting
<1>5. ShapeInv /\ HeadInv
    BY <1>1, <1>2, <1>4 DEF ShapeInv, HeadInv, Init
<1>6. Restarted = NoKeys
    BY <1>1, <1>3, <1>5, ContentTypes, RecoveredNone DEF Init, Restarted
<1>7. FaultRestart /\ SettledInv /\ \A w \in Workers : Written(w)
    BY <1>1, <1>3 DEF Init, FaultRestart, InFlight, SettledInv, Written, NoKeys
<1>8. FaultsContained
    BY <1>1, <1>6 DEF Init, FaultsContained, Restarted, Owns, NoKeys
<1>9. UnkilledInv
    BY <1>1, <1>3 DEF Init, UnkilledInv, Fresh, ReadsFresh, NoKeys
<1> QED
    BY <1>5, <1>7, <1>8, <1>9 DEF FaultInv, ContentInv

\* A byte in the data file takes the place of the header, lost or not.
LEMMA HeadKept ==
    ASSUME HeadInv, [FaultNext]_faultVars
    PROVE  HeadInv'
<1>1. ASSUME NEW w \in Workers, DataKept(w) \/ DataAtZero(w) \/ DataFull(w) PROVE HeadInv'
    BY <1>1 DEF HeadInv, DataKept, DataAtZero, DataFull
<1>2. ASSUME NEW w \in Workers, Logged(w) \/ BinlogFull(w) PROVE HeadInv'
    BY <1>2 DEF HeadInv, Logged, WriteBinlog, BinlogFull
<1>3. CASE DumpWhole \/ DumpFull
    BY <1>3 DEF HeadInv, DumpWhole, DumpIndex, DumpFull, HeadClosed
<1>4. CASE Ended
    BY <1>4 DEF HeadInv, Ended, RemoveBinlog, HeadLeft
<1>5. CASE Killed
    BY <1>5 DEF HeadInv, Killed, HeadLeft, HeadClosed
<1>6. ASSUME NEW w \in Workers, Sound(w), head' = head PROVE HeadInv'
    <2>1. data' = data
        BY <1>6 DEF Sound, LockWriter, Check, LockIndex, UpdateIndex, RdLock, Search, LoadRecord, Load,
            LoadGarbage, Reply, ClearFrame, WorkerExit, Receive
    <2> QED BY <1>6, <2>1 DEF HeadInv
<1>7. CASE (Boot \/ ReplayOne \/ ReplayDone \/ Shutdown \/ Tick) /\ head' = head
    BY <1>7 DEF HeadInv, Boot, ReplayOne, ReplayDone, Shutdown, Tick
<1>8. CASE UNCHANGED faultVars
    BY <1>8 DEF HeadInv, faultVars, vars
<1> QED
    BY <1>1, <1>2, <1>3, <1>4, <1>5, <1>6, <1>7, <1>8 DEF FaultNext

\* Every step of the store with a disk that may be full preserves the
\* invariant.
LEMMA FaultNextInv == FaultInv /\ [FaultNext]_faultVars => FaultInv'
<1> SUFFICES ASSUME ShapeInv, HeadInv, ContentInv, [FaultNext]_faultVars PROVE ShapeInv' /\ ContentInv'
    BY HeadKept DEF FaultInv
<1>1. ASSUME NEW w \in Workers, DataFull(w) \/ DataAtZero(w) PROVE ShapeInv' /\ ContentInv'
    <2>1. pc[w] = "data" /\ Key(w) \in Keys
        BY <1>1, FaultAtWork DEF DataFull, DataAtZero
    <2>2. nfault' \in Nat /\ hurt' = hurt \cup {Key(w)}
        BY <1>1 DEF DataFull, DataAtZero, Fault, ShapeInv
    <2>3. Appends(w)
        BY <1>1 DEF DataFull, DataAtZero, EndOfData, Appends
    <2>4. hurt' \subseteq Keys
        BY <2>1, <2>2 DEF ShapeInv
    <2> QED
        BY <2>2, <2>3, <2>4, AppendsShape, DataLostContent
<1>2. ASSUME NEW w \in Workers, BinlogFull(w) PROVE ShapeInv' /\ ContentInv'
    BY <1>2, BinlogFullShape, BinlogFullContent
<1>3. ASSUME NEW w \in Workers, Logged(w) PROVE ShapeInv' /\ ContentInv'
    BY <1>3, LoggedShape, LoggedContent
<1>4. ASSUME NEW w \in Workers, DataKept(w) PROVE ShapeInv' /\ ContentInv'
    <2>1. WriteData(w) /\ Unhurt
        BY <1>4 DEF DataKept, Unhurt
    <2>2. Appends(w) /\ nfault' \in Nat /\ hurt' \subseteq Keys
        BY <2>1 DEF WriteData, Appends, ShapeInv, Unhurt
    <2> QED
        BY <2>1, <2>2, AppendsShape, DataKeptContent
<1>5. ASSUME NEW w \in Workers, Sound(w), Unhurt PROVE ShapeInv' /\ ContentInv'
    <2>2. CASE LoadRecord(w) \/ LoadGarbage(w)
        <3>1. Loads(w)
            BY <2>2 DEF LoadRecord, LoadGarbage, Loads, Load
        <3> QED
            BY <1>5, <3>1, LoadShape, LoadContent
    <2>3. CASE \E r \in Requests : Receive(w, r)
        BY <1>5, <2>3, ReceiveShape, ReceiveContent
    <2>4. CASE LockWriter(w) \/ Check(w) \/ LockIndex(w) \/ UpdateIndex(w)
        BY <1>5, <2>4, LockWriterShape, CheckShape, LockIndexShape, UpdateIndexShape,
           LockWriterContent, CheckContent, LockIndexContent, UpdateIndexContent
    <2>5. CASE RdLock(w) \/ Search(w) \/ Reply(w) \/ WorkerExit(w)
        BY <1>5, <2>5, RdLockShape, SearchShape, ReplyShape, WorkerExitShape,
           RdLockContent, SearchContent, ReplyContent, WorkerExitContent
    <2> QED
        BY <1>5, <2>2, <2>3, <2>4, <2>5 DEF Sound
<1>6. CASE DumpWhole \/ DumpFull
    BY <1>6, DumpsEffect, DumpsShape, DumpsContent
<1>7. CASE Ended \/ Killed
    <2>1. (RemoveBinlog \/ Crash) /\ Unhurt
        BY <1>7 DEF Ended, Killed, Unhurt
    <2> QED
        BY <2>1, RemoveBinlogShape, CrashShape, RemoveBinlogContent, CrashContent
<1>8. ASSUME Boot \/ ReplayOne \/ ReplayDone, Unhurt PROVE ShapeInv' /\ ContentInv'
    BY <1>8, BootShape, ReplayOneShape, ReplayDoneShape,
       BootContent, ReplayOneContent, ReplayDoneContent
<1>9. ASSUME Shutdown \/ Tick, Unhurt PROVE ShapeInv' /\ ContentInv'
    BY <1>9, ShutdownShape, TickShape, ShutdownContent, TickContent
<1>10. CASE UNCHANGED faultVars
    <2>1. UNCHANGED <<disk, process, locks, locals, env, history>> /\ Unhurt
        BY <1>10 DEF faultVars, vars, Unhurt
    <2>2. ShapeInv'
        BY <2>1, MainShape DEF ShapeInv, DiskTypeOK, ProcessTypeOK, LocalsTypeOK, HistoryTypeOK, PhaseInv,
            Resting, BinlogKeyed
    <2>3. ContentInv'
        <3>1. Restarted' = Restarted
            BY <2>1, FilesKept
        <3>2. FaultRestart'
            <4>1. Recovered(rpos)' = Recovered(rpos)
                BY <2>1 DEF Recovered, Mentions, LastMention
            <4>2. \A w \in Workers : (InFlight(w)' <=> InFlight(w)) /\ Key(w)' = Key(w)
                BY <2>1, StillContent
            <4> QED
                BY <2>1, <3>1, <4>1, <4>2 DEF ContentInv, FaultRestart, Unhurt
        <3>3. ncrash' = 0 => UnkilledInv'
            BY <2>1, StillContent DEF ContentInv, UnkilledInv, Fresh
        <3> QED
            BY <2>1, <3>1, <3>2, <3>3, StillContent DEF ContentInv
    <2> QED BY <2>2, <2>3
<1> QED
    BY <1>1, <1>2, <1>3, <1>4, <1>5, <1>6, <1>7, <1>8, <1>9, <1>10 DEF FaultNext, Unhurt

\* However often the disk is full and the process is killed, every state
\* satisfies the invariant (cmd_do_set to cmd_do_delete, init_data,
\* replay_binlog and dump_tst, with writes whose result nobody looks at).
THEOREM FaultInvariance == FaultSpec => []FaultInv
<1> QED
    BY InitFault, FaultNextInv, PTL DEF FaultSpec

\* A failed write harms only the keys in hurt, and each until it is written
\* or deleted again, also when later appends of other keys reuse an offset or
\* follow a cut record: the key of the failed append (the unchecked fwrite and
\* fflush of cmd_process.c), the next one written if the file's header went
\* with it (tstserver.c:353), and those a short dump leaves out
\* (tstserver.c:384).
THEOREM FaultsStayContained == FaultSpec => []FaultsContained
<1>1. FaultInv => FaultsContained
    BY DEF FaultInv, ContentInv
<1> QED
    BY <1>1, FaultInvariance, PTL

\* Nor does a failed write let two workers into the tree: the error paths take
\* and drop the same locks (g_writer_lock and g_reader_lock, cmd_process.c).
THEOREM FaultIsolation == FaultSpec => []IndexIsolation
<1>1. FaultInv => IndexIsolation
    BY NilAssumption DEF FaultInv, ShapeInv, LockInv, Holding, IndexIsolation
<1> QED
    BY <1>1, FaultInvariance, PTL

\* As long as nobody kills the server, a reader returns no record older than
\* its request allows, of hurt keys neither: the offset handed out twice is the
\* newer command's (cmd_do_get, ftell).
THEOREM FaultFreshReads == FaultSpec => []FreshUnlessKilled
<1>1. FaultInv => FreshUnlessKilled
    BY DEF FaultInv, ContentInv, UnkilledInv, FreshUnlessKilled
<1> QED
    BY <1>1, FaultInvariance, PTL

=============================================================================
