--------------------------- MODULE TstStoreProofs ---------------------------
(***************************************************************************)
(* Proofs about TstStore, for any set of workers, keys and requests and    *)
(* any bounds: exclusive access to the tree, atomic commands, what         *)
(* survives crashes and restarts, what a reader may see, and that the      *)
(* files implement DurableMap.                                             *)
(***************************************************************************)
EXTENDS TstStore, SequenceTheorems, WellFoundedInduction, TLAPS

USE DEF disk, process, locks, locals, env, history, Goto

LEMMA RequestFacts ==
    /\ NoReq \notin Requests
    /\ \A r \in Requests : /\ r.op \in WriteOps \cup ReadOps
                           /\ r.keys \in Seq(Keys) /\ r.keys # << >>
                           /\ r.op \notin GetOps => Len(r.keys) = 1
                           /\ r.val \in Int /\ r.exp \in Int /\ r.sign \in Nat
BY RequestsAssumption DEF Request, NoReq, WriteOps, ReadOps, PutOps, DeleteOps, GetOps, ScanOps

\* The type invariant with its parts.
USE DEF TypeOK

\* The commands are of pairwise different kinds.
USE DEF PutOps, DeleteOps, GetOps, ScanOps, WriteOps, ReadOps

\* A worker that is at work has a key at hand, and its command is one of
\* those clients send.
LEMMA AtWork ==
    ASSUME IInv, NEW w \in Workers, pc[w] \notin {"idle", "exited", "reply"}
    PROVE  /\ Key(w) \in Keys
           /\ Tail(todo[w]) \in Seq(Keys)
           /\ todo[w] \in Seq(Keys) /\ todo[w] # << >>
           /\ req[w] \in Requests
<1>1. todo[w] \in Seq(Keys) /\ todo[w] # << >>
    BY DEF IInv, LocalsTypeOK, Frame, Resting
<1>2. req[w] \in Requests
    BY DEF IInv, LocalsTypeOK, Frame, Resting
<1> QED
    BY <1>1, <1>2 DEF Key

\* Advance leaves only a get at work, with its remaining keys.
LEMMA Advancing ==
    ASSUME IInv, NEW w \in Workers, pc[w] \notin {"idle", "exited", "reply"}, Advance(w)
    PROVE  /\ todo' \in [Workers -> Seq(Keys)]
           /\ pc' \in [Workers -> Points]
           /\ \/ pc'[w] = "reply"
              \/ pc'[w] = "rdlock" /\ req[w].op \in GetOps /\ todo'[w] # << >>
           /\ \A v \in Workers \ {w} : pc'[v] = pc[v] /\ todo'[v] = todo[v]
<1>1. todo[w] \in Seq(Keys) /\ todo[w] # << >> /\ Tail(todo[w]) \in Seq(Keys)
    BY AtWork
<1>2. req[w].op \notin GetOps => Len(todo[w]) = 1
    BY DEF IInv, Frame, Resting
<1>3. Len(todo[w]) # 1 => Tail(todo[w]) # << >>
    <2>1. Len(todo[w]) \in Nat /\ Len(Tail(todo[w])) = Len(todo[w]) - 1
        BY <1>1, HeadTailProperties
    <2>2. ASSUME Tail(todo[w]) = << >> PROVE Len(Tail(todo[w])) = 0
        BY <2>2, EmptySeq
    <2> QED BY <2>1, <2>2
<1> QED
    BY <1>1, <1>2, <1>3 DEF IInv, LocalsTypeOK, Advance, Points

LEMMA InitInv == Init => IInv
<1> SUFFICES ASSUME Init PROVE IInv
    OBVIOUS
<1>1. TypeOK
    BY BoundsAssumption DEF Init, DiskTypeOK, ProcessTypeOK, LocalsTypeOK, HistoryTypeOK, NoKeys, NoReq, Junk, Record, Entry, Phases, Points
<1>2. LockInv /\ PhaseInv
    BY NilAssumption DEF Init, LockInv, PhaseInv, Holding, Resting
<1>3. RecordsOwned
    BY DEF Init, RecordsOwned, TreeOwned, IndexOwned, BinlogOwned, EntryOwned, Owns, NoKeys
<1>4. \A w \in Workers : Frame(w) /\ Decision(w)
    BY DEF Init, Frame, Decision, Decided, Resting
<1> QED
    BY <1>1, <1>2, <1>3, <1>4 DEF IInv

LEMMA ReceiveInv ==
    ASSUME IInv, NEW w \in Workers, NEW r \in Requests, Receive(w, r)
    PROVE  IInv'
<1>1. TypeOK'
    <2>1. DiskTypeOK' /\ ProcessTypeOK'
        BY DEF IInv, Receive, DiskTypeOK, ProcessTypeOK
    <2>2. LocalsTypeOK'
        BY RequestFacts DEF IInv, Receive, LocalsTypeOK, Points
    <2>3. HistoryTypeOK'
        BY DEF IInv, Receive, HistoryTypeOK
    <2> QED BY <2>1, <2>2, <2>3
<1>2. LockInv' /\ PhaseInv'
    BY DEF IInv, LocalsTypeOK, Receive, LockInv, PhaseInv, Holding, Resting
<1>3. RecordsOwned'
    BY DEF IInv, Receive, RecordsOwned, TreeOwned, IndexOwned, BinlogOwned, EntryOwned, Owns
<1>4. ASSUME NEW v \in Workers PROVE (Frame(v) /\ Decision(v))'
    <2>1. CASE v # w
        BY <2>1 DEF IInv, LocalsTypeOK, Receive, Frame, Decision, Decided, Resting, Key, Owns
    <2>2. CASE v = w
        BY <2>2, RequestFacts DEF IInv, LocalsTypeOK, Receive, Frame, Decision, Decided, Resting, Key, Owns,
            WriteOps, ReadOps, PutOps, DeleteOps, GetOps, ScanOps
    <2> QED BY <2>1, <2>2
<1> QED
    BY <1>1, <1>2, <1>3, <1>4 DEF IInv

\* The steps that only move a worker and its locks.
LEMMA LockWriterInv ==
    ASSUME IInv, NEW w \in Workers, LockWriter(w)
    PROVE  IInv'
<1>1. TypeOK'
    BY DEF IInv, LockWriter, MutexFree, DiskTypeOK, ProcessTypeOK, LocalsTypeOK, HistoryTypeOK, Points
<1>2. LockInv' /\ PhaseInv'
    BY NilAssumption DEF IInv, LocalsTypeOK, LockWriter, MutexFree, LockInv, PhaseInv, Holding, Resting
<1>3. RecordsOwned'
    BY DEF IInv, LockWriter, RecordsOwned, TreeOwned, IndexOwned, BinlogOwned, EntryOwned, Owns
<1>4. ASSUME NEW v \in Workers PROVE (Frame(v) /\ Decision(v))'
    <2>1. CASE v # w
        BY <2>1 DEF IInv, LocalsTypeOK, LockWriter, Frame, Decision, Decided, Resting, Key, Owns
    <2>2. CASE v = w
        BY <2>2 DEF IInv, LocalsTypeOK, LockWriter, Frame, Decision, Decided, Resting, Key, Owns
    <2> QED BY <2>1, <2>2
<1> QED
    BY <1>1, <1>2, <1>3, <1>4 DEF IInv

LEMMA LockIndexInv ==
    ASSUME IInv, NEW w \in Workers, LockIndex(w)
    PROVE  IInv'
<1>1. TypeOK'
    BY DEF IInv, LockIndex, DiskTypeOK, ProcessTypeOK, LocalsTypeOK, HistoryTypeOK, Points
<1>2. LockInv' /\ PhaseInv'
    BY NilAssumption DEF IInv, LocalsTypeOK, LockIndex, NoReaders, LockInv, PhaseInv, Holding, Resting
<1>3. RecordsOwned'
    BY DEF IInv, LockIndex, RecordsOwned, TreeOwned, IndexOwned, BinlogOwned, EntryOwned, Owns
<1>4. ASSUME NEW v \in Workers PROVE (Frame(v) /\ Decision(v))'
    BY DEF IInv, LocalsTypeOK, LockIndex, Frame, Decision, Decided, Resting, Key, Owns
<1> QED
    BY <1>1, <1>2, <1>3, <1>4 DEF IInv

LEMMA RdLockInv ==
    ASSUME IInv, NEW w \in Workers, RdLock(w)
    PROVE  IInv'
<1>1. TypeOK'
    BY DEF IInv, RdLock, DiskTypeOK, ProcessTypeOK, LocalsTypeOK, HistoryTypeOK, Points
<1>2. LockInv' /\ PhaseInv'
    BY NilAssumption DEF IInv, LocalsTypeOK, RdLock, LockInv, PhaseInv, Holding, Resting
<1>3. RecordsOwned'
    BY DEF IInv, RdLock, RecordsOwned, TreeOwned, IndexOwned, BinlogOwned, EntryOwned, Owns
<1>4. ASSUME NEW v \in Workers PROVE (Frame(v) /\ Decision(v))'
    BY DEF IInv, LocalsTypeOK, RdLock, Frame, Decision, Decided, Resting, Key, Owns
<1> QED
    BY <1>1, <1>2, <1>3, <1>4 DEF IInv

LEMMA WorkerExitInv ==
    ASSUME IInv, NEW w \in Workers, WorkerExit(w)
    PROVE  IInv'
<1>1. TypeOK'
    BY DEF IInv, WorkerExit, DiskTypeOK, ProcessTypeOK, LocalsTypeOK, HistoryTypeOK, Points
<1>2. LockInv' /\ PhaseInv'
    BY DEF IInv, LocalsTypeOK, WorkerExit, LockInv, PhaseInv, Holding, Resting
<1>3. RecordsOwned'
    BY DEF IInv, WorkerExit, RecordsOwned, TreeOwned, IndexOwned, BinlogOwned, EntryOwned, Owns
<1>4. ASSUME NEW v \in Workers PROVE (Frame(v) /\ Decision(v))'
    BY DEF IInv, LocalsTypeOK, WorkerExit, Frame, Decision, Decided, Resting, Key, Owns
<1> QED
    BY <1>1, <1>2, <1>3, <1>4 DEF IInv

LEMMA ReplyInv ==
    ASSUME IInv, NEW w \in Workers, Reply(w)
    PROVE  IInv'
<1>1. TypeOK'
    <2>1. DiskTypeOK' /\ ProcessTypeOK'
        BY DEF IInv, Reply, DiskTypeOK, ProcessTypeOK
    <2>2. LocalsTypeOK'
        BY DEF IInv, Reply, ClearFrame, LocalsTypeOK, Points, Record, Junk
    <2>3. HistoryTypeOK'
        BY DEF IInv, Reply, ClearFrame, HistoryTypeOK, NoKeys
    <2> QED BY <2>1, <2>2, <2>3
<1>2. LockInv' /\ PhaseInv'
    BY DEF IInv, LocalsTypeOK, Reply, LockInv, PhaseInv, Holding, Resting
<1>3. RecordsOwned'
    BY DEF IInv, Reply, RecordsOwned, TreeOwned, IndexOwned, BinlogOwned, EntryOwned, Owns
<1>4. ASSUME NEW v \in Workers PROVE (Frame(v) /\ Decision(v))'
    BY DEF IInv, LocalsTypeOK, Reply, ClearFrame, Frame, Decision, Decided, Resting, Key, Owns
<1> QED
    BY <1>1, <1>2, <1>3, <1>4 DEF IInv

\* The look at the tree under g_writer_lock.
LEMMA CountedType ==
    ASSUME NEW r \in Requests, NEW old \in Record
    PROVE  Counted(r, old) \in Record /\ Counted(r, old).key = old.key
<1>1. r.val \in Int
    BY RequestFacts
<1>2. \A n \in Int : Wrap(n) \in Int
    BY BoundsAssumption DEF Wrap
<1>3. old.val - r.val \in Int /\ old.val + r.val \in Int
    BY <1>1 DEF Record
<1> QED
    BY <1>2, <1>3 DEF Counted, Record

LEMMA CheckInv ==
    ASSUME IInv, NEW w \in Workers, Check(w)
    PROVE  IInv'
<1>1. Key(w) \in Keys /\ req[w] \in Requests
    BY AtWork DEF Check
<1>2. CASE MustGiveUp(w)
    <2>1. mutex' = Nil /\ Advance(w) /\ tmp' = tmp /\ msg' = [msg EXCEPT ![w] = "fail"]
        BY <1>2 DEF Check, GiveUp
    <2>2. /\ todo' \in [Workers -> Seq(Keys)]
          /\ pc' \in [Workers -> Points]
          /\ \/ pc'[w] = "reply"
             \/ pc'[w] = "rdlock" /\ req[w].op \in GetOps /\ todo'[w] # << >>
          /\ \A v \in Workers \ {w} : pc'[v] = pc[v] /\ todo'[v] = todo[v]
        <3>1. pc[w] \notin {"idle", "exited", "reply"}
            BY DEF Check
        <3> QED BY <2>1, <3>1, Advancing
    <2>3. TypeOK'
        BY <2>1, <2>2 DEF IInv, Check, DiskTypeOK, ProcessTypeOK, LocalsTypeOK, HistoryTypeOK
    <2>4. LockInv' /\ PhaseInv'
        BY <2>1, <2>2, NilAssumption DEF IInv, Check, LockInv, PhaseInv, Holding, Resting
    <2>5. RecordsOwned'
        BY DEF IInv, Check, RecordsOwned, TreeOwned, IndexOwned, BinlogOwned, EntryOwned, Owns
    <2>6. ASSUME NEW v \in Workers PROVE (Frame(v) /\ Decision(v))'
        <3>1. CASE v # w
            <4>1. Frame(v)'
                BY <2>1, <2>2, <3>1 DEF IInv, Check, Frame, Resting, Key, Owns
            <4>2. Decision(v)'
                BY <2>1, <2>2, <3>1 DEF IInv, Check, Decision, Decided, Key
            <4> QED BY <4>1, <4>2
        <3>2. CASE v = w
            BY <2>1, <2>2, <3>2 DEF IInv, Check, Frame, Decision, Decided, Resting, Key, Owns
        <3> QED BY <3>1, <3>2
    <2> QED
        BY <2>3, <2>4, <2>5, <2>6 DEF IInv
<1>3. CASE ~MustGiveUp(w)
    <2>1. tst[Key(w)] > 0 => data[tst[Key(w)]] \in Record
        BY <1>1 DEF IInv, DiskTypeOK, RecordsOwned, TreeOwned, Owns
    <2>2. req[w].op \in {"incr", "decr", "delete"} => tst[Key(w)] > 0
        BY <1>1, <1>3 DEF MustGiveUp, IInv, ProcessTypeOK
    <2>3. req[w].op \in {"incr", "decr"} => Counted(req[w], data[tst[Key(w)]]) \in Record
        BY <1>1, <2>1, <2>2, CountedType
    <2>4. TypeOK'
        <3>1. DiskTypeOK' /\ ProcessTypeOK'
            BY <1>3 DEF IInv, Check, DiskTypeOK, ProcessTypeOK
        <3>2. LocalsTypeOK'
            BY <1>3, <2>3 DEF IInv, Check, LocalsTypeOK, Points
        <3>3. HistoryTypeOK'
            BY DEF IInv, Check, HistoryTypeOK
        <3> QED BY <3>1, <3>2, <3>3 DEF TypeOK
    <2>5. LockInv' /\ PhaseInv'
        BY <1>3 DEF IInv, LocalsTypeOK, Check, LockInv, PhaseInv, Holding, Resting
    <2>6. RecordsOwned'
        BY DEF IInv, Check, RecordsOwned, TreeOwned, IndexOwned, BinlogOwned, EntryOwned, Owns
    <2>7. ASSUME NEW v \in Workers PROVE (Frame(v) /\ Decision(v))'
        <3>1. CASE v # w
            BY <1>3, <3>1 DEF IInv, LocalsTypeOK, Check, Frame, Decision, Decided, Resting, Key, Owns
        <3>2. CASE v = w
            <4>1. Frame(w)'
                BY <1>3 DEF IInv, LocalsTypeOK, Check, Frame, Resting, Key, Owns
            <4>2. Decision(w)'
                BY <1>3, <2>2 DEF IInv, LocalsTypeOK, Check, MustGiveUp, SignMatches,
                    Frame, Decision, Decided, Resting, Key
            <4> QED BY <3>2, <4>1, <4>2
        <3> QED BY <3>1, <3>2
    <2> QED
        BY <2>4, <2>5, <2>6, <2>7 DEF IInv
<1> QED
    BY <1>2, <1>3

\* The appends.  A longer data file still has every record it had.
LEMMA OwnsKept ==
    ASSUME data \in Seq(Record), NEW x \in Record, data' = Append(data, x)
    PROVE  /\ data' \in Seq(Record)
           /\ Len(data') = Len(data) + 1
           /\ data'[Len(data) + 1] = x
           /\ \A o \in 1..Len(data) : o \in 1..Len(data') /\ data'[o] = data[o]
           /\ \A k : \A o \in Nat : Owns(k, o) => Owns(k, o)'
<1>1. /\ data' \in Seq(Record)
      /\ Len(data') = Len(data) + 1
      /\ data'[Len(data) + 1] = x
      /\ \A o \in 1..Len(data) : data'[o] = data[o]
    BY AppendProperties
<1>2. Len(data) \in Nat
    BY LenProperties
<1> QED
    BY <1>1, <1>2 DEF Owns

LEMMA NewRecordFacts ==
    ASSUME IInv, NEW w \in Workers, pc[w] = "data"
    PROVE  /\ NewRecord(w, now) \in Record
           /\ NewRecord(w, now).key = Key(w)
           /\ req[w].op \in {"incr", "decr"} => NewRecord(w, now) = tmp[w]
<1>1. /\ Key(w) \in Keys /\ req[w] \in Requests
      /\ req[w].val \in Int /\ req[w].exp \in Int
    BY AtWork, RequestFacts
<1>2. CASE req[w].op \in {"incr", "decr"}
    <2>1. tst[Key(w)] > 0 /\ tmp[w] = Counted(req[w], data[tst[Key(w)]])
        BY <1>2 DEF IInv, Decision, Decided
    <2>2. data[tst[Key(w)]] \in Record /\ data[tst[Key(w)]].key = Key(w)
        BY <1>1, <2>1 DEF IInv, DiskTypeOK, ProcessTypeOK, RecordsOwned, TreeOwned, Owns
    <2>3. tmp[w] \in Record /\ tmp[w].key = Key(w)
        BY <1>1, <2>1, <2>2, CountedType
    <2> QED
        BY <1>2, <2>3 DEF NewRecord
<1>3. CASE req[w].op \notin {"incr", "decr"}
    <2>1. now \in Int
        BY DEF IInv, HistoryTypeOK
    <2>2. Wrap(req[w].exp + now) \in Int
        BY <1>1, <2>1, BoundsAssumption DEF Wrap
    <2> QED
        BY <1>1, <1>3, <2>2 DEF NewRecord, Record
<1> QED
    BY <1>2, <1>3

LEMMA WriteDataInv ==
    ASSUME IInv, NEW w \in Workers, WriteData(w)
    PROVE  IInv'
<1> DEFINE new == NewRecord(w, now)
<1>1. new \in Record /\ new.key = Key(w) /\ (req[w].op \in {"incr", "decr"} => new = tmp[w])
    BY NewRecordFacts DEF WriteData
<1>2. data \in Seq(Record) /\ data' = Append(data, new)
    BY DEF IInv, DiskTypeOK, WriteData
<1> HIDE DEF new
<1>3. /\ data' \in Seq(Record)
      /\ Len(data') = Len(data) + 1 /\ Len(data) \in Nat
      /\ data'[Len(data) + 1] = new
      /\ \A o \in 1..Len(data) : o \in 1..Len(data') /\ data'[o] = data[o]
      /\ \A k : \A o \in Nat : Owns(k, o) => Owns(k, o)'
    BY <1>1, <1>2, OwnsKept, LenProperties
<1>4. TypeOK'
    <2>1. DiskTypeOK' /\ ProcessTypeOK'
        BY <1>3 DEF IInv, WriteData, DiskTypeOK, ProcessTypeOK
    <2>2. LocalsTypeOK' /\ HistoryTypeOK'
        BY <1>3 DEF IInv, WriteData, LocalsTypeOK, HistoryTypeOK, Points
    <2> QED BY <2>1, <2>2
<1>5. LockInv' /\ PhaseInv'
    BY DEF IInv, LocalsTypeOK, WriteData, LockInv, PhaseInv, Holding, Resting
<1>6. RecordsOwned'
    <2>1. TreeOwned' /\ IndexOwned'
        BY <1>3 DEF IInv, DiskTypeOK, ProcessTypeOK, WriteData, RecordsOwned, TreeOwned, IndexOwned
    <2>2. BinlogOwned'
        BY <1>3 DEF IInv, DiskTypeOK, Entry, WriteData, RecordsOwned, BinlogOwned, EntryOwned, Owns
    <2> QED BY <2>1, <2>2 DEF RecordsOwned
<1>7. ASSUME NEW v \in Workers PROVE (Frame(v) /\ Decision(v))'
    <2>1. CASE v # w
        <3>1. pc[v] \notin Holding
            BY <2>1, NilAssumption DEF IInv, LockInv, Holding, WriteData
        <3>2. Frame(v)'
            <4>1. Frame(v) /\ off[v] \in Nat
                BY DEF IInv, LocalsTypeOK
            <4>2. pc'[v] = pc[v] /\ off'[v] = off[v] /\ req'[v] = req[v] /\ todo'[v] = todo[v]
                BY <2>1 DEF IInv, LocalsTypeOK, WriteData
            <4>3. Owns(Key(v), off[v]) => Owns(Key(v), off[v])'
                BY <1>3, <4>1, <4>2 DEF Key, Owns
            <4> QED
                BY <3>1, <4>1, <4>2, <4>3 DEF Frame, Holding, Key, Resting, Owns
        <3>3. Decision(v)'
            BY <2>1, <3>1 DEF IInv, LocalsTypeOK, WriteData, Decision, Decided, Holding
        <3> QED BY <3>2, <3>3
    <2>2. CASE v = w
        <3>1. Frame(w)'
            BY <1>1, <1>3 DEF IInv, LocalsTypeOK, WriteData, Frame, Key, Resting, Owns
        <3>2. tst[Key(w)] > 0 => data'[tst[Key(w)]] = data[tst[Key(w)]]
            <4>1. Key(w) \in Keys
                BY AtWork DEF WriteData
            <4> QED
                BY <1>3, <4>1 DEF IInv, RecordsOwned, TreeOwned, Owns
        <3>3. Decision(w)'
            BY <1>1, <1>3, <3>2 DEF IInv, LocalsTypeOK, WriteData, Decision, Decided, Key
        <3> QED BY <2>2, <3>1, <3>3
    <2> QED BY <2>1, <2>2
<1> QED
    BY <1>4, <1>5, <1>6, <1>7 DEF IInv

LEMMA WriteBinlogInv ==
    ASSUME IInv, NEW w \in Workers, WriteBinlog(w)
    PROVE  IInv'
<1> DEFINE e == [key |-> Key(w), off |-> off[w]]
<1>1. Key(w) \in Keys /\ off[w] \in Nat /\ Owns(Key(w), off[w])
    BY AtWork DEF IInv, LocalsTypeOK, WriteBinlog, Frame
<1>2. e \in Entry /\ binlog \in Seq(Entry) /\ binlog' = Append(binlog, e)
    BY <1>1 DEF IInv, DiskTypeOK, WriteBinlog, Entry
<1>3. /\ binlog' \in Seq(Entry)
      /\ Len(binlog) \in Nat
      /\ Len(binlog') = Len(binlog) + 1
      /\ binlog'[Len(binlog) + 1] = e
      /\ \A i \in 1..Len(binlog) : binlog'[i] = binlog[i]
    BY <1>2, AppendProperties, LenProperties
<1>4. e.key = Key(w) /\ e.off = off[w]
    OBVIOUS
<1> HIDE DEF e
<1>5. TypeOK'
    <2>1. DiskTypeOK' /\ ProcessTypeOK'
        BY <1>3 DEF IInv, WriteBinlog, DiskTypeOK, ProcessTypeOK
    <2>2. LocalsTypeOK'
        BY DEF IInv, WriteBinlog, LocalsTypeOK, Points
    <2>3. HistoryTypeOK'
        BY DEF IInv, WriteBinlog, HistoryTypeOK
    <2> QED BY <2>1, <2>2, <2>3
<1>6. phase \in {"up", "stopping"} /\ phase' = phase
    BY DEF IInv, PhaseInv, WriteBinlog, Resting
<1>7. LockInv'
    BY DEF IInv, LocalsTypeOK, WriteBinlog, LockInv, Holding
<1>8. PhaseInv'
    <2>1. \A i \in 1..rpos : binlog'[i] # Torn
        BY <1>3 DEF IInv, ProcessTypeOK, PhaseInv
    <2>2. rpos' = rpos
        BY DEF WriteBinlog
    <2> QED BY <1>6, <2>1, <2>2 DEF PhaseInv
<1>9. RecordsOwned'
    <2>1. TreeOwned' /\ IndexOwned'
        BY DEF IInv, WriteBinlog, RecordsOwned, TreeOwned, IndexOwned, Owns
    <2>2. ASSUME NEW i \in 1..Len(binlog') PROVE EntryOwned(i)'
        <3>1. CASE i = Len(binlog) + 1
            BY <1>1, <1>3, <1>4, <3>1 DEF EntryOwned, Owns, WriteBinlog
        <3>2. CASE i \in 1..Len(binlog)
            BY <1>3, <1>6, <3>2 DEF IInv, RecordsOwned, BinlogOwned, EntryOwned, Owns, WriteBinlog
        <3> QED BY <1>3, <3>1, <3>2
    <2>3. BinlogOwned'
        BY <2>2 DEF BinlogOwned
    <2> QED BY <2>1, <2>3 DEF RecordsOwned
<1>10. ASSUME NEW v \in Workers PROVE (Frame(v) /\ Decision(v))'
    BY DEF IInv, LocalsTypeOK, WriteBinlog, Frame, Decision, Decided, Resting, Key, Owns
<1> QED
    BY <1>5, <1>7, <1>8, <1>9, <1>10 DEF IInv

\* The change of the tree.  It is made under both locks, so no other worker
\* has a decision pending on what the tree held.
LEMMA UpdateIndexInv ==
    ASSUME IInv, NEW w \in Workers, UpdateIndex(w)
    PROVE  IInv'
<1>1. pc[w] \notin {"idle", "exited", "reply"} /\ Advance(w)
    BY DEF UpdateIndex
<1>2. Key(w) \in Keys /\ off[w] \in Nat /\ Owns(Key(w), off[w])
    BY <1>1, AtWork DEF IInv, LocalsTypeOK, Frame, UpdateIndex
<1>3. /\ todo' \in [Workers -> Seq(Keys)]
      /\ pc' \in [Workers -> Points]
      /\ \/ pc'[w] = "reply"
         \/ pc'[w] = "rdlock" /\ req[w].op \in GetOps /\ todo'[w] # << >>
      /\ \A v \in Workers \ {w} : pc'[v] = pc[v] /\ todo'[v] = todo[v]
    BY <1>1, Advancing
<1>4. TypeOK'
    <2>1. DiskTypeOK' /\ ProcessTypeOK'
        BY <1>2 DEF IInv, UpdateIndex, TreeAfter, DiskTypeOK, ProcessTypeOK
    <2>2. LocalsTypeOK'
        BY <1>3 DEF IInv, UpdateIndex, LocalsTypeOK
    <2>3. HistoryTypeOK'
        <3>1. Len(data) + 1 \in Nat
            BY LenProperties DEF IInv, DiskTypeOK
        <3> QED BY <1>2, <3>1 DEF IInv, UpdateIndex, HistoryTypeOK
    <2> QED BY <2>1, <2>2, <2>3
<1>5. LockInv'
    BY <1>3, NilAssumption DEF IInv, UpdateIndex, LockInv, Holding
<1>6. PhaseInv'
    BY <1>3 DEF IInv, UpdateIndex, PhaseInv, Resting
<1>7. RecordsOwned'
    BY <1>2 DEF IInv, ProcessTypeOK, UpdateIndex, TreeAfter, RecordsOwned, TreeOwned, IndexOwned,
        BinlogOwned, EntryOwned, Owns
<1>8. ASSUME NEW v \in Workers PROVE (Frame(v) /\ Decision(v))'
    <2>1. CASE v # w
        <3>1. pc[v] \notin Holding
            BY <2>1, NilAssumption DEF IInv, LockInv, Holding, UpdateIndex
        <3>2. Frame(v)'
            BY <1>3, <2>1 DEF IInv, UpdateIndex, Frame, Resting, Key, Owns
        <3>3. Decision(v)'
            BY <1>3, <2>1, <3>1 DEF Decision, Decided, Holding
        <3> QED BY <3>2, <3>3
    <2>2. CASE v = w
        <3>1. Frame(w)'
            BY <1>3 DEF IInv, UpdateIndex, Frame, Resting, Key, Owns
        <3>2. Decision(w)'
            BY <1>3 DEF Decision, Decided
        <3> QED BY <2>2, <3>1, <3>2
    <2> QED BY <2>1, <2>2
<1> QED
    BY <1>4, <1>5, <1>6, <1>7, <1>8 DEF IInv

\* A reader's steps.
LEMMA SearchInv ==
    ASSUME IInv, NEW w \in Workers, Search(w)
    PROVE  IInv'
<1>1. pc[w] \notin {"idle", "exited", "reply"} /\ Key(w) \in Keys
    BY AtWork DEF Search
<1>2. tst[Key(w)] \in Nat /\ Owns(Key(w), tst[Key(w)])
    BY <1>1 DEF IInv, ProcessTypeOK, RecordsOwned, TreeOwned
<1>3. readers' = readers \ {w}
    BY DEF Search
<1>4. /\ off' \in [Workers -> Nat]
      /\ got' \in [Workers -> SUBSET (Keys \X Nat)]
      /\ \A v \in Workers \ {w} : off'[v] = off[v]
    <2>1. Listing \in SUBSET (Keys \X Nat)
        BY DEF IInv, ProcessTypeOK, Listing
    <2> QED
        BY <1>2, <2>1 DEF IInv, LocalsTypeOK, Search, TstGet
<1>5. /\ todo' \in [Workers -> Seq(Keys)]
      /\ pc' \in [Workers -> Points]
      /\ \/ pc'[w] = "reply"
         \/ pc'[w] = "rdlock" /\ req[w].op \in GetOps /\ todo'[w] # << >>
         \/ /\ pc'[w] = "load" /\ req[w].op \in GetOps /\ todo'[w] = todo[w]
            /\ off'[w] = tst[Key(w)] /\ off'[w] > 0
      /\ \A v \in Workers \ {w} : pc'[v] = pc[v] /\ todo'[v] = todo[v]
    <2>1. CASE Advance(w)
        BY <1>1, <2>1, Advancing
    <2>2. CASE ~Advance(w)
        <3>1. /\ Goto(w, "load") /\ UNCHANGED todo
              /\ req[w].op \notin ScanOps
              /\ off' = [off EXCEPT ![w] = tst[Key(w)]] /\ tst[Key(w)] > 0
            BY <2>2 DEF Search, TstGet
        <3>2. req[w].op \in GetOps
            BY <3>1 DEF IInv, Frame, Search
        <3> QED
            BY <3>1, <3>2 DEF IInv, LocalsTypeOK, Points
    <2> QED BY <2>1, <2>2
<1>6. TypeOK'
    <2>1. DiskTypeOK' /\ ProcessTypeOK'
        BY <1>3 DEF IInv, Search, DiskTypeOK, ProcessTypeOK
    <2>2. LocalsTypeOK' /\ HistoryTypeOK'
        BY <1>4, <1>5 DEF IInv, Search, LocalsTypeOK, HistoryTypeOK
    <2> QED BY <2>1, <2>2
<1>7. LockInv' /\ PhaseInv'
    BY <1>3, <1>5, NilAssumption DEF IInv, Search, LockInv, PhaseInv, Holding, Resting
<1>8. RecordsOwned'
    BY DEF IInv, Search, RecordsOwned, TreeOwned, IndexOwned, BinlogOwned, EntryOwned, Owns
<1>9. ASSUME NEW v \in Workers PROVE (Frame(v) /\ Decision(v))'
    <2>1. CASE v # w
        BY <1>4, <1>5, <2>1 DEF IInv, Search, Frame, Decision, Decided, Resting, Key, Owns
    <2>2. CASE v = w
        BY <1>2, <1>5, <2>2 DEF IInv, Search, Frame, Decision, Decided, Resting, Key, Owns
    <2> QED BY <2>1, <2>2
<1> QED
    BY <1>6, <1>7, <1>8, <1>9 DEF IInv

LEMMA LoadInv ==
    ASSUME IInv, NEW w \in Workers, Load(w)
    PROVE  IInv'
<1>1. pc[w] \notin {"idle", "exited", "reply"} /\ Key(w) \in Keys
    BY AtWork DEF Load
<1>2. req[w].op \in GetOps /\ todo[w] # << >>
    BY DEF IInv, Frame, Load, Resting
<1>3. /\ got' \in [Workers -> SUBSET (Keys \X Nat)]
      /\ off' = [off EXCEPT ![w] = 0]
    <2>1. off' = [off EXCEPT ![w] = 0]
        BY DEF Load
    <2>2. \/ got' = got
          \/ got' = [got EXCEPT ![w] = got[w] \cup {<<Key(w), off[w]>>}]
        BY DEF Load
    <2>3. got[w] \cup {<<Key(w), off[w]>>} \in SUBSET (Keys \X Nat)
        BY <1>1 DEF IInv, LocalsTypeOK
    <2>4. got \in [Workers -> SUBSET (Keys \X Nat)]
        BY DEF IInv, LocalsTypeOK
    <2> HIDE DEF Key
    <2> QED BY <2>1, <2>2, <2>3, <2>4
<1>4. /\ todo' \in [Workers -> Seq(Keys)]
      /\ pc' \in [Workers -> Points]
      /\ \/ pc'[w] = "reply"
         \/ pc'[w] = "rdlock" /\ req[w].op \in GetOps /\ todo'[w] # << >>
         \/ pc'[w] = "lock" /\ todo'[w] = todo[w]
      /\ \A v \in Workers \ {w} : pc'[v] = pc[v] /\ todo'[v] = todo[v]
    <2>1. CASE Advance(w)
        BY <1>1, <2>1, Advancing
    <2>2. CASE ~Advance(w)
        BY <2>2 DEF IInv, LocalsTypeOK, Load, Points
    <2> QED BY <2>1, <2>2
<1>5. TypeOK'
    <2>1. DiskTypeOK' /\ ProcessTypeOK'
        BY DEF IInv, Load, DiskTypeOK, ProcessTypeOK
    <2>2. LocalsTypeOK' /\ HistoryTypeOK'
        BY <1>3, <1>4 DEF IInv, Load, LocalsTypeOK, HistoryTypeOK
    <2> QED BY <2>1, <2>2
<1>6. LockInv' /\ PhaseInv'
    BY <1>4 DEF IInv, Load, LockInv, PhaseInv, Holding, Resting
<1>7. RecordsOwned'
    BY DEF IInv, Load, RecordsOwned, TreeOwned, IndexOwned, BinlogOwned, EntryOwned, Owns
<1>8. ASSUME NEW v \in Workers PROVE (Frame(v) /\ Decision(v))'
    <2>1. CASE v # w
        BY <1>3, <1>4, <2>1 DEF IInv, LocalsTypeOK, Load, Frame, Decision, Decided, Resting, Key, Owns
    <2>2. CASE v = w
        BY <1>2, <1>3, <1>4, <2>2 DEF IInv, LocalsTypeOK, Load, Frame, Decision, Decided, Resting, Key, Owns
    <2> QED BY <2>1, <2>2
<1> QED
    BY <1>5, <1>6, <1>7, <1>8 DEF IInv

\* The life of the process.  No worker is at work in any of these steps,
\* except a crash, which leaves none.
LEMMA BootInv ==
    ASSUME IInv, Boot
    PROVE  IInv'
<1>1. TypeOK'
    BY DEF IInv, Boot, Reloaded, DiskTypeOK, ProcessTypeOK, LocalsTypeOK, HistoryTypeOK, Phases
<1>2. LockInv' /\ PhaseInv'
    BY DEF IInv, Boot, CanStart, LockInv, PhaseInv, Resting
<1>3. RecordsOwned'
    BY DEF IInv, Boot, Reloaded, CanStart, RecordsOwned, TreeOwned, IndexOwned, BinlogOwned, EntryOwned, Owns
<1>4. ASSUME NEW v \in Workers PROVE (Frame(v) /\ Decision(v))'
    <2>1. Resting(v)
        BY DEF IInv, Boot, CanStart, PhaseInv
    <2> QED
        BY <2>1 DEF IInv, Boot, Frame, Decision, Decided, Resting, Key, Owns
<1> QED
    BY <1>1, <1>2, <1>3, <1>4 DEF IInv

LEMMA ReplayOneInv ==
    ASSUME IInv, ReplayOne
    PROVE  IInv'
<1>1. rpos \in Nat /\ Len(binlog) \in Nat /\ rpos + 1 \in 1..Len(binlog)
    BY LenProperties DEF IInv, DiskTypeOK, ProcessTypeOK, ReplayOne, AtEndOfBinlog
<1>2. binlog[rpos + 1] # Torn /\ EntryOwned(rpos + 1)
    BY <1>1 DEF IInv, ReplayOne, NextPos, AtEndOfBinlog, RecordsOwned, BinlogOwned
<1>3. binlog[rpos + 1].key \in Keys /\ binlog[rpos + 1].off \in Nat
    <2>1. binlog[rpos + 1] \in Entry
        BY <1>1 DEF IInv, DiskTypeOK
    <2> QED BY <1>2, <2>1 DEF Entry, EntryOwned
<1>4. TypeOK'
    <2>1. DiskTypeOK' /\ ProcessTypeOK'
        BY <1>1, <1>3 DEF IInv, ReplayOne, NextPos, DiskTypeOK, ProcessTypeOK
    <2>2. LocalsTypeOK' /\ HistoryTypeOK'
        BY DEF IInv, ReplayOne, LocalsTypeOK, HistoryTypeOK
    <2> QED BY <2>1, <2>2 DEF TypeOK
<1>5. LockInv' /\ PhaseInv'
    BY <1>1, <1>2 DEF IInv, ReplayOne, NextPos, LockInv, PhaseInv, Resting
<1>6. RecordsOwned'
    BY <1>2, <1>3 DEF IInv, ProcessTypeOK, ReplayOne, NextPos, RecordsOwned, TreeOwned, IndexOwned,
        BinlogOwned, EntryOwned, Owns
<1>7. ASSUME NEW v \in Workers PROVE (Frame(v) /\ Decision(v))'
    <2>1. Resting(v)
        BY DEF IInv, ReplayOne, NextPos, PhaseInv
    <2> QED
        BY <2>1 DEF IInv, ReplayOne, NextPos, Frame, Decision, Decided, Resting, Key, Owns
<1> QED
    BY <1>4, <1>5, <1>6, <1>7 DEF IInv

LEMMA ReplayDoneInv ==
    ASSUME IInv, ReplayDone
    PROVE  IInv'
<1>1. rpos \in Nat /\ Len(binlog) \in Nat /\ rpos <= Len(binlog) /\ binlog \in Seq(Entry)
    BY LenProperties DEF IInv, DiskTypeOK, ProcessTypeOK
<1>2. /\ binlog' \in Seq(Entry)
      /\ Len(binlog') = rpos
      /\ \A i \in 1..rpos : binlog'[i] = binlog[i]
    BY <1>1, SubSeqProperties DEF ReplayDone, KeptBinlog
<1>3. \A i \in 1..rpos : EntryOwned(i)
    BY <1>1 DEF IInv, PhaseInv, RecordsOwned, BinlogOwned
<1>4. TypeOK'
    BY <1>1, <1>2 DEF IInv, ReplayDone, DiskTypeOK, ProcessTypeOK, LocalsTypeOK, HistoryTypeOK, Phases
<1>5. LockInv' /\ PhaseInv'
    BY DEF IInv, ReplayDone, LockInv, PhaseInv, Resting
<1>6. RecordsOwned'
    BY <1>2, <1>3 DEF IInv, ReplayDone, RecordsOwned, TreeOwned, IndexOwned,
        BinlogOwned, EntryOwned, Owns
<1>7. ASSUME NEW v \in Workers PROVE (Frame(v) /\ Decision(v))'
    <2>1. Resting(v)
        BY DEF IInv, ReplayDone, PhaseInv
    <2> QED
        BY <2>1 DEF IInv, ReplayDone, Frame, Decision, Decided, Resting, Key, Owns
<1> QED
    BY <1>4, <1>5, <1>6, <1>7 DEF IInv

LEMMA ShutdownInv ==
    ASSUME IInv, Shutdown
    PROVE  IInv'
<1>1. TypeOK'
    BY DEF IInv, Shutdown, DiskTypeOK, ProcessTypeOK, LocalsTypeOK, HistoryTypeOK, Phases
<1>2. LockInv' /\ PhaseInv'
    BY DEF IInv, Shutdown, LockInv, PhaseInv, Resting
<1>3. RecordsOwned'
    BY DEF IInv, Shutdown, RecordsOwned, TreeOwned, IndexOwned, BinlogOwned, EntryOwned, Owns
<1>4. ASSUME NEW v \in Workers PROVE (Frame(v) /\ Decision(v))'
    BY DEF IInv, Shutdown, Frame, Decision, Decided, Resting, Key, Owns
<1> QED
    BY <1>1, <1>2, <1>3, <1>4 DEF IInv

LEMMA DumpIndexInv ==
    ASSUME IInv, DumpIndex
    PROVE  IInv'
<1>1. TypeOK'
    BY DEF IInv, DumpIndex, Dumped, DiskTypeOK, ProcessTypeOK, LocalsTypeOK, HistoryTypeOK, Phases
<1>2. LockInv' /\ PhaseInv'
    BY DEF IInv, DumpIndex, LockInv, PhaseInv, Resting
<1>3. RecordsOwned'
    BY DEF IInv, DumpIndex, Dumped, RecordsOwned, TreeOwned, IndexOwned, BinlogOwned, EntryOwned, Owns
<1>4. ASSUME NEW v \in Workers PROVE (Frame(v) /\ Decision(v))'
    BY DEF IInv, DumpIndex, Frame, Decision, Decided, Resting, Key, Owns
<1> QED
    BY <1>1, <1>2, <1>3, <1>4 DEF IInv

LEMMA TickInv ==
    ASSUME IInv, Tick
    PROVE  IInv'
<1>1. TypeOK'
    <2>1. DiskTypeOK' /\ ProcessTypeOK'
        BY DEF IInv, Tick, DiskTypeOK, ProcessTypeOK
    <2>2. LocalsTypeOK' /\ HistoryTypeOK'
        BY DEF IInv, Tick, LocalsTypeOK, HistoryTypeOK
    <2> QED BY <2>1, <2>2 DEF TypeOK
<1>2. LockInv' /\ PhaseInv'
    BY DEF IInv, Tick, LockInv, PhaseInv, Resting
<1>3. RecordsOwned'
    BY DEF IInv, Tick, RecordsOwned, TreeOwned, IndexOwned, BinlogOwned, EntryOwned, Owns
<1>4. ASSUME NEW v \in Workers PROVE (Frame(v) /\ Decision(v))'
    BY DEF IInv, Tick, Frame, Decision, Decided, Resting, Key, Owns
<1> QED
    BY <1>1, <1>2, <1>3, <1>4 DEF IInv

\* What is left of the invariant's parts when the process is gone.
LEMMA VanishFacts ==
    ASSUME IInv, Vanish
    PROVE  /\ LocalsTypeOK' /\ LockInv' /\ PhaseInv' /\ TreeOwned'
           /\ \A v \in Workers : Frame(v)' /\ Decision(v)'
<1>1. LocalsTypeOK'
    BY DEF Vanish, LocalsTypeOK, Points, Record, Junk
<1>2. LockInv' /\ PhaseInv'
    BY NilAssumption DEF Vanish, LockInv, PhaseInv, Holding, Resting
<1>3. TreeOwned'
    BY DEF Vanish, TreeOwned, Owns, NoKeys
<1>4. ASSUME NEW v \in Workers PROVE Frame(v)' /\ Decision(v)'
    BY DEF Vanish, Frame, Decision, Decided, Resting
<1> QED
    BY <1>1, <1>2, <1>3, <1>4

LEMMA RemoveBinlogInv ==
    ASSUME IInv, RemoveBinlog
    PROVE  IInv'
<1>1. Vanish /\ binlog' = << >>
    BY DEF RemoveBinlog
<1>2. TypeOK'
    BY <1>1, VanishFacts DEF IInv, RemoveBinlog, Vanish, DiskTypeOK, ProcessTypeOK, HistoryTypeOK,
        Phases, NoKeys
<1>3. RecordsOwned'
    BY <1>1, VanishFacts DEF IInv, RemoveBinlog, RecordsOwned, IndexOwned, BinlogOwned, Owns
<1> QED
    BY <1>1, <1>2, <1>3, VanishFacts DEF IInv

LEMMA CrashInv ==
    ASSUME IInv, Crash
    PROVE  IInv'
<1>1. Vanish /\ Junk \in Record /\ Torn \in Entry
    BY DEF Crash, Junk, Record, Torn, Entry
<1>2. /\ data \in Seq(Record) /\ binlog \in Seq(Entry)
      /\ Len(data) \in Nat /\ Len(binlog) \in Nat
    BY LenProperties DEF IInv, DiskTypeOK
<1>3. data' = data \/ data' = Append(data, Junk)
    BY DEF Crash
<1>4. /\ data' \in Seq(Record)
      /\ \A o \in 1..Len(data) : o \in 1..Len(data') /\ data'[o] = data[o]
    BY <1>1, <1>2, <1>3, OwnsKept
<1>5. CASE binlog' = binlog
    <2>1. TypeOK'
        BY <1>1, <1>4, <1>5, VanishFacts DEF IInv, Crash, Vanish, DiskTypeOK, ProcessTypeOK,
            HistoryTypeOK, Phases, NoKeys
    <2>2. IndexOwned'
        BY <1>4 DEF IInv, DiskTypeOK, RecordsOwned, IndexOwned, Owns, Crash
    <2>3. BinlogOwned'
        BY <1>1, <1>2, <1>4, <1>5 DEF IInv, Entry, RecordsOwned, BinlogOwned, EntryOwned, Owns, Vanish
    <2> QED
        BY <1>1, <2>1, <2>2, <2>3, VanishFacts DEF IInv, RecordsOwned
<1>6. CASE binlog' # binlog
    <2>1. binlog' = Append(binlog, Torn) /\ phase \in {"up", "stopping"}
        <3>1. PICK v \in Workers : pc[v] = "binlog" /\ binlog' = Append(binlog, Torn)
            BY <1>6 DEF Crash
        <3> QED
            BY <3>1 DEF IInv, PhaseInv, Resting
    <2>2. /\ binlog' \in Seq(Entry)
          /\ Len(binlog') = Len(binlog) + 1
          /\ binlog'[Len(binlog) + 1] = Torn
          /\ \A i \in 1..Len(binlog) : binlog'[i] = binlog[i]
        BY <1>1, <1>2, <2>1, AppendProperties
    <2>3. TypeOK'
        BY <1>1, <1>4, <2>2, VanishFacts DEF IInv, Crash, Vanish, DiskTypeOK, ProcessTypeOK,
            HistoryTypeOK, Phases, NoKeys
    <2>4. IndexOwned'
        BY <1>4 DEF IInv, DiskTypeOK, RecordsOwned, IndexOwned, Owns, Crash
    <2>5. \A i \in 1..Len(binlog) : EntryOwned(i)
        BY <2>1 DEF IInv, RecordsOwned, BinlogOwned
    <2>6. BinlogOwned'
        <3>1. phase' = "down"
            BY <1>1 DEF Vanish
        <3>2. ASSUME NEW i \in 1..Len(binlog) PROVE EntryOwned(i)'
            <4>1. EntryOwned(i) /\ binlog'[i] = binlog[i]
                BY <2>2, <2>5
            <4> QED
                BY <1>4, <4>1 DEF EntryOwned, Owns
        <3> QED
            BY <1>2, <2>2, <3>1, <3>2 DEF BinlogOwned
    <2> QED
        BY <1>1, <2>3, <2>4, <2>6, VanishFacts DEF IInv, RecordsOwned
<1> QED
    BY <1>5, <1>6

-----------------------------------------------------------------------------
\* Every step of the engine preserves the invariant.
LEMMA NextInv == IInv /\ [Next]_vars => IInv'
<1> SUFFICES ASSUME IInv, [Next]_vars PROVE IInv'
    OBVIOUS
<1>1. ASSUME NEW w \in Workers, WorkerStep(w) PROVE IInv'
    BY <1>1, LockWriterInv, CheckInv, WriteDataInv, WriteBinlogInv, LockIndexInv, UpdateIndexInv,
       RdLockInv, SearchInv, LoadInv, ReplyInv, WorkerExitInv DEF WorkerStep
<1>2. ASSUME NEW w \in Workers, NEW r \in Requests, Receive(w, r) PROVE IInv'
    BY <1>2, ReceiveInv
<1>3. CASE MainStep
    BY <1>3, BootInv, ReplayOneInv, ReplayDoneInv, DumpIndexInv, RemoveBinlogInv DEF MainStep
<1>4. CASE Shutdown
    BY <1>4, ShutdownInv
<1>5. CASE Crash
    BY <1>5, CrashInv
<1>6. CASE Tick
    BY <1>6, TickInv
<1>7. CASE UNCHANGED vars
    BY <1>7 DEF vars, IInv, DiskTypeOK, ProcessTypeOK, LocalsTypeOK, HistoryTypeOK, LockInv, PhaseInv,
       RecordsOwned, TreeOwned, IndexOwned, BinlogOwned, EntryOwned, Owns, Frame, Decision, Decided,
       Resting, Key
<1> QED
    BY <1>1, <1>2, <1>3, <1>4, <1>5, <1>6, <1>7 DEF Next

THEOREM Invariance == Spec => []IInv
<1> QED
    BY InitInv, NextInv, PTL DEF Spec

\* The variables of the engine keep to their types.
THEOREM TypeCorrect == Spec => []TypeOK
<1>1. IInv => TypeOK
    BY DEF IInv
<1> QED
    BY <1>1, Invariance, PTL

\* However many workers there are, none walks the tree while another changes
\* it, with or without a reader lock of its own (cmd_process.c).
THEOREM Isolation == Spec => []IndexIsolation
<1>1. IInv => IndexIsolation
    BY NilAssumption DEF IInv, LockInv, Holding, IndexIsolation
<1> QED
    BY <1>1, Invariance, PTL

\* Every offset in memory and on disk names a complete record of its key,
\* through crashes at any point and any number of restarts.
THEOREM OffsetsSound == Spec => []RecordsOwned
<1>1. IInv => RecordsOwned
    BY DEF IInv
<1> QED
    BY <1>1, Invariance, PTL

\* A cas that stores replaces exactly the value whose sign it was given
\* (cmd_do_cas).
THEOREM CasAtomic == Spec => CasUnaltered
<1>1. IInv => \A w \in Workers :
                  pc[w] = "index" /\ req[w].op = "cas" => tst[Key(w)] = req[w].sign
    BY DEF IInv, Decision, Decided
<1>2. IInv => [\A w \in Workers :
                  Commits(w) /\ req[w].op = "cas" => tst[Key(w)] = req[w].sign]_vars
    BY <1>1 DEF Commits
<1> QED
    BY <1>2, Invariance, PTL DEF CasUnaltered

\* No increment or decrement is lost (incr_or_decr).
THEOREM CountsAtomic == Spec => CountExact
<1>1. IInv => \A w \in Workers :
                  pc[w] = "index" /\ req[w].op \in {"incr", "decr"} =>
                      /\ tst[Key(w)] > 0
                      /\ data[off[w]] = Counted(req[w], data[tst[Key(w)]])
    BY DEF IInv, Decision, Decided
<1>2. IInv => [\A w \in Workers :
                  Commits(w) /\ req[w].op \in {"incr", "decr"} =>
                      /\ tst[Key(w)] > 0
                      /\ data[off[w]] = Counted(req[w], data[tst[Key(w)]])]_vars
    BY <1>1 DEF Commits
<1> QED
    BY <1>2, Invariance, PTL DEF CountExact

-----------------------------------------------------------------------------
(* The map a replay rebuilds.                                              *)

\* A set of positions that is not empty has a last one.
LEMMA LastPosition ==
    ASSUME NEW n \in Nat, NEW S \in SUBSET (1..n), S # {}
    PROVE  \E i \in S : \A j \in S : j <= i
<1> DEFINE T == {n - i : i \in S}
<1>1. \A i \in S : i \in Int /\ n - i \in Nat
    OBVIOUS
<1>2. T \subseteq Nat
    BY <1>1
<1>3. T # {}
    <2>1. PICK i \in S : TRUE
        OBVIOUS
    <2>2. n - i \in T
        BY <2>1
    <2> QED BY <2>2
<1>4. PICK x \in T : \A y \in T : <<y, x>> \notin OpToRel(<, Nat)
    BY <1>2, <1>3, NatLessThanWellFounded, WFMin
<1>5. PICK i \in S : x = n - i
    OBVIOUS
<1>6. ASSUME NEW j \in S PROVE j <= i
    <2>1. n - j \in T /\ n - j \in Nat /\ n - i \in Nat
        BY <1>1
    <2>2. <<n - j, n - i>> \notin OpToRel(<, Nat)
        BY <1>4, <1>5, <2>1
    <2>3. ~(n - j < n - i)
        BY <2>1, <2>2 DEF OpToRel
    <2> QED BY <1>1, <2>3
<1> QED BY <1>6

\* Entry i is the last of the first n that is about key k.
IsLast(i, k, n) ==
    /\ i \in 1..n /\ binlog[i].key = k
    /\ \A j \in 1..n : binlog[j].key = k => j <= i

LEMMA LastDecides ==
    ASSUME NEW n \in Nat, NEW k \in Keys, NEW i, IsLast(i, k, n)
    PROVE  Mentions(k, n) # {} /\ Recovered(n)[k] = binlog[i].off
<1>1. i \in Mentions(k, n) /\ \A j \in Mentions(k, n) : j <= i
    BY DEF IsLast, Mentions
<1>2. Mentions(k, n) \subseteq Int /\ i \in Int
    BY <1>1 DEF Mentions
<1>3. LastMention(k, n) = i
    BY <1>1, <1>2 DEF LastMention
<1> QED
    BY <1>1, <1>3 DEF Recovered

LEMMA NoneOrLast ==
    ASSUME NEW n \in Nat, NEW k \in Keys
    PROVE  \/ /\ \A i \in 1..n : binlog[i].key # k
              /\ Recovered(n)[k] = index[k]
           \/ \E i \in 1..n : IsLast(i, k, n) /\ Recovered(n)[k] = binlog[i].off
<1>1. CASE Mentions(k, n) = {}
    BY <1>1 DEF Mentions, Recovered
<1>2. CASE Mentions(k, n) # {}
    <2>1. Mentions(k, n) \in SUBSET (1..n)
        BY DEF Mentions
    <2>2. PICK i \in Mentions(k, n) : \A j \in Mentions(k, n) : j <= i
        BY <1>2, <2>1, LastPosition
    <2>3. IsLast(i, k, n)
        BY <2>2 DEF IsLast, Mentions
    <2> QED
        BY <2>1, <2>2, <2>3, LastDecides
<1> QED
    BY <1>1, <1>2

LEMMA RecoveredNone ==
    ASSUME index \in [Keys -> Nat]
    PROVE  Recovered(0) = index
<1>1. \A k \in Keys : Mentions(k, 0) = {}
    BY DEF Mentions
<1> QED
    BY <1>1 DEF Recovered

\* One more entry changes one key, and none if it is an incomplete one.
LEMMA RecoveredOneMore ==
    \A n \in Nat :
        Recovered(n + 1) = [Recovered(n) EXCEPT ![binlog[n + 1].key] = binlog[n + 1].off]
<1> SUFFICES ASSUME NEW n \in Nat
    PROVE Recovered(n + 1) = [Recovered(n) EXCEPT ![binlog[n + 1].key] = binlog[n + 1].off]
    OBVIOUS
<1>1. ASSUME NEW k \in Keys
      PROVE  Recovered(n + 1)[k] = IF binlog[n + 1].key = k THEN binlog[n + 1].off
                                                            ELSE Recovered(n)[k]
    <2>1. CASE binlog[n + 1].key = k
        <3>1. IsLast(n + 1, k, n + 1)
            BY <2>1 DEF IsLast
        <3> QED
            BY <2>1, <3>1, LastDecides
    <2>2. CASE binlog[n + 1].key # k
        <3>1. Mentions(k, n + 1) = Mentions(k, n)
            <4>1. \A i : i \in 1..(n + 1) <=> i \in 1..n \/ i = n + 1
                OBVIOUS
            <4> QED
                BY <2>2, <4>1 DEF Mentions
        <3>2. LastMention(k, n + 1) = LastMention(k, n)
            BY <3>1 DEF LastMention
        <3> QED
            BY <2>2, <3>1, <3>2 DEF Recovered
    <2> QED
        BY <2>1, <2>2
<1> QED
    BY <1>1 DEF Recovered

LEMMA RecoveredOneMoreNext ==
    (\A n \in Nat :
        Recovered(n + 1) = [Recovered(n) EXCEPT ![binlog[n + 1].key] = binlog[n + 1].off])'
<1> QED
    BY RecoveredOneMore, PTL

\* What is appended behind the first n entries, or cut off, does not matter.
LEMMA RecoveredKept ==
    ASSUME NEW n \in Nat, index' = index, \A i \in 1..n : binlog'[i] = binlog[i]
    PROVE  Recovered(n)' = Recovered(n)
<1>1. ASSUME NEW k \in Keys PROVE Recovered(n)'[k] = Recovered(n)[k]
    <2>1. Mentions(k, n)' = Mentions(k, n)
        BY DEF Mentions
    <2>2. LastMention(k, n)' = LastMention(k, n)
        BY <2>1 DEF LastMention
    <2>3. CASE Mentions(k, n) = {}
        BY <2>1, <2>3 DEF Recovered
    <2>4. CASE Mentions(k, n) # {}
        <3>1. LastMention(k, n) \in 1..n
            <4>1. PICK i \in 1..n : IsLast(i, k, n)
                BY <2>4, NoneOrLast DEF Mentions
            <4>2. i \in Mentions(k, n) /\ \A j \in Mentions(k, n) : j <= i
                BY <4>1 DEF IsLast, Mentions
            <4> QED
                BY <4>2 DEF LastMention, Mentions
        <3> QED
            BY <2>1, <2>2, <2>4, <3>1 DEF Recovered
    <2> QED
        BY <2>3, <2>4
<1> QED
    BY <1>1 DEF Recovered

-----------------------------------------------------------------------------
(* What a restart would rebuild, at each step that touches the files.      *)

\* The commit point of a command.
LEMMA WriteBinlogRestarted ==
    ASSUME IInv, NEW w \in Workers, WriteBinlog(w)
    PROVE  Restarted' = [Restarted EXCEPT ![Key(w)] = off[w]]
<1> DEFINE e == [key |-> Key(w), off |-> off[w]]
<1>1. e \in Entry /\ binlog \in Seq(Entry) /\ binlog' = Append(binlog, e)
    BY AtWork DEF IInv, DiskTypeOK, LocalsTypeOK, WriteBinlog, Entry
<1>2. PICK n \in Nat : n = Len(binlog)
    BY <1>1, LenProperties
<1>3. /\ Len(binlog') = n + 1
      /\ binlog'[n + 1] = e
      /\ \A i \in 1..n : binlog'[i] = binlog[i]
    BY <1>1, <1>2, AppendProperties
<1>4. Recovered(n)' = Recovered(n)
    BY <1>3, RecoveredKept DEF WriteBinlog
<1>5. Recovered(n + 1)' = [Recovered(n)' EXCEPT ![(binlog[n + 1].key)'] = (binlog[n + 1].off)']
    BY RecoveredOneMoreNext
<1>6. Restarted' = Recovered(n + 1)'
    BY <1>3 DEF Restarted
<1> QED
    BY <1>2, <1>3, <1>4, <1>5, <1>6 DEF Restarted

\* An incomplete entry is no key's.
LEMMA TornChangesNothing ==
    ASSUME NEW f \in [Keys -> Nat]
    PROVE  [f EXCEPT ![Torn.key] = Torn.off] = f
BY NilAssumption DEF Torn

LEMMA CrashRestarted ==
    ASSUME IInv, Restarted \in [Keys -> Nat], Crash
    PROVE  Restarted' = Restarted
<1>1. PICK n \in Nat : n = Len(binlog)
    BY LenProperties DEF IInv, DiskTypeOK
<1>2. CASE binlog' = binlog
    <2>1. Recovered(n)' = Recovered(n)
        BY <1>2, RecoveredKept DEF Crash
    <2> QED
        BY <1>1, <1>2, <2>1 DEF Restarted
<1>3. CASE binlog' = Append(binlog, Torn)
    <2>1. /\ Len(binlog') = n + 1
          /\ binlog'[n + 1] = Torn
          /\ \A i \in 1..n : binlog'[i] = binlog[i]
        <3>1. Torn \in Entry /\ binlog \in Seq(Entry)
            BY DEF IInv, DiskTypeOK, Torn, Entry
        <3> QED
            BY <1>1, <1>3, <3>1, AppendProperties
    <2>2. Recovered(n)' = Restarted
        BY <1>1, <2>1, RecoveredKept DEF Crash, Restarted
    <2>3. Recovered(n + 1)' = [Recovered(n)' EXCEPT ![(binlog[n + 1].key)'] = (binlog[n + 1].off)']
        BY RecoveredOneMoreNext
    <2>4. Recovered(n + 1)' = [Restarted EXCEPT ![Torn.key] = Torn.off]
        BY <2>1, <2>2, <2>3
    <2>5. Restarted' = Recovered(n + 1)'
        BY <2>1 DEF Restarted
    <2> QED
        BY <2>4, <2>5, TornChangesNothing
<1> QED
    BY <1>2, <1>3 DEF Crash

\* A replay stops at the end, or at an incomplete entry, which is the last.
LEMMA ReplayDoneRestarted ==
    ASSUME IInv, Restarted \in [Keys -> Nat], Recovered(rpos) \in [Keys -> Nat], ReplayDone
    PROVE  Restarted' = Restarted /\ Recovered(rpos) = Restarted
<1>1. binlog \in Seq(Entry) /\ Len(binlog) \in Nat /\ rpos \in 0..Len(binlog)
    BY LenProperties DEF IInv, DiskTypeOK, ProcessTypeOK
<1>2. PICK n \in Nat : n = rpos
    BY <1>1
<1>3. Recovered(n) = Restarted
    <2>1. CASE n = Len(binlog)
        BY <2>1 DEF Restarted
    <2>2. CASE n < Len(binlog)
        <3>1. binlog[n + 1] = Torn /\ n + 1 \in 1..Len(binlog)
            BY <1>1, <1>2, <2>2 DEF ReplayDone, AtEndOfBinlog
        <3>2. ~EntryOwned(n + 1)
            BY <3>1, NilAssumption DEF EntryOwned, Torn
        <3>3. Len(binlog) = n + 1
            BY <3>1, <3>2 DEF IInv, RecordsOwned, BinlogOwned
        <3>4. Recovered(n + 1) = [Recovered(n) EXCEPT ![Torn.key] = Torn.off]
            BY <3>1, RecoveredOneMore
        <3> QED
            BY <1>2, <3>3, <3>4, TornChangesNothing DEF Restarted
    <2> QED
        BY <1>1, <1>2, <2>1, <2>2
<1>4. Len(binlog') = n /\ \A i \in 1..n : binlog'[i] = binlog[i]
    BY <1>1, <1>2, SubSeqProperties DEF ReplayDone, KeptBinlog
<1>5. Recovered(n)' = Recovered(n)
    BY <1>4, RecoveredKept DEF ReplayDone
<1> QED
    BY <1>2, <1>3, <1>4, <1>5 DEF Restarted

\* The dump says what the index file and the binlog said together, so that it
\* does not matter whether the binlog is still there.
LEMMA DumpIndexRestarted ==
    ASSUME tst = Restarted, DumpIndex
    PROVE  Restarted' = Restarted
<1>1. index' = tst /\ binlog' = binlog
    BY DEF DumpIndex, Dumped
<1>2. PICK n : n = Len(binlog)
    OBVIOUS
<1>3. ASSUME NEW k \in Keys PROVE Recovered(n)'[k] = Recovered(n)[k]
    <2>1. Mentions(k, n)' = Mentions(k, n)
        BY <1>1 DEF Mentions
    <2>2. LastMention(k, n)' = LastMention(k, n)
        BY <2>1 DEF LastMention
    <2>3. index'[k] = Recovered(n)[k]
        BY <1>1, <1>2 DEF Restarted
    <2> QED
        BY <1>1, <2>1, <2>2, <2>3 DEF Recovered
<1>4. Recovered(n)' = Recovered(n)
    BY <1>3 DEF Recovered
<1> QED
    BY <1>1, <1>2, <1>4 DEF Restarted

LEMMA RemoveBinlogRestarted ==
    ASSUME index \in [Keys -> Nat], RemoveBinlog
    PROVE  Restarted' = index
<1>1. Len(binlog') = 0
    BY EmptySeq DEF RemoveBinlog
<1>2. \A k \in Keys : Mentions(k, 0)' = {}
    BY DEF Mentions
<1>3. Recovered(0)' = index'
    BY <1>2 DEF Recovered, RemoveBinlog
<1> QED
    BY <1>1, <1>3 DEF Restarted, RemoveBinlog

LEMMA FilesKept ==
    ASSUME index' = index, binlog' = binlog
    PROVE  Restarted' = Restarted
BY DEF Restarted, Recovered, Mentions, LastMention

-----------------------------------------------------------------------------
(* The invariant.                                                          *)

LEMMA Alone ==
    ASSUME IInv, NEW w \in Workers, pc[w] \in Holding, NEW v \in Workers, v # w
    PROVE  pc[v] \notin Holding
BY NilAssumption DEF IInv, LockInv

LEMMA DurableTypes ==
    ASSUME IInv, DurableInv
    PROVE  /\ data \in Seq(Record) /\ Len(data) \in Nat
           /\ tst \in [Keys -> Nat] /\ index \in [Keys -> Nat]
           /\ Restarted \in [Keys -> Nat]
           /\ acked \in [Keys -> Nat] /\ settled \in [Keys -> Nat]
           /\ floor \in [Workers -> [Keys -> Nat]]
           /\ off \in [Workers -> Nat]
           /\ got \in [Workers -> SUBSET (Keys \X Nat)]
           /\ pc \in [Workers -> Points]
BY LenProperties DEF IInv, DurableInv, DiskTypeOK, ProcessTypeOK, LocalsTypeOK, HistoryTypeOK, RestartInv

LEMMA InitDurable == Init => DurableInv
<1> SUFFICES ASSUME Init PROVE DurableInv
    OBVIOUS
<1>1. Restarted = NoKeys /\ Len(data) = 0
    <2>1. Len(binlog) = 0 /\ Len(data) = 0 /\ index \in [Keys -> Nat] /\ index = NoKeys
        BY EmptySeq DEF Init, NoKeys
    <2> QED
        BY <2>1, RecoveredNone DEF Restarted
<1> QED
    BY <1>1 DEF Init, DurableInv, RestartInv, AgeInv, FrameAge, Resting, InFlight, AckedDurable, NoResurrection,
        ReadsFresh, NoKeys

\* A step that leaves the files, the tree and the phase alone.
LEMMA QuietDurable ==
    ASSUME IInv, DurableInv,
           UNCHANGED <<disk, process, acked, settled>>,
           \A v \in Workers : /\ InFlight(v)' <=> InFlight(v)
                              /\ InFlight(v) => Key(v)' = Key(v) /\ off'[v] = off[v]
           ,
           \A v \in Workers : FrameAge(v)',
           \A v \in Workers, k \in Keys : floor'[v][k] <= settled[k],
           ReadsFresh'
    PROVE  DurableInv'
<1>1. Restarted' = Restarted
    BY FilesKept
<1>2. Recovered(rpos)' = Recovered(rpos)
    BY DEF Recovered, Mentions, LastMention
<1>3. RestartInv'
    <2>1. \A k \in Keys, v \in Workers : InFlight(v) /\ Key(v) = k => InFlight(v)' /\ Key(v)' = k
        OBVIOUS
    <2> QED
        BY <1>1, <1>2, <2>1 DEF DurableInv, RestartInv
<1>4. AgeInv' /\ AckedDurable' /\ NoResurrection'
    BY <1>1 DEF DurableInv, AgeInv, AckedDurable, NoResurrection
<1> QED
    BY <1>3, <1>4 DEF DurableInv

\* A quiet step of a worker that is not in flight and finds nothing.
LEMMA MoveDurable ==
    ASSUME IInv, DurableInv, NEW w \in Workers,
           UNCHANGED <<disk, process, acked, settled, floor, got>>,
           InFlight(w)' <=> InFlight(w),
           InFlight(w) => Key(w)' = Key(w),
           off' = off,
           pc'[w] # "load",
           Resting(w)' => Resting(w),
           pc'[w] \in {"binlog", "wrlock", "index"} =>
               off[w] = 0 \/ (pc[w] \in {"binlog", "wrlock", "index"} /\ pc'[w] # "binlog" /\ Key(w)' = Key(w)),
           \A v \in Workers \ {w} : pc'[v] = pc[v] /\ todo'[v] = todo[v]
    PROVE  DurableInv'
<1>1. ASSUME NEW v \in Workers PROVE FrameAge(v)'
    <2>1. CASE v = w
        BY <2>1, DurableTypes DEF DurableInv, FrameAge, Resting
    <2>2. CASE v # w
        BY <2>2 DEF DurableInv, FrameAge, Key, Resting
    <2> QED BY <2>1, <2>2
<1>2. ASSUME NEW v \in Workers
      PROVE  /\ InFlight(v)' <=> InFlight(v)
             /\ InFlight(v) => Key(v)' = Key(v) /\ off'[v] = off[v]
    <2>1. CASE v # w
        BY <2>1 DEF InFlight, Key
    <2>2. CASE v = w
        BY <2>2
    <2> QED BY <2>1, <2>2
<1>3. ReadsFresh' /\ \A v \in Workers, k \in Keys : floor'[v][k] <= settled[k]
    BY DEF DurableInv, ReadsFresh, AgeInv
<1> QED
    BY <1>1, <1>2, <1>3, QuietDurable

LEMMA LockWriterDurable ==
    ASSUME IInv, DurableInv, NEW w \in Workers, LockWriter(w)
    PROVE  DurableInv'
<1>1. /\ pc'[w] \in {"data", "binlog", "check"} /\ pc[w] = "lock" /\ off[w] = 0
      /\ \A v \in Workers \ {w} : pc'[v] = pc[v] /\ todo'[v] = todo[v]
    BY DurableTypes DEF LockWriter, IInv, Frame
<1> QED
    BY <1>1, MoveDurable DEF LockWriter, InFlight, Resting

LEMMA LockIndexDurable ==
    ASSUME IInv, DurableInv, NEW w \in Workers, LockIndex(w)
    PROVE  DurableInv'
<1>1. /\ pc'[w] = "index" /\ pc[w] = "wrlock" /\ Key(w)' = Key(w)
      /\ \A v \in Workers \ {w} : pc'[v] = pc[v] /\ todo'[v] = todo[v]
    BY DurableTypes DEF LockIndex, Key
<1> QED
    BY <1>1, MoveDurable DEF LockIndex, InFlight, Resting

LEMMA RdLockDurable ==
    ASSUME IInv, DurableInv, NEW w \in Workers, RdLock(w)
    PROVE  DurableInv'
<1>1. /\ pc'[w] = "search" /\ pc[w] = "rdlock"
      /\ \A v \in Workers \ {w} : pc'[v] = pc[v] /\ todo'[v] = todo[v]
    BY DurableTypes DEF RdLock
<1> QED
    BY <1>1, MoveDurable DEF RdLock, InFlight, Resting

LEMMA WorkerExitDurable ==
    ASSUME IInv, DurableInv, NEW w \in Workers, WorkerExit(w)
    PROVE  DurableInv'
<1>1. /\ pc'[w] = "exited" /\ pc[w] = "idle"
      /\ \A v \in Workers \ {w} : pc'[v] = pc[v] /\ todo'[v] = todo[v]
    BY DurableTypes DEF WorkerExit
<1> QED
    BY <1>1, MoveDurable DEF WorkerExit, InFlight, Resting

LEMMA CheckDurable ==
    ASSUME IInv, DurableInv, NEW w \in Workers, Check(w)
    PROVE  DurableInv'
<1>1. pc[w] = "check" /\ off[w] = 0
    BY DEF Check, IInv, Frame
<1>2. /\ pc'[w] \in {"reply", "rdlock", "data", "binlog"}
      /\ \A v \in Workers \ {w} : pc'[v] = pc[v] /\ todo'[v] = todo[v]
    <2>1. CASE MustGiveUp(w)
        BY <1>1, <2>1, Advancing DEF Check
    <2>2. CASE ~MustGiveUp(w)
        BY <2>2, DurableTypes DEF Check
    <2> QED BY <2>1, <2>2
<1> QED
    BY <1>1, <1>2, MoveDurable DEF Check, InFlight, Resting

LEMMA ReceiveDurable ==
    ASSUME IInv, DurableInv, NEW w \in Workers, NEW r \in Requests, Receive(w, r)
    PROVE  DurableInv'
<1>1. /\ pc[w] = "idle" /\ pc'[w] \in {"rdlock", "lock"}
      /\ \A v \in Workers \ {w} : pc'[v] = pc[v] /\ todo'[v] = todo[v] /\ floor'[v] = floor[v]
      /\ floor'[w] = settled
      /\ UNCHANGED <<disk, process, acked, settled, off, got>>
    BY DurableTypes DEF Receive, IInv, LocalsTypeOK
<1>2. ASSUME NEW v \in Workers
      PROVE  /\ InFlight(v)' <=> InFlight(v)
             /\ InFlight(v) => Key(v)' = Key(v) /\ off'[v] = off[v]
             /\ FrameAge(v)'
             /\ \A k \in Keys : floor'[v][k] <= settled[k]
             /\ \A e \in got'[v] : e[2] >= floor'[v][e[1]]
    <2>1. CASE v # w
        BY <1>1, <2>1 DEF InFlight, Key, FrameAge, Resting, DurableInv, AgeInv, ReadsFresh
    <2>2. CASE v = w
        <3>1. got[w] = {}
            BY <1>1 DEF DurableInv, FrameAge, Resting
        <3> QED
            BY <1>1, <2>2, <3>1, DurableTypes DEF InFlight, FrameAge, Resting
    <2> QED BY <2>1, <2>2
<1>3. ReadsFresh'
    BY <1>2 DEF ReadsFresh
<1> QED
    BY <1>1, <1>2, <1>3, QuietDurable

LEMMA ReplyDurable ==
    ASSUME IInv, DurableInv, NEW w \in Workers, Reply(w)
    PROVE  DurableInv'
<1>1. /\ pc[w] = "reply" /\ pc'[w] = "idle" /\ got'[w] = {} /\ floor'[w] = NoKeys
      /\ \A v \in Workers \ {w} : /\ pc'[v] = pc[v] /\ todo'[v] = todo[v] /\ off'[v] = off[v]
                                  /\ floor'[v] = floor[v] /\ got'[v] = got[v]
      /\ UNCHANGED <<disk, process, acked, settled>>
    BY DurableTypes DEF Reply, ClearFrame, IInv, LocalsTypeOK
<1>2. ASSUME NEW v \in Workers
      PROVE  /\ InFlight(v)' <=> InFlight(v)
             /\ InFlight(v) => Key(v)' = Key(v) /\ off'[v] = off[v]
             /\ FrameAge(v)'
             /\ \A k \in Keys : floor'[v][k] <= settled[k]
             /\ \A e \in got'[v] : e[2] >= floor'[v][e[1]]
    <2>1. CASE v # w
        BY <1>1, <2>1 DEF InFlight, Key, FrameAge, Resting, DurableInv, AgeInv, ReadsFresh
    <2>2. CASE v = w
        BY <1>1, <2>2, DurableTypes DEF InFlight, FrameAge, Resting, NoKeys
    <2> QED BY <2>1, <2>2
<1>3. ReadsFresh'
    BY <1>2 DEF ReadsFresh
<1> QED
    BY <1>1, <1>2, <1>3, QuietDurable

\* A reader finds nothing older than what was settled when it looks, and so
\* nothing older than what was settled when its request came in.
LEMMA TreeFresh ==
    ASSUME IInv, DurableInv, NEW w \in Workers, ~Resting(w), NEW k \in Keys, tst[k] > 0
    PROVE  tst[k] >= floor[w][k]
<1>1. phase \in {"up", "stopping"}
    BY DEF IInv, PhaseInv
<1>2. tst[k] >= settled[k] /\ floor[w][k] <= settled[k]
    BY <1>1 DEF DurableInv, AgeInv
<1> QED
    BY <1>2, DurableTypes

LEMMA SearchDurable ==
    ASSUME IInv, DurableInv, NEW w \in Workers, Search(w)
    PROVE  DurableInv'
<1>1. pc[w] = "search" /\ ~Resting(w) /\ Key(w) \in Keys
    BY AtWork DEF Search, Resting
<1>2. \/ /\ Advance(w) /\ off' = off
         /\ got' = [got EXCEPT ![w] = Listing]
      \/ /\ Advance(w) /\ off' = [off EXCEPT ![w] = tst[Key(w)]] /\ got' = got
      \/ /\ Goto(w, "load") /\ todo' = todo
         /\ tst[Key(w)] > 0 /\ off' = [off EXCEPT ![w] = tst[Key(w)]] /\ got' = got
    BY DEF Search, TstGet
<1>3. /\ pc'[w] \in {"reply", "rdlock", "load"}
      /\ \A v \in Workers \ {w} : pc'[v] = pc[v] /\ todo'[v] = todo[v]
    <2>1. CASE Advance(w)
        BY <1>1, <2>1, Advancing
    <2>2. CASE Goto(w, "load") /\ todo' = todo
        BY <2>2, DurableTypes
    <2> QED BY <1>2, <2>1, <2>2
<1>4. \A e \in got'[w] : e[2] >= floor[w][e[1]]
    <2>1. CASE got' = got
        BY <2>1 DEF DurableInv, ReadsFresh
    <2>2. CASE got'[w] = Listing
        BY <1>1, <2>2, TreeFresh DEF Listing
    <2> QED BY <1>2, <2>1, <2>2, DurableTypes
<1>5. pc'[w] = "load" => off'[w] >= floor[w][Key(w)] /\ Key(w)' = Key(w)
    <2>1. ASSUME pc'[w] = "load" PROVE ~Advance(w)
        BY <1>1, <2>1, Advancing
    <2> QED
        BY <1>1, <1>2, <2>1, TreeFresh, DurableTypes DEF Key
<1>6. UNCHANGED <<disk, process, acked, settled, floor>>
    BY DEF Search
<1>7. \A v \in Workers \ {w} : off'[v] = off[v] /\ got'[v] = got[v]
    BY <1>2, DurableTypes
<1>8. ASSUME NEW v \in Workers
      PROVE  /\ InFlight(v)' <=> InFlight(v)
             /\ InFlight(v) => Key(v)' = Key(v) /\ off'[v] = off[v]
             /\ FrameAge(v)'
             /\ \A e \in got'[v] : e[2] >= floor'[v][e[1]]
    <2>1. CASE v # w
        BY <1>3, <1>6, <1>7, <2>1 DEF InFlight, Key, FrameAge, Resting, DurableInv, ReadsFresh
    <2>2. CASE v = w
        BY <1>1, <1>3, <1>4, <1>5, <1>6, <2>2 DEF InFlight, FrameAge, Resting
    <2> QED BY <2>1, <2>2
<1>9. ReadsFresh' /\ \A v \in Workers, k \in Keys : floor'[v][k] <= settled[k]
    BY <1>6, <1>8 DEF ReadsFresh, DurableInv, AgeInv
<1> QED
    BY <1>6, <1>8, <1>9, QuietDurable

LEMMA LoadDurable ==
    ASSUME IInv, DurableInv, NEW w \in Workers, Load(w)
    PROVE  DurableInv'
<1>1. /\ pc[w] = "load" /\ off' = [off EXCEPT ![w] = 0]
      /\ UNCHANGED <<disk, process, acked, settled, floor>>
    BY DEF Load
<1>2. \/ Goto(w, "lock") /\ todo' = todo /\ got' = got
      \/ Advance(w) /\ got' = [got EXCEPT ![w] = got[w] \cup {<<Key(w), off[w]>>}]
    BY DEF Load
<1>3. /\ pc'[w] \in {"reply", "rdlock", "lock"}
      /\ \A v \in Workers \ {w} : pc'[v] = pc[v] /\ todo'[v] = todo[v]
    <2>1. CASE Advance(w)
        BY <1>1, <2>1, Advancing
    <2>2. CASE Goto(w, "lock") /\ todo' = todo
        BY <2>2, DurableTypes
    <2> QED BY <1>2, <2>1, <2>2
<1>4. off[w] >= floor[w][Key(w)]
    BY <1>1 DEF DurableInv, FrameAge, Resting
<1>5. \A e \in got'[w] : e \in got[w] \/ e = <<Key(w), off[w]>>
    <2> HIDE DEF Key
    <2> QED BY <1>2, DurableTypes
<1>6. \A e \in got'[w] : e[2] >= floor[w][e[1]]
    BY <1>4, <1>5 DEF DurableInv, ReadsFresh
<1>7. \A v \in Workers \ {w} : off'[v] = off[v] /\ got'[v] = got[v]
    BY <1>1, <1>2, DurableTypes
<1>8. ASSUME NEW v \in Workers
      PROVE  /\ InFlight(v)' <=> InFlight(v)
             /\ InFlight(v) => Key(v)' = Key(v) /\ off'[v] = off[v]
             /\ FrameAge(v)'
             /\ \A e \in got'[v] : e[2] >= floor'[v][e[1]]
    <2>1. CASE v # w
        BY <1>1, <1>3, <1>7, <2>1 DEF InFlight, Key, FrameAge, Resting, DurableInv, ReadsFresh
    <2>2. CASE v = w
        BY <1>1, <1>3, <1>6, <2>2 DEF InFlight, FrameAge, Resting
    <2> QED BY <2>1, <2>2
<1>9. ReadsFresh' /\ \A v \in Workers, k \in Keys : floor'[v][k] <= settled[k]
    BY <1>1, <1>8 DEF ReadsFresh, DurableInv, AgeInv
<1> QED
    BY <1>1, <1>8, <1>9, QuietDurable

LEMMA TickDurable ==
    ASSUME IInv, DurableInv, Tick
    PROVE  DurableInv'
<1>1. UNCHANGED <<disk, process, acked, settled, floor, got, off, pc, todo>>
    BY DEF Tick
<1> QED
    BY <1>1, QuietDurable DEF InFlight, Key, FrameAge, Resting, DurableInv, AgeInv, ReadsFresh

-----------------------------------------------------------------------------
(* The life of the process.                                                *)

\* What a step of main keeps while the workers do nothing.
LEMMA StillDurable ==
    ASSUME IInv, DurableInv, UNCHANGED <<data, locals, history>>
    PROVE  /\ \A w \in Workers : FrameAge(w)' /\ (InFlight(w)' <=> InFlight(w))
           /\ \A w \in Workers : Key(w)' = Key(w) /\ off'[w] = off[w]
           /\ ReadsFresh'
           /\ (\A k \in Keys : acked[k] <= settled[k] /\ settled[k] <= Len(data) + 1)'
           /\ (\A w \in Workers, k \in Keys : floor[w][k] <= settled[k])'
           /\ Restarted' = Restarted => AckedDurable' /\ NoResurrection'
BY DEF DurableInv, AgeInv, FrameAge, InFlight, Resting, Key, ReadsFresh, AckedDurable, NoResurrection

LEMMA ShutdownDurable ==
    ASSUME IInv, DurableInv, Shutdown
    PROVE  DurableInv'
<1>1. Restarted' = Restarted
    BY FilesKept DEF Shutdown
<1>2. phase = "up" /\ phase' = "stopping" /\ UNCHANGED <<data, index, tst, rpos, locals, history>>
    BY DEF Shutdown
<1>3. RestartInv'
    BY <1>1, <1>2, StillDurable DEF DurableInv, RestartInv
<1>4. AgeInv'
    BY <1>2, StillDurable DEF DurableInv, AgeInv
<1> QED
    BY <1>1, <1>2, <1>3, <1>4, StillDurable DEF DurableInv

LEMMA BootDurable ==
    ASSUME IInv, DurableInv, Boot
    PROVE  DurableInv'
<1>1. phase = "down" /\ phase' = "replay" /\ tst' = index /\ rpos' = rpos /\ UNCHANGED <<disk, locals, history>>
    BY DEF Boot, CanStart, Reloaded
<1>2. Restarted' = Restarted
    BY <1>1, FilesKept
<1>3. rpos = 0 /\ \A w \in Workers : Resting(w)
    BY <1>1 DEF IInv, PhaseInv, DurableInv, RestartInv
<1>4. \A w \in Workers : ~InFlight(w)'
    BY <1>1, <1>3 DEF InFlight, Resting
<1>5. Recovered(rpos)' = index
    <2>1. \A k \in Keys : Mentions(k, rpos)' = {}
        BY <1>1, <1>3 DEF Mentions
    <2> QED
        BY <1>1, <2>1, DurableTypes DEF Recovered
<1>6. RestartInv'
    BY <1>1, <1>2, <1>4, <1>5 DEF DurableInv, RestartInv
<1>7. AgeInv'
    BY <1>1, StillDurable DEF AgeInv
<1> QED
    BY <1>1, <1>2, <1>6, <1>7, StillDurable DEF DurableInv

LEMMA ReplayOneDurable ==
    ASSUME IInv, DurableInv, ReplayOne
    PROVE  DurableInv'
<1>1. /\ phase = "replay" /\ phase' = "replay" /\ UNCHANGED <<disk, locals, history>>
      /\ tst' = [tst EXCEPT ![binlog[rpos + 1].key] = binlog[rpos + 1].off] /\ rpos' = rpos + 1
    BY DEF ReplayOne, NextPos
<1>2. Restarted' = Restarted
    BY <1>1, FilesKept
<1>3. PICK n \in Nat : n = rpos
    BY DEF IInv, ProcessTypeOK
<1>4. tst' = Recovered(n + 1)
    BY <1>1, <1>3, RecoveredOneMore DEF DurableInv, RestartInv
<1>5. Recovered(rpos)' = Recovered(n + 1)
    BY <1>1, <1>3 DEF Recovered, Mentions, LastMention
<1>6. \A w \in Workers : ~InFlight(w)'
    BY <1>1 DEF InFlight, Resting, IInv, PhaseInv
<1>7. RestartInv'
    BY <1>1, <1>2, <1>4, <1>5, <1>6 DEF DurableInv, RestartInv
<1>8. AgeInv'
    BY <1>1, StillDurable DEF AgeInv
<1> QED
    BY <1>1, <1>2, <1>7, <1>8, StillDurable DEF DurableInv

LEMMA ReplayDoneDurable ==
    ASSUME IInv, DurableInv, ReplayDone
    PROVE  DurableInv'
<1>1. /\ phase = "replay" /\ phase' = "up" /\ rpos' = 0 /\ tst' = tst
      /\ UNCHANGED <<data, index, locals, history>>
    BY DEF ReplayDone
<1>2. tst = Recovered(rpos)
    BY <1>1 DEF DurableInv, RestartInv
<1>3. Restarted' = Restarted /\ tst = Restarted
    BY <1>2, ReplayDoneRestarted, DurableTypes
<1>4. \A w \in Workers : ~InFlight(w)'
    BY <1>1 DEF InFlight, Resting, IInv, PhaseInv
<1>5. RestartInv'
    BY <1>1, <1>3, <1>4 DEF DurableInv, RestartInv
<1>6. AgeInv'
    <2>1. \A k \in Keys : tst[k] = 0 \/ tst[k] >= settled[k]
        BY <1>3 DEF DurableInv, NoResurrection
    <2> QED
        BY <1>1, <2>1, StillDurable DEF AgeInv
<1> QED
    BY <1>1, <1>3, <1>5, <1>6, StillDurable DEF DurableInv

\* With no command under way the tree is what a restart would rebuild.
LEMMA DumpIndexDurable ==
    ASSUME IInv, DurableInv, DumpIndex
    PROVE  DurableInv'
<1>1. /\ phase = "stopping" /\ phase' = "renamed" /\ index' = tst
      /\ \A w \in Workers : pc[w] = "exited"
      /\ UNCHANGED <<data, binlog, tst, rpos, locals, history>>
    BY DEF DumpIndex, Dumped
<1>2. \A w \in Workers : ~InFlight(w) /\ ~InFlight(w)'
    BY <1>1 DEF InFlight
<1>3. tst = Restarted
    <2>1. \A k \in Keys : tst[k] = Restarted[k]
        BY <1>1, <1>2 DEF DurableInv, RestartInv
    <2> QED
        BY <2>1, DurableTypes
<1>4. Restarted' = Restarted
    BY <1>3, DumpIndexRestarted
<1>5. RestartInv'
    BY <1>1, <1>2, <1>3, <1>4 DEF DurableInv, RestartInv
<1>6. AgeInv'
    BY <1>1, StillDurable DEF AgeInv
<1> QED
    BY <1>1, <1>4, <1>5, <1>6, StillDurable DEF DurableInv

\* A process that is gone leaves its files and nothing else.
LEMMA VanishDurable ==
    ASSUME IInv, DurableInv, Vanish, Restarted' = Restarted, UNCHANGED <<acked, settled>>,
           Len(data) \in Nat, Len(data') \in Nat, Len(data) <= Len(data')
    PROVE  DurableInv'
<1>1. RestartInv'
    BY DurableTypes DEF Vanish, RestartInv, InFlight
<1>2. AgeInv'
    BY DurableTypes DEF Vanish, DurableInv, AgeInv, NoKeys
<1>3. \A w \in Workers : FrameAge(w)'
    BY DEF Vanish, FrameAge, Resting
<1>4. AckedDurable' /\ NoResurrection'
    BY DEF DurableInv, AckedDurable, NoResurrection
<1>5. ReadsFresh'
    BY DEF Vanish, ReadsFresh
<1> QED
    BY <1>1, <1>2, <1>3, <1>4, <1>5 DEF DurableInv

LEMMA RemoveBinlogDurable ==
    ASSUME IInv, DurableInv, RemoveBinlog
    PROVE  DurableInv'
<1>1. phase = "renamed" /\ Vanish /\ UNCHANGED <<data, index, acked, settled>>
    BY DEF RemoveBinlog
<1>2. index = tst /\ \A w \in Workers : ~InFlight(w)
    BY <1>1 DEF DurableInv, RestartInv, IInv, PhaseInv, Resting, InFlight
<1>3. \A k \in Keys : tst[k] = Restarted[k]
    BY <1>1, <1>2 DEF DurableInv, RestartInv
<1>4. Restarted' = Restarted
    BY <1>2, <1>3, RemoveBinlogRestarted, DurableTypes
<1> QED
    BY <1>1, <1>4, VanishDurable, DurableTypes

LEMMA CrashDurable ==
    ASSUME IInv, DurableInv, Crash
    PROVE  DurableInv'
<1>1. Vanish /\ UNCHANGED <<acked, settled>>
    BY DEF Crash
<1>2. Restarted' = Restarted
    BY CrashRestarted, DurableTypes
<1>3. Len(data') \in Nat /\ Len(data) <= Len(data')
    <2>1. Junk \in Record
        BY DEF Junk, Record
    <2>2. data' = data \/ data' = Append(data, Junk)
        BY DEF Crash
    <2> QED
        BY <2>1, <2>2, AppendProperties, DurableTypes
<1> QED
    BY <1>1, <1>2, <1>3, VanishDurable, DurableTypes

-----------------------------------------------------------------------------
(* The writers.                                                            *)

\* A writer that has a record or a decision to write is the only one.
LEMMA OnlyWriter ==
    ASSUME IInv, NEW w \in Workers, pc[w] \in {"data", "binlog", "index"}
    PROVE  /\ phase \in {"up", "stopping"}
           /\ \A v \in Workers \ {w} : pc[v] \notin Holding /\ ~InFlight(v)
           /\ Key(w) \in Keys
           /\ off[w] \in Nat
<1>1. \A v \in Workers \ {w} : pc[v] \notin Holding
    BY Alone DEF Holding
<1>2. pc[w] \notin {"idle", "exited", "reply"}
    OBVIOUS
<1> QED
    BY <1>1, <1>2, AtWork DEF Holding, InFlight, IInv, PhaseInv, Resting, LocalsTypeOK

LEMMA WriteDataDurable ==
    ASSUME IInv, DurableInv, NEW w \in Workers, WriteData(w)
    PROVE  DurableInv'
<1>1. /\ pc[w] = "data" /\ pc' = [pc EXCEPT ![w] = "binlog"]
      /\ off' = [off EXCEPT ![w] = Len(data) + 1]
      /\ UNCHANGED <<binlog, index, process, todo, got, history>>
    BY DEF WriteData
<1>2. Len(data') = Len(data) + 1
    BY NewRecordFacts, AppendProperties, DurableTypes DEF WriteData
<1>3. /\ phase \in {"up", "stopping"}
      /\ \A v \in Workers \ {w} : pc[v] \notin Holding /\ ~InFlight(v)
      /\ Key(w) \in Keys
    BY <1>1, OnlyWriter
<1>4. Restarted' = Restarted
    BY <1>1, FilesKept
<1>5. \A v \in Workers : ~InFlight(v) /\ ~InFlight(v)'
    BY <1>1, <1>3, DurableTypes DEF InFlight
<1>6. RestartInv'
    BY <1>1, <1>3, <1>4, <1>5 DEF DurableInv, RestartInv
<1>7. AgeInv'
    <2>1. \A k \in Keys : settled[k] <= Len(data) + 1 /\ settled[k] \in Nat
        BY DurableTypes DEF DurableInv, AgeInv
    <2>2. \A k \in Keys : settled[k] <= Len(data) + 1 + 1
        BY <2>1, DurableTypes
    <2> QED
        BY <1>1, <1>2, <2>2 DEF DurableInv, AgeInv
<1>8. ASSUME NEW v \in Workers PROVE FrameAge(v)'
    <2>1. CASE v # w
        BY <1>1, <1>3, <2>1, DurableTypes DEF DurableInv, FrameAge, Holding, Resting, Key
    <2>2. CASE v = w
        <3>1. settled[Key(w)] <= Len(data) + 1
            BY <1>3 DEF DurableInv, AgeInv
        <3> QED
            BY <1>1, <1>2, <2>2, <3>1, DurableTypes DEF FrameAge, Resting, Key
    <2> QED BY <2>1, <2>2
<1>9. AckedDurable' /\ NoResurrection' /\ ReadsFresh'
    BY <1>1, <1>4 DEF DurableInv, AckedDurable, NoResurrection, ReadsFresh
<1> QED
    BY <1>6, <1>7, <1>8, <1>9 DEF DurableInv

LEMMA WriteBinlogDurable ==
    ASSUME IInv, DurableInv, NEW w \in Workers, WriteBinlog(w)
    PROVE  DurableInv'
<1>1. /\ pc[w] = "binlog" /\ pc' = [pc EXCEPT ![w] = "wrlock"]
      /\ acked' = IF off[w] = 0 THEN [acked EXCEPT ![Key(w)] = 0] ELSE acked
      /\ UNCHANGED <<data, index, process, todo, off, got, settled, floor>>
    BY DEF WriteBinlog
<1>2. /\ phase \in {"up", "stopping"}
      /\ \A v \in Workers \ {w} : pc[v] \notin Holding /\ ~InFlight(v)
      /\ Key(w) \in Keys
      /\ off[w] \in Nat
    BY <1>1, OnlyWriter
<1>3. Restarted' = [Restarted EXCEPT ![Key(w)] = off[w]]
    BY WriteBinlogRestarted
<1>4. off[w] = 0 \/ off[w] >= settled[Key(w)]
    BY <1>1, <1>2 DEF DurableInv, FrameAge
<1>5. Key(w)' = Key(w) /\ InFlight(w)' /\ \A v \in Workers \ {w} : ~InFlight(v)'
    BY <1>1, <1>2, DurableTypes DEF Key, InFlight
<1>6. RestartInv'
    <2>1. Restarted' \in [Keys -> Nat]
        BY <1>2, <1>3, DurableTypes
    <2>2. \A k \in Keys : tst[k] = Restarted[k]
        BY <1>1, <1>2 DEF DurableInv, RestartInv, InFlight
    <2>3. \A k \in Keys : k # Key(w) => tst'[k] = Restarted'[k]
        BY <1>1, <1>3, <2>2, DurableTypes
    <2>4. \A k \in Keys : tst'[k] = Restarted'[k] \/ \E v \in Workers : InFlight(v)' /\ Key(v)' = k
        BY <1>5, <2>3
    <2>5. \A v \in Workers : InFlight(v)' => Restarted'[Key(v)'] = off'[v]
        BY <1>1, <1>2, <1>3, <1>5, DurableTypes
    <2> QED
        BY <1>1, <1>2, <2>1, <2>4, <2>5 DEF DurableInv, RestartInv
<1>7. AgeInv'
    <2>1. \A k \in Keys : acked'[k] = acked[k] \/ acked'[k] = 0
        BY <1>1, DurableTypes
    <2>2. \A k \in Keys : acked[k] <= settled[k] /\ settled[k] <= Len(data) + 1
        BY DEF DurableInv, AgeInv
    <2>3. ASSUME NEW k \in Keys PROVE acked'[k] <= settled[k]
        <3>1. acked[k] \in Nat /\ settled[k] \in Nat
            BY DurableTypes
        <3>2. acked[k] <= settled[k] /\ (acked'[k] = acked[k] \/ acked'[k] = 0)
            BY <2>1, <2>2
        <3> QED BY <3>1, <3>2
    <2> QED
        BY <1>1, <2>2, <2>3 DEF DurableInv, AgeInv
<1>8. ASSUME NEW v \in Workers PROVE FrameAge(v)'
    BY <1>1, DurableTypes DEF DurableInv, FrameAge, Resting, Key
<1>9. NoResurrection'
    BY <1>1, <1>2, <1>3, <1>4, DurableTypes DEF DurableInv, NoResurrection
<1>10. AckedDurable'
    <2>1. ASSUME NEW k \in Keys, acked'[k] > 0 PROVE Restarted'[k] >= acked'[k]
        <3>1. acked'[k] = acked[k] /\ (k = Key(w) => off[w] # 0)
            BY <1>1, <1>2, <2>1, DurableTypes
        <3>2. CASE k # Key(w)
            BY <1>2, <1>3, <2>1, <3>1, <3>2, DurableTypes DEF DurableInv, AckedDurable
        <3>3. CASE k = Key(w)
            <4>1. Restarted'[k] = off[w] /\ off[w] >= settled[k] /\ settled[k] >= acked[k]
                BY <1>3, <1>4, <3>1, <3>3, DurableTypes DEF DurableInv, AgeInv
            <4> QED
                BY <3>1, <4>1, <1>2, DurableTypes
        <3> QED BY <3>2, <3>3
    <2> QED BY <2>1 DEF AckedDurable
<1>11. ReadsFresh'
    BY <1>1 DEF DurableInv, ReadsFresh
<1> QED
    BY <1>6, <1>7, <1>8, <1>9, <1>10, <1>11 DEF DurableInv

LEMMA UpdateIndexDurable ==
    ASSUME IInv, DurableInv, NEW w \in Workers, UpdateIndex(w)
    PROVE  DurableInv'
<1> DEFINE new == IF off[w] = 0 THEN Len(data) + 1 ELSE off[w]
<1>1. /\ pc[w] = "index" /\ Advance(w)
      /\ tst' = [tst EXCEPT ![Key(w)] = off[w]]
      /\ acked' = [acked EXCEPT ![Key(w)] = off[w]]
      /\ settled' = [settled EXCEPT ![Key(w)] = new]
      /\ UNCHANGED <<disk, phase, rpos, off, got, floor>>
    BY DEF UpdateIndex, TreeAfter
<1>2. /\ phase \in {"up", "stopping"}
      /\ \A v \in Workers \ {w} : pc[v] \notin Holding /\ ~InFlight(v)
      /\ Key(w) \in Keys
      /\ off[w] \in Nat
    BY <1>1, OnlyWriter
<1>3. Restarted' = Restarted /\ Restarted[Key(w)] = off[w]
    BY <1>1, FilesKept DEF DurableInv, RestartInv, InFlight
<1>4. /\ pc'[w] \in {"reply", "rdlock"}
      /\ \A v \in Workers \ {w} : pc'[v] = pc[v] /\ todo'[v] = todo[v]
    BY <1>1, Advancing
<1>5. \A v \in Workers : ~InFlight(v)'
    BY <1>2, <1>4 DEF InFlight
<1>6. /\ new \in Nat /\ settled[Key(w)] <= new /\ new <= Len(data) + 1
      /\ off[w] <= new /\ (off[w] = 0 \/ off[w] = new)
    <2>1. off[w] > 0 => off[w] \in 1..Len(data)
        BY <1>1 DEF IInv, Frame, Owns
    <2>2. off[w] > 0 => off[w] >= settled[Key(w)]
        BY <1>1 DEF DurableInv, FrameAge
    <2>3. settled[Key(w)] <= Len(data) + 1
        BY <1>2 DEF DurableInv, AgeInv
    <2> QED
        BY <1>2, <2>1, <2>2, <2>3, DurableTypes
<1> HIDE DEF new
<1>7. \A k \in Keys : settled[k] <= settled'[k] /\ settled'[k] \in Nat
    BY <1>1, <1>6, DurableTypes
<1>8. \A k \in Keys : tst'[k] = Restarted'[k]
    <2>1. ASSUME NEW k \in Keys, k # Key(w) PROVE tst[k] = Restarted[k]
        BY <1>1, <1>2, <2>1 DEF DurableInv, RestartInv
    <2> QED
        BY <1>1, <1>2, <1>3, <2>1, DurableTypes
<1>9. RestartInv'
    BY <1>1, <1>2, <1>3, <1>5, <1>8 DEF DurableInv, RestartInv
<1>10. AgeInv'
    <2>1. \A k \in Keys : acked'[k] <= settled'[k] /\ settled'[k] <= Len(data) + 1
        BY <1>1, <1>2, <1>6, DurableTypes DEF DurableInv, AgeInv
    <2>2. \A v \in Workers, k \in Keys : floor[v][k] <= settled'[k]
        <3>1. \A v \in Workers, k \in Keys : floor[v][k] <= settled[k] /\ floor[v][k] \in Nat
            BY DurableTypes DEF DurableInv, AgeInv
        <3> QED
            BY <1>7, <3>1, DurableTypes
    <2>3. \A k \in Keys : tst'[k] = 0 \/ tst'[k] >= settled'[k]
        BY <1>1, <1>2, <1>6, DurableTypes DEF DurableInv, AgeInv
    <2> QED
        BY <1>1, <2>1, <2>2, <2>3 DEF AgeInv
<1>11. ASSUME NEW v \in Workers PROVE FrameAge(v)'
    <2>1. CASE v # w
        BY <1>1, <1>2, <1>4, <2>1 DEF DurableInv, FrameAge, Holding, Resting, Key
    <2>2. CASE v = w
        BY <1>4, <2>2 DEF FrameAge, Resting
    <2> QED BY <2>1, <2>2
<1>12. NoResurrection' /\ AckedDurable'
    <2>1. ASSUME NEW k \in Keys
          PROVE  /\ Restarted'[k] = 0 \/ Restarted'[k] >= settled'[k]
                 /\ acked'[k] > 0 => Restarted'[k] >= acked'[k]
        <3>1. CASE k = Key(w)
            <4>1. Restarted'[k] = off[w] /\ acked'[k] = off[w] /\ settled'[k] = new
                BY <1>1, <1>3, <3>1, DurableTypes
            <4> QED
                BY <1>2, <1>6, <4>1
        <3>2. CASE k # Key(w)
            BY <1>1, <1>3, <3>2, DurableTypes DEF DurableInv, NoResurrection, AckedDurable
        <3> QED BY <3>1, <3>2
    <2> QED
        BY <2>1 DEF NoResurrection, AckedDurable
<1>13. ReadsFresh'
    BY <1>1 DEF DurableInv, ReadsFresh
<1> QED
    BY <1>9, <1>10, <1>11, <1>12, <1>13 DEF DurableInv

-----------------------------------------------------------------------------
\* Every step of the engine preserves the invariant.
LEMMA NextDurable == IInv /\ DurableInv /\ [Next]_vars => DurableInv'
<1> SUFFICES ASSUME IInv, DurableInv, [Next]_vars PROVE DurableInv'
    OBVIOUS
<1>1. ASSUME NEW w \in Workers, WorkerStep(w) PROVE DurableInv'
    BY <1>1, LockWriterDurable, CheckDurable, WriteDataDurable, WriteBinlogDurable, LockIndexDurable,
       UpdateIndexDurable, RdLockDurable, SearchDurable, LoadDurable, ReplyDurable, WorkerExitDurable
       DEF WorkerStep
<1>2. ASSUME NEW w \in Workers, NEW r \in Requests, Receive(w, r) PROVE DurableInv'
    BY <1>2, ReceiveDurable
<1>3. CASE MainStep
    BY <1>3, BootDurable, ReplayOneDurable, ReplayDoneDurable, DumpIndexDurable, RemoveBinlogDurable DEF MainStep
<1>4. CASE Shutdown
    BY <1>4, ShutdownDurable
<1>5. CASE Crash
    BY <1>5, CrashDurable
<1>6. CASE Tick
    BY <1>6, TickDurable
<1>7. CASE UNCHANGED vars
    BY <1>7, QuietDurable DEF vars, InFlight, Key, FrameAge, Resting, DurableInv, AgeInv, ReadsFresh
<1> QED
    BY <1>1, <1>2, <1>3, <1>4, <1>5, <1>6, <1>7 DEF Next

\* Both inductive invariants hold, however often the process is killed and
\* started again (init_data, replay_binlog, dump_tst).
THEOREM DurableInvariance == Spec => []Inductive
<1>1. Inductive /\ [Next]_vars => Inductive'
    BY NextInv, NextDurable DEF Inductive
<1>2. Init => Inductive
    BY InitInv, InitDurable DEF Inductive
<1> QED
    BY <1>1, <1>2, PTL DEF Spec

\* While the server runs, a restart would rebuild the tree it has, but for
\* the key of a command that is in the binlog and not yet in the tree
\* (replay_binlog, reload_index).
THEOREM RecoveryMatches == Spec => []RecoveryExact
<1>1. Inductive => RecoveryExact
    <2> SUFFICES ASSUME Inductive PROVE RecoveryExact
        OBVIOUS
    <2>1. \A w \in Workers : InFlight(w) => Pending(Key(w))
        BY DEF Inductive, DurableInv, RestartInv, InFlight, Pending
    <2> QED
        BY <2>1 DEF Inductive, DurableInv, RestartInv, RecoveryExact
<1> QED
    BY <1>1, DurableInvariance, PTL

\* No value that became visible is lost by a crash or a stop (the binlog is
\* flushed before the tree is changed).
THEOREM NothingLost == Spec => []AckedDurable
<1>1. Inductive => AckedDurable
    BY DEF Inductive, DurableInv
<1> QED
    BY <1>1, DurableInvariance, PTL

\* No value that was replaced or deleted comes back after a restart, with or
\* without the binlog that dump_tst removes after its rename.
THEOREM NothingComesBack == Spec => []NoResurrection
<1>1. Inductive => NoResurrection
    BY DEF Inductive, DurableInv
<1> QED
    BY <1>1, DurableInvariance, PTL

\* A reader returns nothing that was replaced or deleted before its request
\* came in (cmd_do_get, which reads the record with no lock held).
THEOREM FreshReads == Spec => []ReadsFresh
<1>1. Inductive => ReadsFresh
    BY DEF Inductive, DurableInv
<1> QED
    BY <1>1, DurableInvariance, PTL

-----------------------------------------------------------------------------
(* The files implement DurableMap.                                         *)

Open == \E w \in Workers : Reserves(w)

AbstractStep == Durable!Next \/ UNCHANGED <<Restarted, Len(data), Open>>

\* A step that leaves the files alone and gives nobody an offset to publish.
LEMMA QuietStutters ==
    ASSUME UNCHANGED disk, \A w \in Workers : Reserves(w)' <=> Reserves(w)
    PROVE  AbstractStep
<1>1. Restarted' = Restarted /\ Len(data)' = Len(data)
    BY FilesKept
<1>2. Open' = Open
    BY DEF Open
<1> QED
    BY <1>1, <1>2 DEF AbstractStep

LEMMA WorkerStutters ==
    ASSUME IInv, NEW w \in Workers, UNCHANGED disk,
           ~Reserves(w), ~Reserves(w)',
           \A v \in Workers \ {w} : pc'[v] = pc[v] /\ off'[v] = off[v]
    PROVE  AbstractStep
<1>1. ASSUME NEW v \in Workers PROVE Reserves(v)' <=> Reserves(v)
    BY DEF Reserves
<1> QED
    BY <1>1, QuietStutters

LEMMA OtherStepsStutter ==
    ASSUME IInv, DurableInv, NEW w \in Workers,
           \/ LockWriter(w) \/ Check(w) \/ LockIndex(w) \/ UpdateIndex(w)
           \/ RdLock(w) \/ Search(w) \/ Load(w) \/ Reply(w) \/ WorkerExit(w)
           \/ \E r \in Requests : Receive(w, r)
    PROVE  AbstractStep
<1>1. CASE LockWriter(w) \/ LockIndex(w) \/ RdLock(w) \/ WorkerExit(w) \/ \E r \in Requests : Receive(w, r)
    <2>1. pc[w] = "lock" => off[w] = 0
        BY DEF IInv, Frame
    <2>2. /\ UNCHANGED disk /\ ~Reserves(w) /\ ~Reserves(w)'
          /\ \A v \in Workers \ {w} : pc'[v] = pc[v] /\ off'[v] = off[v]
        BY <1>1, <2>1, DurableTypes DEF LockWriter, LockIndex, RdLock, WorkerExit, Receive, Reserves
    <2> QED
        BY <2>2, WorkerStutters
<1>2. CASE Reply(w)
    <2>1. /\ UNCHANGED disk /\ ~Reserves(w) /\ ~Reserves(w)'
          /\ \A v \in Workers \ {w} : pc'[v] = pc[v] /\ off'[v] = off[v]
        BY <1>2, DurableTypes DEF Reply, ClearFrame, Reserves
    <2> QED
        BY <2>1, WorkerStutters
<1>3. CASE Check(w)
    <2>1. pc[w] = "check" /\ off[w] = 0 /\ off' = off /\ UNCHANGED disk
        BY <1>3 DEF Check, IInv, Frame
    <2>2. \A v \in Workers \ {w} : pc'[v] = pc[v]
        BY <1>3, <2>1, Advancing, DurableTypes DEF Check
    <2> QED
        BY <2>1, <2>2, WorkerStutters DEF Reserves
<1>4. CASE UpdateIndex(w)
    <2>1. pc[w] = "index" /\ Advance(w) /\ off' = off /\ UNCHANGED disk
        BY <1>4 DEF UpdateIndex
    <2>2. pc'[w] \in {"reply", "rdlock"} /\ \A v \in Workers \ {w} : pc'[v] = pc[v]
        BY <2>1, Advancing
    <2> QED
        BY <2>1, <2>2, WorkerStutters DEF Reserves
<1>5. CASE Search(w) \/ Load(w)
    <2>1. pc[w] \in {"search", "load"} /\ UNCHANGED disk
        BY <1>5 DEF Search, Load
    <2>2. \A v \in Workers \ {w} : off'[v] = off[v]
        BY <1>5, DurableTypes DEF Search, Load, TstGet
    <2>3. pc'[w] \in {"reply", "rdlock", "load", "lock"} /\ \A v \in Workers \ {w} : pc'[v] = pc[v]
        <3>1. CASE Advance(w)
            BY <2>1, <3>1, Advancing
        <3>2. CASE ~Advance(w)
            BY <1>5, <3>2, DurableTypes DEF Search, Load
        <3> QED BY <3>1, <3>2
    <2> QED
        BY <2>1, <2>2, <2>3, WorkerStutters DEF Reserves
<1> QED
    BY <1>1, <1>2, <1>3, <1>4, <1>5

\* A writer that appends a record reserves its offset.
LEMMA WriteDataReserves ==
    ASSUME IInv, DurableInv, NEW w \in Workers, WriteData(w)
    PROVE  AbstractStep
<1>1. /\ pc[w] = "data" /\ pc' = [pc EXCEPT ![w] = "binlog"]
      /\ off' = [off EXCEPT ![w] = Len(data) + 1]
      /\ UNCHANGED <<binlog, index>>
    BY DEF WriteData
<1>2. Len(data') = Len(data) + 1
    BY NewRecordFacts, AppendProperties, DurableTypes DEF WriteData
<1>3. ~Open
    BY <1>1, OnlyWriter DEF Open, Reserves, Holding
<1>4. Reserves(w)'
    BY <1>1, DurableTypes DEF Reserves
<1>5. Restarted' = Restarted
    BY <1>1, FilesKept
<1> QED
    BY <1>2, <1>3, <1>4, <1>5 DEF AbstractStep, Durable!Next, Durable!Reserve, Open

\* Its binlog entry publishes that offset, or removes the key's binding.
LEMMA WriteBinlogPublishes ==
    ASSUME IInv, DurableInv, NEW w \in Workers, WriteBinlog(w)
    PROVE  AbstractStep
<1>1. /\ pc[w] = "binlog" /\ pc' = [pc EXCEPT ![w] = "wrlock"] /\ UNCHANGED <<data, off>>
    BY DEF WriteBinlog
<1>2. /\ \A v \in Workers \ {w} : pc[v] \notin Holding
      /\ Key(w) \in Keys /\ off[w] \in Nat
    BY <1>1, OnlyWriter
<1>3. Restarted' = [Restarted EXCEPT ![Key(w)] = off[w]]
    BY WriteBinlogRestarted
<1>4. ~Open'
    BY <1>1, <1>2, DurableTypes DEF Open, Reserves, Holding
<1>5. CASE off[w] > 0
    <2>1. Reserves(w) /\ off[w] = Len(data)
        BY <1>1, <1>5 DEF DurableInv, FrameAge, Reserves
    <2>2. Durable!Publish(Key(w))
        BY <1>1, <1>3, <1>4, <2>1 DEF Durable!Publish, Open
    <2> QED
        BY <1>2, <2>2 DEF AbstractStep, Durable!Next
<1>6. CASE off[w] = 0
    <2>1. ~Open
        BY <1>2, <1>6 DEF Open, Reserves, Holding
    <2>2. Durable!Remove(Key(w))
        BY <1>1, <1>3, <1>4, <1>6, <2>1 DEF Durable!Remove, Open
    <2> QED
        BY <1>2, <2>2 DEF AbstractStep, Durable!Next
<1> QED
    BY <1>2, <1>5, <1>6

\* A crash loses at most a reserved offset.
LEMMA CrashLoses ==
    ASSUME IInv, DurableInv, Crash
    PROVE  AbstractStep
<1>1. Restarted' = Restarted
    BY CrashRestarted, DurableTypes
<1>2. ~Open'
    BY DEF Crash, Vanish, Open, Reserves
<1>3. Len(data') = Len(data) \/ (Len(data') = Len(data) + 1 /\ ~Open)
    <2>1. CASE data' = data
        BY <2>1
    <2>2. CASE data' # data
        <3>1. PICK v \in Workers : pc[v] = "data" /\ data' = Append(data, Junk)
            BY <2>2 DEF Crash
        <3>2. Junk \in Record
            BY DEF Junk, Record
        <3>3. Len(data') = Len(data) + 1
            BY <3>1, <3>2, AppendProperties, DurableTypes
        <3>4. ~Open
            BY <3>1, OnlyWriter DEF Open, Reserves, Holding
        <3> QED
            BY <3>3, <3>4
    <2> QED
        BY <2>1, <2>2
<1>4. Durable!Lose
    BY <1>1, <1>2, <1>3 DEF Durable!Lose, Open
<1> QED
    BY <1>4 DEF AbstractStep, Durable!Next

\* main reads and rewrites the files while nobody is at work.
LEMMA MainStutters ==
    ASSUME IInv, DurableInv, MainStep
    PROVE  AbstractStep
<1>1. CASE Boot \/ ReplayOne
    <2>1. UNCHANGED <<disk, pc, off>>
        BY <1>1 DEF Boot, ReplayOne
    <2> QED
        BY <2>1, QuietStutters DEF Reserves
<1>2. CASE ReplayDone
    <2>1. tst = Recovered(rpos)
        BY <1>2 DEF ReplayDone, DurableInv, RestartInv
    <2>2. Restarted' = Restarted
        BY <1>2, <2>1, ReplayDoneRestarted, DurableTypes
    <2>3. UNCHANGED <<data, pc, off>>
        BY <1>2 DEF ReplayDone
    <2> QED
        BY <2>2, <2>3 DEF AbstractStep, Open, Reserves
<1>3. CASE DumpIndex
    <2>1. \A k \in Keys : tst[k] = Restarted[k]
        BY <1>3 DEF DumpIndex, DurableInv, RestartInv, InFlight
    <2>2. Restarted' = Restarted
        BY <1>3, <2>1, DumpIndexRestarted, DurableTypes
    <2>3. UNCHANGED <<data, pc, off>>
        BY <1>3 DEF DumpIndex
    <2> QED
        BY <2>2, <2>3 DEF AbstractStep, Open, Reserves
<1>4. CASE RemoveBinlog
    <2>1. phase = "renamed" /\ Vanish /\ data' = data
        BY <1>4 DEF RemoveBinlog
    <2>2. index = tst /\ \A w \in Workers : pc[w] \in {"idle", "exited"}
        BY <2>1 DEF DurableInv, RestartInv, IInv, PhaseInv, Resting
    <2>3. \A k \in Keys : tst[k] = Restarted[k]
        BY <2>1, <2>2 DEF DurableInv, RestartInv, InFlight
    <2>4. Restarted' = Restarted
        BY <1>4, <2>2, <2>3, RemoveBinlogRestarted, DurableTypes
    <2>5. ~Open /\ ~Open'
        BY <2>1, <2>2 DEF Open, Reserves, Vanish
    <2>6. Open' = Open
        BY <2>5 DEF Open
    <2>7. Len(data)' = Len(data)
        BY <2>1
    <2> QED
        BY <2>4, <2>6, <2>7 DEF AbstractStep
<1> QED
    BY <1>1, <1>2, <1>3, <1>4 DEF MainStep

LEMMA StepRefines ==
    IInv /\ DurableInv /\ [Next]_vars => [Durable!Next]_(Durable!vars)
<1> SUFFICES ASSUME IInv, DurableInv, [Next]_vars PROVE AbstractStep
    BY DEF AbstractStep, Durable!vars, Open
<1>1. ASSUME NEW w \in Workers, WorkerStep(w) PROVE AbstractStep
    BY <1>1, OtherStepsStutter, WriteDataReserves, WriteBinlogPublishes DEF WorkerStep
<1>2. ASSUME NEW w \in Workers, NEW r \in Requests, Receive(w, r) PROVE AbstractStep
    BY <1>2, OtherStepsStutter
<1>3. CASE MainStep
    BY <1>3, MainStutters
<1>4. CASE Shutdown \/ Tick \/ UNCHANGED vars
    <2>1. UNCHANGED <<disk, pc, off>>
        BY <1>4 DEF Shutdown, Tick, vars
    <2> QED
        BY <2>1, QuietStutters DEF Reserves
<1>5. CASE Crash
    BY <1>5, CrashLoses
<1> QED
    BY <1>1, <1>2, <1>3, <1>4, <1>5 DEF Next

LEMMA InitRefines == Init => Durable!Init
<1> SUFFICES ASSUME Init PROVE Durable!Init
    OBVIOUS
<1>1. Len(binlog) = 0 /\ Len(data) = 0 /\ index \in [Keys -> Nat] /\ index = NoKeys
    BY EmptySeq DEF Init, NoKeys
<1>2. Restarted = NoKeys
    BY <1>1, RecoveredNone DEF Restarted
<1> QED
    BY <1>1, <1>2 DEF Init, Durable!Init, Reserves, NoKeys

\* The data file, the index file and the binlog implement a map that changes
\* one key at a time, whose commit point is the binlog entry, and which no
\* crash, replay or dump changes.
THEOREM FilesImplementMap == Spec => ImplementsDurableMap
<1>1. Inductive /\ [Next]_vars => [Durable!Next]_(Durable!vars)
    BY StepRefines DEF Inductive
<1> QED
    BY <1>1, InitRefines, DurableInvariance, PTL DEF Spec, ImplementsDurableMap, Durable!Spec
=============================================================================
