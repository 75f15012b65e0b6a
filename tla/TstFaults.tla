------------------------------ MODULE TstFaults ------------------------------
(***************************************************************************)
(* TstStore on a disk that is sometimes full.  tstdb looks at the result   *)
(* of no fwrite, fflush or fclose, so it goes on as if every write had     *)
(* succeeded.  The C library drops the bytes of a stream it could not      *)
(* flush, and the next ftell gives the real end of the file again: an      *)
(* offset whose record was not written is handed out a second time.        *)
(*                                                                         *)
(* Each append to the data file or to the binlog may fail here, and so may *)
(* the dump.  An append to the data file may leave a part of the record.   *)
(* A binlog entry is written whole or not at all: an entry is a few bytes, *)
(* so it is cut only when a block ends in the middle of it.                *)
(*                                                                         *)
(* The six bytes [2012] at the head of the data file are not flushed when  *)
(* init_data writes them: they go out with the first record.  If that      *)
(* fails they are lost with it, and the next record begins at position 0,  *)
(* which in the tree and in the binlog means "no value".                   *)
(***************************************************************************)
EXTENDS TstStore

CONSTANT MaxFaults      \* bound: writes that fail

ASSUME FaultsAssumption ==
    /\ MaxFaults \in Nat
    \* incr and decr follow the offset they find as get does; they are left out
    /\ \A r \in Requests : r.op \notin {"incr", "decr"}

VARIABLES
    head,       \* the data file's header: still to be flushed, lost, or kept,
                \* which it also is when another byte begins the file
    nfault,     \* writes that have failed
    hurt        \* history: the keys whose last logged write failed, that were
                \* changed without being logged or logged as deleted, or that
                \* the last dump left out

faultVars == <<vars, head, nfault, hurt>>

FaultInit == Init /\ head = "buffered" /\ nfault = 0 /\ hurt = {}

-----------------------------------------------------------------------------
Fault(keys) ==
    /\ nfault < MaxFaults
    /\ nfault' = nfault + 1
    /\ hurt' = hurt \cup keys

\* What ftell gives: the end of the file, a header in the buffer included.
EndOfData == IF head = "lost" THEN 0 ELSE Len(data) + 1

\* The flush of a record fails, with nothing or a part of it written.  The
\* first one of a file takes the header along.
DataFull(w) ==
    /\ pc[w] = "data"
    /\ \/ data' = data /\ head' = (IF head = "kept" THEN "kept" ELSE "lost")
       \/ data' \in {data, Append(data, Junk)} /\ head = "buffered" /\ head' = "kept"
       \/ data' = Append(data, Junk) /\ head' = "kept"
    /\ off' = [off EXCEPT ![w] = EndOfData]
    /\ Goto(w, "binlog")
    /\ Fault({Key(w)})
    /\ UNCHANGED <<binlog, index, process, locks, req, todo, tmp, got, msg, env,
                   history>>

\* A record in a file that has lost its header: it begins at position 0, and
\* no offset but 0 names it.
DataAtZero(w) ==
    /\ pc[w] = "data"
    /\ head = "lost"
    /\ data' = Append(data, Junk)
    /\ off' = [off EXCEPT ![w] = EndOfData]
    /\ Goto(w, "binlog")
    /\ head' = "kept"
    /\ hurt' = hurt \cup {Key(w)}
    /\ UNCHANGED <<binlog, index, process, locks, req, todo, tmp, got, msg, env,
                   history, nfault>>

DataKept(w) ==
    /\ head # "lost"
    /\ WriteData(w)
    /\ head' = "kept"
    /\ UNCHANGED <<nfault, hurt>>

\* The flush of a binlog entry fails.
BinlogFull(w) ==
    /\ pc[w] = "binlog"
    /\ Goto(w, "wrlock")
    /\ Fault({Key(w)})
    /\ UNCHANGED <<disk, process, locks, req, todo, off, tmp, got, msg, env,
                   history, head>>

\* A logged write of a record that is there, or a logged deletion, repairs
\* its key.  A put logged with offset 0 does not.
Repairs(w) ==
    /\ Owns(Key(w), off[w])
    /\ req[w].op \in PutOps => off[w] > 0

Logged(w) ==
    /\ WriteBinlog(w)
    /\ hurt' = IF Repairs(w) THEN hurt \ {Key(w)} ELSE hurt
    /\ UNCHANGED <<nfault, head>>

\* Where no whole record begins, the three integers cmd_do_get reads are
\* whatever follows, or what its stack held when nothing follows: it takes
\* the record for expired, for a value or for one of negative length.
Unreadable(o) == o \in 1..Len(data) => data[o] = Junk

LoadGarbage(w) ==
    /\ pc[w] = "load"
    /\ Unreadable(off[w])
    /\ \/ Goto(w, "lock") /\ UNCHANGED <<todo, got>>
       \/ Advance(w) /\ got' \in {got, [got EXCEPT ![w] = @ \cup {<<Key(w), off[w]>>}]}
    /\ off' = [off EXCEPT ![w] = 0]
    /\ UNCHANGED <<disk, process, locks, req, tmp, msg, env, history>>

LoadRecord(w) == pc[w] = "load" /\ ~Unreadable(off[w]) /\ Load(w)

\* dump_tst closes the data file first, which writes the header of a file
\* that has had no record yet.
HeadClosed == IF head = "buffered" THEN "kept" ELSE head

DumpWhole ==
    /\ DumpIndex
    /\ head' = HeadClosed
    /\ UNCHANGED <<nfault, hurt>>

\* The index file comes out short: the keys whose nodes are missing are not
\* found when it is read.  It replaces the old one all the same.
DumpFull ==
    /\ phase = "stopping"
    /\ \A w \in Workers : pc[w] = "exited"
    /\ \E missing \in SUBSET Keys :
         /\ index' = [k \in Keys |-> IF k \in missing THEN 0 ELSE Dumped[k]]
         /\ Fault(missing)
    /\ phase' = "renamed"
    /\ head' \in {head, HeadClosed}
    /\ UNCHANGED <<data, binlog, tst, rpos, locks, locals, env, history>>

\* A file that ends up empty gets its header again from the next init_data.
HeadLeft == IF head = "lost" THEN "buffered" ELSE head

Ended == RemoveBinlog /\ head' = HeadLeft /\ UNCHANGED <<nfault, hurt>>

\* A write that was going on may leave the header, or a part of it.
Killed ==
    /\ Crash
    /\ head' \in IF data' # data THEN {"kept"}
                 ELSE IF \E w \in Workers : pc[w] = "data" THEN {HeadLeft, HeadClosed}
                 ELSE {HeadLeft}
    /\ UNCHANGED <<nfault, hurt>>

Sound(w) ==
    \/ LockWriter(w) \/ Check(w) \/ LockIndex(w) \/ UpdateIndex(w)
    \/ RdLock(w) \/ Search(w) \/ LoadRecord(w) \/ LoadGarbage(w) \/ Reply(w)
    \/ WorkerExit(w)
    \/ \E r \in Requests : Receive(w, r)

FaultNext ==
    \/ \E w \in Workers : \/ DataKept(w) \/ DataAtZero(w) \/ DataFull(w)
                          \/ Logged(w) \/ BinlogFull(w)
    \/ DumpWhole \/ DumpFull \/ Ended \/ Killed
    \/ /\ \/ \E w \in Workers : Sound(w)
          \/ Boot \/ ReplayOne \/ ReplayDone \/ Shutdown \/ Tick
       /\ UNCHANGED <<head, nfault, hurt>>

FaultSpec == FaultInit /\ [][FaultNext]_faultVars

-----------------------------------------------------------------------------
\* A write that failed harms the keys in hurt only, and each only until it is
\* written or deleted again.  They are the key of a failed append, the key
\* whose record then begins a file without a header, and the keys a failed
\* dump leaves out.  For every other key a restart finds a record of that
\* key, no older than the last one acknowledged and none that was replaced or
\* deleted, although appends of other keys have been lost or cut in between
\* and an offset may have been given out twice.
FaultsContained ==
    \A k \in Keys \ hurt :
        LET o == Recovered(Len(binlog))[k] IN
        /\ Owns(k, o)
        /\ o >= acked[k]
        /\ o = 0 \/ o >= settled[k]

\* As long as nobody has killed the server, no read returns a record older than
\* its request allows, of a key with a failed write neither, although the
\* offset it follows may have been given out twice.
FreshUnlessKilled == ncrash = 0 => ReadsFresh

-----------------------------------------------------------------------------
(* The inductive invariant behind FaultsContained; TstFaultsProofs shows   *)
(* that every step preserves it.  Of what TstStore's invariants say, the   *)
(* locks, the phases and the names in the binlog survive a full disk; what *)
(* they say of offsets is left for the keys that are not hurt.             *)

\* An incomplete entry is the last, and gone before a worker appends.
BinlogKeyed ==
    \A i \in 1..Len(binlog) :
        \/ binlog[i].key \in Keys
        \/ binlog[i] = Torn /\ i = Len(binlog) /\ phase \in {"down", "replay"}

\* What a worker's locals hold at each of its calls.
FaultFrame(w) ==
    /\ Resting(w) <=> req[w] = NoReq
    /\ Resting(w) => off[w] = 0 /\ got[w] = {}
    /\ ~Resting(w) /\ pc[w] # "reply" =>
           todo[w] # << >> /\ (req[w].op \notin GetOps => Len(todo[w]) = 1)
    /\ pc[w] \in {"rdlock", "search"} => req[w].op \in ReadOps
    /\ pc[w] = "load"  => req[w].op \in GetOps /\ off[w] > 0
    /\ pc[w] = "lock"  => req[w].op \in WriteOps \cup GetOps /\ off[w] = 0
    /\ pc[w] = "check" => req[w].op \in WriteOps \ {"set"} /\ off[w] = 0

\* The part of the invariant that no failed write touches.
ShapeInv ==
    /\ TypeOK /\ nfault \in Nat /\ hurt \subseteq Keys
    /\ LockInv
    /\ PhaseInv
    /\ BinlogKeyed
    /\ \A w \in Workers : FaultFrame(w)

\* The offset a worker is about to publish is newer than what its key had.
\* The record is there unless the key is hurt.
Written(w) ==
    pc[w] \in {"binlog", "wrlock", "index"} =>
        /\ Key(w) \notin hurt => Owns(Key(w), off[w])
        /\ off[w] > 0 => settled[Key(w)] <= off[w] /\ off[w] <= Len(data) + 1

\* RestartInv, for the keys that are not hurt.
FaultRestart ==
    /\ phase \in {"up", "stopping", "renamed"} =>
         \A k \in Keys \ hurt : \/ tst[k] = Restarted[k]
                                \/ \E w \in Workers : InFlight(w) /\ Key(w) = k
    /\ \A w \in Workers : InFlight(w) /\ Key(w) \notin hurt => Restarted[Key(w)] = off[w]
    /\ phase = "replay" => tst = Recovered(rpos)
    /\ phase # "replay" => rpos = 0
    /\ phase = "renamed" =>
         /\ \A k \in Keys : index[k] \in {tst[k], 0}
         /\ \A k \in Keys \ hurt : index[k] = tst[k]

SettledInv ==
    /\ \A k \in Keys : acked[k] <= settled[k] /\ settled[k] <= Len(data) + 1
    /\ \A w \in Workers, k \in Keys : floor[w][k] <= settled[k]

\* As long as nobody kills the server, the tree itself is up to date, hurt
\* keys included: a stop dumps it and a start finds it in the index file.
Fresh(m) == \A k \in Keys : m[k] = 0 \/ m[k] >= settled[k]

UnkilledInv ==
    /\ phase \in {"down", "replay"} => Len(binlog) = 0 /\ Fresh(index)
    /\ phase # "down" => Fresh(tst)
    /\ \A w \in Workers : pc[w] = "load" => off[w] >= floor[w][Key(w)]
    /\ ReadsFresh

ContentInv ==
    /\ FaultRestart
    /\ SettledInv
    /\ \A w \in Workers : Written(w)
    /\ FaultsContained
    /\ ncrash = 0 => UnkilledInv

\* Only a file that is still empty can be without its header.
HeadInv ==
    /\ head \in {"buffered", "lost", "kept"}
    /\ head # "kept" => data = << >>

FaultInv == ShapeInv /\ HeadInv /\ ContentInv

=============================================================================
