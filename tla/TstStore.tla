------------------------------ MODULE TstStore ------------------------------
(***************************************************************************)
(* The storage engine of tstdb: cmd_process.c (what a worker does with one *)
(* parsed command) together with the part of tstserver.c that makes the    *)
(* result survive (reload_index, replay_binlog, dump_tst and the shutdown  *)
(* sequence of main).                                                      *)
(*                                                                         *)
(* Three things persist: the data file, an append-only sequence of value   *)
(* records; the binlog, an append-only sequence of (key, offset) pairs     *)
(* where offset 0 is a deletion; and the index file, a dump of the tree.   *)
(* The tree in memory, g_tst, maps a key to the offset of its record.      *)
(* TstIndex models the tree's nodes; here it is the map it stands for.     *)
(*                                                                         *)
(* Writers hold g_writer_lock from their first look at the tree to the     *)
(* last change; whoever changes the tree also holds g_reader_lock for      *)
(* writing, and get and the scans hold it for reading.  A get reads the    *)
(* value record after it has dropped that lock.                            *)
(*                                                                         *)
(* A data offset is modelled by the ordinal of its record: the file starts *)
(* with the six bytes [2012], so no record has offset 0 (TstFaults has a   *)
(* disk on which they get lost).                                           *)
(***************************************************************************)
EXTENDS Integers, Sequences, FiniteSets

CONSTANTS
    Workers,        \* the worker threads (WORKER_COUNT of them in the code)
    Keys,           \* the keys requests name
    Nil,            \* "no worker", and the key of an unusable record
    Requests,       \* the requests clients may send
    MaxRequests,    \* bound: requests handed to the workers
    MaxCrashes,     \* bound: crashes of the process
    StartTime,      \* the clock when the exploration begins
    MaxTime,        \* bound: the clock's last value
    IntMax          \* the largest int (2^31 - 1 in the code)

PutOps    == {"set", "cas", "incr", "decr"}     \* end in tst_put
DeleteOps == {"delete"}                         \* ends in tst_delete
GetOps    == {"get"}                            \* get and gets
ScanOps   == {"prefix"}                         \* prefix, less and greater
WriteOps  == PutOps \cup DeleteOps
ReadOps   == GetOps \cup ScanOps

\* A parsed command.  val is the body (or incr's delta), exp the expiry
\* argument, sign the last argument of cas; a command that does not use a
\* field carries 0.  Only a get names more than one key.
Request ==
    [op : WriteOps \cup ReadOps, keys : Seq(Keys), val : Int, exp : Int, sign : Nat]

ASSUME NilAssumption == Nil \notin Workers /\ Nil \notin Keys

ASSUME RequestsAssumption ==
    /\ Requests \subseteq Request
    /\ \A r \in Requests : /\ r.keys # << >>
                           /\ r.op \notin GetOps => Len(r.keys) = 1

ASSUME BoundsAssumption ==
    /\ MaxRequests \in Nat
    /\ MaxCrashes \in Nat
    /\ StartTime \in Nat
    /\ MaxTime \in Nat
    /\ IntMax \in Nat
    /\ StartTime <= MaxTime /\ MaxTime <= IntMax

VARIABLES
    \* what survives the process
    data,           \* the data file: a sequence of value records
    binlog,         \* the binlog: a sequence of [key, off]
    index,          \* the index file: the tree as last dumped
    \* the process
    phase,          \* where main is
    tst,            \* g_tst, as a map from keys to offsets
    rpos,           \* the binlog entries replayed since the last start
    mutex,          \* the worker that holds g_writer_lock, or Nil
    wrlock,         \* the worker that holds g_reader_lock for writing, or Nil
    readers,        \* the workers that hold g_reader_lock for reading
    \* each worker's stack
    pc,             \* the call the worker is about to make
    req,            \* the command it is carrying out
    todo,           \* the keys of it that are still to do
    off,            \* value_offset
    tmp,            \* the record incr_or_decr is going to write
    got,            \* g_value_buf: the <<key, offset>> pairs found so far
    msg,            \* which reply the worker will send
    \* the environment
    now,            \* time(NULL)
    nreq,           \* requests received so far
    ncrash,         \* crashes so far
    \* history, read by the properties only
    acked,          \* per key, the last record made visible, 0 once a later
                    \* deletion is in the binlog
    settled,        \* per key, the smallest offset a read that starts now
                    \* may return
    floor           \* per worker, settled as it was when its request came in

disk    == <<data, binlog, index>>
process == <<phase, tst, rpos>>
locks   == <<mutex, wrlock, readers>>
locals  == <<pc, req, todo, off, tmp, got, msg>>
env     == <<now, nreq, ncrash>>
history == <<acked, settled, floor>>
vars    == <<disk, process, locks, locals, env, history>>

-----------------------------------------------------------------------------
(* Records, entries, requests.                                             *)

Record   == [key : Keys \cup {Nil}, val : Int, exp : Int]
Entry    == [key : Keys \cup {Nil}, off : Nat]
Phases   == {"down", "replay", "up", "stopping", "renamed"}
Points   == {"idle", "lock", "check", "data", "binlog", "wrlock", "index",
             "rdlock", "search", "load", "reply", "exited"}

Junk   == [key |-> Nil, val |-> 0, exp |-> 0]   \* a half-written record
Torn   == [key |-> Nil, off |-> 0]              \* a half-written binlog entry
NoReq  == [op |-> "none", keys |-> << >>, val |-> 0, exp |-> 0, sign |-> 0]
NoKeys == [k \in Keys |-> 0]                    \* an empty tree

Key(w) == Head(todo[w])

Resting(w) == pc[w] \in {"idle", "exited"}

\* What an int holds after an addition: the sum, wrapped round.
Wrap(n) ==
    CASE n > IntMax      -> n - 2 * (IntMax + 1)
      [] n < -IntMax - 1 -> n + 2 * (IntMax + 1)
      [] OTHER           -> n

\* cmd_do_get's test on a record's third integer: 0 or less never expires.
IsExpired(r, t) == r.exp > 0 /\ r.exp <= t

\* The record a put writes at time t.  set turns a positive expiry into an
\* absolute time, cas stores its argument as it is, incr and decr keep the
\* one they read.
NewRecord_LosesExpiry(w, t) ==
    IF req[w].op \in {"incr", "decr"} THEN [tmp[w] EXCEPT !.exp = 1]
    ELSE [key |-> Key(w), val |-> req[w].val, exp |-> req[w].exp]

NewRecord(w, t) ==
    LET r == req[w] IN
    IF r.op \in {"incr", "decr"} THEN tmp[w]
    ELSE [key |-> Key(w), val |-> r.val,
          exp |-> IF r.op = "set" /\ r.exp > 0 THEN Wrap(r.exp + t) ELSE r.exp]

\* incr_or_decr's new record: the number it read, plus or minus the delta,
\* with the old expiry.
Counted(r, old) ==
    [old EXCEPT !.val = Wrap(IF r.op = "decr" THEN @ - r.val ELSE @ + r.val)]

\* The tree that reload_index and a replay of the first n binlog entries
\* rebuild: a key's last entry decides, and without one the index file does.
Mentions(k, n) == {i \in 1..n : binlog[i].key = k}

LastMention(k, n) ==
    CHOOSE i \in Mentions(k, n) : \A j \in Mentions(k, n) : j <= i

Recovered(n) ==
    [k \in Keys |-> IF Mentions(k, n) = {} THEN index[k]
                    ELSE binlog[LastMention(k, n)].off]

Restarted == Recovered(Len(binlog))

-----------------------------------------------------------------------------
(* The initial state: no file exists and the server is not running.        *)

Init ==
    /\ data = << >> /\ binlog = << >> /\ index = NoKeys
    /\ phase = "down" /\ tst = NoKeys /\ rpos = 0
    /\ mutex = Nil /\ wrlock = Nil /\ readers = {}
    /\ pc   = [w \in Workers |-> "idle"]
    /\ req  = [w \in Workers |-> NoReq]
    /\ todo = [w \in Workers |-> << >>]
    /\ off  = [w \in Workers |-> 0]
    /\ tmp  = [w \in Workers |-> Junk]
    /\ got  = [w \in Workers |-> {}]
    /\ msg  = [w \in Workers |-> "none"]
    /\ now = StartTime /\ nreq = 0 /\ ncrash = 0
    /\ acked = NoKeys /\ settled = NoKeys
    /\ floor = [w \in Workers |-> NoKeys]

-----------------------------------------------------------------------------
(* A worker's steps.                                                       *)

Goto(w, p) == pc' = [pc EXCEPT ![w] = p]

\* The worker is done with the key at hand: cmd_do_get goes on to the next
\* one, everything else has only one.
Advance(w) ==
    /\ todo' = [todo EXCEPT ![w] = Tail(@)]
    /\ Goto(w, IF Len(todo[w]) = 1 THEN "reply" ELSE "rdlock")

\* handle_cmd picks the command's function.  The workers keep serving what
\* they have already read after the shutdown flag is set.
Receive(w, r) ==
    /\ phase \in {"up", "stopping"}
    /\ pc[w] = "idle"
    /\ nreq < MaxRequests
    /\ nreq' = nreq + 1
    /\ req' = [req EXCEPT ![w] = r]
    /\ todo' = [todo EXCEPT ![w] = r.keys]
    /\ Goto(w, IF r.op \in ReadOps THEN "rdlock" ELSE "lock")
    /\ floor' = [floor EXCEPT ![w] = settled]
    /\ UNCHANGED <<disk, process, locks, off, tmp, got, msg, now, ncrash,
                   acked, settled>>

\* pthread_mutex_lock(&g_writer_lock).  set goes straight to the data file,
\* delete_expire_value straight to the binlog; the others look at the tree
\* first.
MutexFree_Ignored(w) == TRUE

MutexFree(w) == mutex = Nil

LockWriter(w) ==
    /\ pc[w] = "lock"
    /\ MutexFree(w)
    /\ mutex' = w
    /\ Goto(w, CASE req[w].op = "set" -> "data"
                 [] req[w].op \in GetOps -> "binlog"
                 [] OTHER -> "check")
    /\ UNCHANGED <<disk, process, wrlock, readers, req, todo, off, tmp, got,
                   msg, env, history>>

\* The command finds it has nothing to do: EXISTS for cas, NOT_FOUND for
\* delete, incr and decr.
SignMatches_Stale(w) == tst[Key(w)] >= req[w].sign

SignMatches(w) == tst[Key(w)] = req[w].sign

GiveUp_KeepsLock == mutex' = mutex

GiveUp == mutex' = Nil

MustGiveUp(w) ==
    IF req[w].op = "cas" THEN ~SignMatches(w) ELSE tst[Key(w)] = 0

Check(w) ==
    /\ pc[w] = "check"
    /\ IF MustGiveUp(w)
         THEN /\ GiveUp
              /\ msg' = [msg EXCEPT ![w] = "fail"]
              /\ Advance(w)
              /\ UNCHANGED tmp
         ELSE /\ Goto(w, IF req[w].op \in DeleteOps THEN "binlog" ELSE "data")
              /\ tmp' = [tmp EXCEPT ![w] =
                          IF req[w].op \in {"incr", "decr"}
                            THEN Counted(req[w], data[tst[Key(w)]]) ELSE @]
              /\ UNCHANGED <<mutex, msg, todo>>
    /\ UNCHANGED <<disk, process, wrlock, readers, req, off, got, env, history>>

\* ftell, fwrite and fflush on the data file.
WriteData(w) ==
    /\ pc[w] = "data"
    /\ data' = Append(data, NewRecord(w, now))
    /\ off' = [off EXCEPT ![w] = Len(data) + 1]
    /\ Goto(w, "binlog")
    /\ UNCHANGED <<binlog, index, process, locks, req, todo, tmp, got, msg, env,
                   history>>

\* fwrite and fflush on the binlog; off is 0 for a deletion.
WriteBinlog(w) ==
    /\ pc[w] = "binlog"
    /\ binlog' = Append(binlog, [key |-> Key(w), off |-> off[w]])
    /\ acked' = IF off[w] = 0 THEN [acked EXCEPT ![Key(w)] = 0] ELSE acked
    /\ Goto(w, "wrlock")
    /\ UNCHANGED <<data, index, process, locks, req, todo, off, tmp, got, msg,
                   env, settled, floor>>

\* pthread_rwlock_wrlock(&g_reader_lock).
NoReaders_Ignored == TRUE

NoReaders == readers = {}

LockIndex(w) ==
    /\ pc[w] = "wrlock"
    /\ wrlock = Nil /\ NoReaders
    /\ wrlock' = w
    /\ Goto(w, "index")
    /\ UNCHANGED <<disk, process, mutex, readers, req, todo, off, tmp, got, msg,
                   env, history>>

\* tst_put or tst_delete, then both unlocks.  Nothing is shared between the
\* two unlocks, so they are one step.
TreeAfter_KeepsDeleted(w) == IF off[w] = 0 THEN tst ELSE [tst EXCEPT ![Key(w)] = off[w]]

TreeAfter(w) == [tst EXCEPT ![Key(w)] = off[w]]

UpdateIndex(w) ==
    /\ pc[w] = "index"
    /\ tst' = TreeAfter(w)
    /\ mutex' = Nil
    /\ wrlock' = Nil
    /\ msg' = [msg EXCEPT ![w] = IF req[w].op \in WriteOps THEN "ok" ELSE @]
    /\ acked' = [acked EXCEPT ![Key(w)] = off[w]]
    /\ settled' = [settled EXCEPT ![Key(w)] =
                    IF off[w] = 0 THEN Len(data) + 1 ELSE off[w]]
    /\ Advance(w)
    /\ UNCHANGED <<disk, phase, rpos, readers, req, off, tmp, got, env, floor>>

\* pthread_rwlock_rdlock(&g_reader_lock) in cmd_do_get and the scans.
RdLock(w) ==
    /\ pc[w] = "rdlock"
    /\ wrlock = Nil
    /\ readers' = readers \cup {w}
    /\ Goto(w, "search")
    /\ UNCHANGED <<disk, process, mutex, wrlock, req, todo, off, tmp, got, msg,
                   env, history>>

\* A scan collects the keys that have a value while it holds the lock. Which
\* of them it keeps (the prefix, the order, the limit) is TstIndex's subject.
Listing == {<<k, tst[k]>> : k \in {j \in Keys : tst[j] > 0}}

\* tst_get, or the scan, and pthread_rwlock_unlock.
TstGet(k) == tst[k]

Search(w) ==
    /\ pc[w] = "search"
    /\ readers' = readers \ {w}
    /\ IF req[w].op \in ScanOps
         THEN /\ got' = [got EXCEPT ![w] = Listing]
              /\ Advance(w)
              /\ UNCHANGED off
         ELSE /\ off' = [off EXCEPT ![w] = TstGet(Key(w))]
              /\ IF TstGet(Key(w)) > 0
                   THEN Goto(w, "load") /\ UNCHANGED todo
                   ELSE Advance(w)
              /\ UNCHANGED got
    /\ UNCHANGED <<disk, process, mutex, wrlock, req, tmp, msg, env, history>>

\* cmd_do_get reads the record with no lock held.  An expired one sends it to
\* delete_expire_value, a live one is added to the reply.
Load(w) ==
    /\ pc[w] = "load"
    /\ IF IsExpired(data[off[w]], now)
         THEN /\ Goto(w, "lock")
              /\ UNCHANGED <<todo, got>>
         ELSE /\ got' = [got EXCEPT ![w] = @ \cup {<<Key(w), off[w]>>}]
              /\ Advance(w)
    /\ off' = [off EXCEPT ![w] = 0]
    /\ UNCHANGED <<disk, process, locks, req, tmp, msg, env, history>>

\* append_send_data: the worker's frame is gone.
ClearFrame(w) ==
    /\ req'   = [req EXCEPT ![w] = NoReq]
    /\ todo'  = [todo EXCEPT ![w] = << >>]
    /\ off'   = [off EXCEPT ![w] = 0]
    /\ tmp'   = [tmp EXCEPT ![w] = Junk]
    /\ got'   = [got EXCEPT ![w] = {}]
    /\ msg'   = [msg EXCEPT ![w] = "none"]
    /\ floor' = [floor EXCEPT ![w] = NoKeys]

Reply(w) ==
    /\ pc[w] = "reply"
    /\ Goto(w, "idle")
    /\ ClearFrame(w)
    /\ UNCHANGED <<disk, process, locks, env, acked, settled>>

-----------------------------------------------------------------------------
(* The life of the process.                                                *)

\* init_data opens the files and calls reload_index.
CanStart_CleanOnly == phase = "down" /\ \A i \in 1..Len(binlog) : binlog[i] # Torn

CanStart == phase = "down"

Reloaded_UnlessLogged == IF binlog = << >> THEN index ELSE NoKeys

Reloaded == index

Boot ==
    /\ CanStart
    /\ phase' = "replay"
    /\ tst' = Reloaded
    /\ UNCHANGED <<disk, rpos, locks, locals, env, history>>

\* One turn of replay_binlog's loop.
AtEndOfBinlog == rpos < Len(binlog) => binlog[rpos + 1] = Torn

NextPos_Skips == rpos + 2

NextPos == rpos + 1

ReplayOne ==
    /\ phase = "replay"
    /\ ~AtEndOfBinlog
    /\ tst' = [tst EXCEPT ![binlog[rpos + 1].key] = binlog[rpos + 1].off]
    /\ rpos' = NextPos
    /\ UNCHANGED <<disk, phase, locks, locals, env, history>>

\* The loop ends at the end of the file or at an incomplete pair, the
\* ftruncate cuts the latter off, and the workers start.
KeptBinlog_NoTruncate == binlog

KeptBinlog == SubSeq(binlog, 1, rpos)

ReplayDone ==
    /\ phase = "replay"
    /\ AtEndOfBinlog
    /\ binlog' = KeptBinlog
    /\ rpos' = 0
    /\ phase' = "up"
    /\ UNCHANGED <<data, index, tst, locks, locals, env, history>>

\* exit_hook, on SIGTERM, SIGINT or SIGQUIT.
Shutdown ==
    /\ phase = "up"
    /\ phase' = "stopping"
    /\ UNCHANGED <<disk, tst, rpos, locks, locals, env, history>>

\* handle_core's loop ends between two events.
WorkerExit(w) ==
    /\ phase = "stopping"
    /\ pc[w] = "idle"
    /\ Goto(w, "exited")
    /\ UNCHANGED <<disk, process, locks, req, todo, off, tmp, got, msg, env,
                   history>>

\* main has joined every worker; dump_tst writes the tree to a temporary file
\* and renames it over the index file.
Dumped_Stale == index

Dumped_KeepsDeleted == [k \in Keys |-> IF tst[k] = 0 THEN index[k] ELSE tst[k]]

Dumped == tst

DumpIndex ==
    /\ phase = "stopping"
    /\ \A w \in Workers : pc[w] = "exited"
    /\ index' = Dumped
    /\ phase' = "renamed"
    /\ UNCHANGED <<data, binlog, tst, rpos, locks, locals, env, history>>

\* The process is gone, with everything that was only in memory.
Vanish ==
    /\ phase' = "down" /\ tst' = NoKeys /\ rpos' = 0
    /\ mutex' = Nil /\ wrlock' = Nil /\ readers' = {}
    /\ pc'    = [w \in Workers |-> "idle"]
    /\ req'   = [w \in Workers |-> NoReq]
    /\ todo'  = [w \in Workers |-> << >>]
    /\ off'   = [w \in Workers |-> 0]
    /\ tmp'   = [w \in Workers |-> Junk]
    /\ got'   = [w \in Workers |-> {}]
    /\ msg'   = [w \in Workers |-> "none"]
    /\ floor' = [w \in Workers |-> NoKeys]

\* dump_tst removes the binlog and main returns.
RemoveBinlog ==
    /\ phase = "renamed"
    /\ binlog' = << >>
    /\ Vanish
    /\ UNCHANGED <<data, index, env, acked, settled>>

\* The process is killed.  Whatever it handed to write() stays; a write that
\* was going on may leave a part of its bytes.
Crash ==
    /\ phase # "down"
    /\ ncrash < MaxCrashes
    /\ ncrash' = ncrash + 1
    /\ data' \in {data} \cup {Append(data, Junk) : w \in {v \in Workers : pc[v] = "data"}}
    /\ binlog' \in {binlog} \cup {Append(binlog, Torn) : w \in {v \in Workers : pc[v] = "binlog"}}
    /\ Vanish
    /\ UNCHANGED <<index, now, nreq, acked, settled>>

Tick ==
    /\ now < MaxTime
    /\ now' = now + 1
    /\ UNCHANGED <<disk, process, locks, locals, nreq, ncrash, history>>

-----------------------------------------------------------------------------
WorkerStep(w) ==
    \/ LockWriter(w)  \/ Check(w)  \/ WriteData(w)  \/ WriteBinlog(w)
    \/ LockIndex(w)   \/ UpdateIndex(w)
    \/ RdLock(w)      \/ Search(w) \/ Load(w)
    \/ Reply(w)       \/ WorkerExit(w)

MainStep == Boot \/ ReplayOne \/ ReplayDone \/ DumpIndex \/ RemoveBinlog

Next ==
    \/ \E w \in Workers : WorkerStep(w)
    \/ \E w \in Workers, r \in Requests : Receive(w, r)
    \/ MainStep
    \/ Shutdown
    \/ Crash
    \/ Tick

Spec == Init /\ [][Next]_vars

\* Fairness.  A runnable thread eventually runs, so every worker and main
\* take the steps they can; a client need not send, the operator need not
\* signal, the clock need not advance and nothing has to crash.  Weak
\* fairness is enough for the locks because the number of requests is
\* bounded, so no lock is taken and released for ever.
FairSpec ==
    /\ Spec
    /\ \A w \in Workers : WF_vars(WorkerStep(w))
    /\ WF_vars(MainStep)

-----------------------------------------------------------------------------
(* What the engine guarantees.                                             *)

\* The variables keep to their types.
DiskTypeOK ==
    /\ data \in Seq(Record)
    /\ binlog \in Seq(Entry)
    /\ index \in [Keys -> Nat]

ProcessTypeOK ==
    /\ phase \in Phases
    /\ tst \in [Keys -> Nat]
    /\ rpos \in 0..Len(binlog)
    /\ mutex \in Workers \cup {Nil}
    /\ wrlock \in Workers \cup {Nil}
    /\ readers \subseteq Workers

LocalsTypeOK ==
    /\ pc \in [Workers -> Points]
    /\ req \in [Workers -> Requests \cup {NoReq}]
    /\ todo \in [Workers -> Seq(Keys)]
    /\ off \in [Workers -> Nat]
    /\ tmp \in [Workers -> Record]
    /\ got \in [Workers -> SUBSET (Keys \X Nat)]
    /\ msg \in [Workers -> {"none", "ok", "fail"}]

HistoryTypeOK ==
    /\ now \in Nat /\ nreq \in Nat /\ ncrash \in Nat
    /\ acked \in [Keys -> Nat]
    /\ settled \in [Keys -> Nat]
    /\ floor \in [Workers -> [Keys -> Nat]]

TypeOK == DiskTypeOK /\ ProcessTypeOK /\ LocalsTypeOK /\ HistoryTypeOK

\* No thread walks the tree while another changes it.  The commands that only
\* read it under g_writer_lock (cas, delete, incr, decr) count: they take no
\* reader lock and rely on every change being made under that mutex as well.
IndexIsolation ==
    \A w, v \in Workers :
        pc[w] = "index" /\ v # w => pc[v] \notin {"index", "search", "check"}

\* An offset that is in the tree, the index file or the binlog points at a
\* complete record, written for that key: no crash and no interleaving of the
\* data file's and the binlog's appends makes it name another value or a
\* half-written one.  An incomplete binlog entry is only ever the last, and
\* is gone before a worker appends behind it.
Owns(k, o) == o > 0 => o \in 1..Len(data) /\ data[o].key = k

TreeOwned  == \A k \in Keys : Owns(k, tst[k])
IndexOwned == \A k \in Keys : Owns(k, index[k])

EntryOwned(i) == binlog[i].key \in Keys /\ Owns(binlog[i].key, binlog[i].off)

BinlogOwned ==
    \A i \in 1..Len(binlog) :
        \/ EntryOwned(i)
        \/ binlog[i] = Torn /\ i = Len(binlog) /\ phase \in {"down", "replay"}

RecordsOwned == TreeOwned /\ IndexOwned /\ BinlogOwned

\* While the server runs, a restart would rebuild the tree it has: the only
\* difference is the one key whose binlog entry is written and whose tree
\* node is about to be.  During a replay the tree is what the entries
\* replayed so far give.
Pending(k) ==
    \E w \in Workers : /\ pc[w] \in {"wrlock", "index"}
                       /\ Key(w) = k
                       /\ Restarted[k] = off[w]

RecoveryExact ==
    /\ phase \in {"up", "stopping", "renamed"} =>
         \A k \in Keys : tst[k] = Restarted[k] \/ Pending(k)
    /\ phase = "replay" => tst = Recovered(rpos)

\* A value that became visible is never lost: whatever files a crash or a
\* clean stop leaves, a restart finds it or a later one, unless a deletion of
\* the key was logged after it.
AckedDurable ==
    \A k \in Keys : acked[k] > 0 => Restarted[k] >= acked[k]

\* A value that was replaced or deleted does not come back, not even by
\* replaying the binlog over an index file that already contains it (the
\* crash between dump_tst's rename and its remove).
NoResurrection ==
    \A k \in Keys :
        LET o == Restarted[k] IN o = 0 \/ o >= settled[k]

\* A get or a scan, which holds no lock between its look at the tree and its
\* reply, never returns a value that had been replaced or deleted before the
\* request came in.
ReadsFresh ==
    \A w \in Workers : \A e \in got[w] : e[2] >= floor[w][e[1]]

\* The step in which w changes the tree.
Commits(w) == pc[w] = "index" /\ pc'[w] # "index" /\ phase' = phase

\* When a cas changes the tree, the key still carries the sign the client
\* sent: nobody got in between the comparison and the store.
CasUnaltered ==
    [][\A w \in Workers :
         Commits(w) /\ req[w].op = "cas" => tst[Key(w)] = req[w].sign]_vars

\* incr and decr lose no update: the number that enters the tree is the one
\* it replaces plus or minus the delta.
CountExact ==
    [][\A w \in Workers :
         Commits(w) /\ req[w].op \in {"incr", "decr"} =>
             /\ tst[Key(w)] > 0
             /\ data[off[w]] = Counted(req[w], data[tst[Key(w)]])]_vars

\* A record is in the data file, and its offset is not yet in the binlog.
Reserves(w) == pc[w] = "binlog" /\ off[w] > 0

\* The files together implement the map DurableMap describes; the commit
\* point of a put or a deletion is its binlog entry.
Durable == INSTANCE DurableMap WITH
    m    <- Restarted,
    top  <- Len(data),
    open <- \E w \in Workers : Reserves(w)

ImplementsDurableMap == Durable!Spec

\* Every command comes to an end: no worker waits for a lock for ever.
CommandsEnd == \A w \in Workers : ~Resting(w) ~> Resting(w)

\* A signal brings the server down with its tree dumped.
StopsCleanly == phase = "stopping" ~> phase = "down"

\* Whatever state the files were left in, the server comes up again.
ComesUp == phase = "down" ~> phase = "up"

\* Nobody waits for ever: not a command for a lock, not main for the workers,
\* not the next start for what the last one left behind.
Progress == CommandsEnd /\ StopsCleanly /\ ComesUp

-----------------------------------------------------------------------------
(* The inductive invariant behind the safety properties.  TstStoreProofs   *)
(* shows that every step preserves it.                                     *)

Holding == {"check", "data", "binlog", "wrlock", "index"}

\* A lock is held by the worker whose next call is inside it.
LockInv ==
    /\ \A w \in Workers : mutex = w <=> pc[w] \in Holding
    /\ \A w \in Workers : wrlock = w <=> pc[w] = "index"
    /\ \A w \in Workers : w \in readers <=> pc[w] = "search"
    /\ wrlock # Nil => readers = {}

\* No worker is at work before main started it or after main joined it, and a
\* replay has not gone past an incomplete entry.
PhaseInv ==
    /\ phase \notin {"up", "stopping"} => \A w \in Workers : Resting(w)
    /\ \A i \in 1..rpos : binlog[i] # Torn

\* What a worker's locals hold at each of its calls.
Frame(w) ==
    /\ Resting(w) <=> req[w] = NoReq
    /\ Resting(w) => off[w] = 0
    /\ ~Resting(w) /\ pc[w] # "reply" =>
           todo[w] # << >> /\ (req[w].op \notin GetOps => Len(todo[w]) = 1)
    /\ pc[w] \in {"rdlock", "search"} => req[w].op \in ReadOps
    /\ pc[w] = "load"  => req[w].op \in GetOps /\ off[w] > 0 /\ Owns(Key(w), off[w])
    /\ pc[w] = "lock"  => req[w].op \in WriteOps \cup GetOps /\ off[w] = 0
    /\ pc[w] = "check" => req[w].op \in WriteOps \ {"set"} /\ off[w] = 0
    /\ pc[w] = "data"  => req[w].op \in PutOps
    /\ pc[w] \in {"binlog", "wrlock", "index"} =>
           /\ off[w] > 0 <=> req[w].op \in PutOps
           /\ Owns(Key(w), off[w])

\* What cas, incr and decr found in the tree is still there when they change
\* it.
Decided(w) == pc[w] \in {"data", "binlog", "wrlock", "index"}

Decision(w) ==
    /\ Decided(w) /\ req[w].op = "cas" => tst[Key(w)] = req[w].sign
    /\ Decided(w) /\ req[w].op \in {"incr", "decr"} =>
           /\ tst[Key(w)] > 0
           /\ tmp[w] = Counted(req[w], data[tst[Key(w)]])
           /\ pc[w] # "data" => data[off[w]] = tmp[w]

\* Every conjunct is needed to show another one preserved.
IInv ==
    /\ TypeOK
    /\ LockInv
    /\ PhaseInv
    /\ RecordsOwned
    /\ \A w \in Workers : Frame(w) /\ Decision(w)

-----------------------------------------------------------------------------
(* The inductive invariant behind what survives and what is fresh.  It     *)
(* holds together with IInv; TstStoreProofs shows that every step          *)
(* preserves it.                                                           *)

\* The command is in the binlog and not yet in the tree.
InFlight(w) == pc[w] \in {"wrlock", "index"}

\* What a restart would rebuild, compared with the tree and the index file.
RestartInv ==
    /\ Restarted \in [Keys -> Nat]
    /\ phase \in {"up", "stopping", "renamed"} =>
         \A k \in Keys : \/ tst[k] = Restarted[k]
                          \/ \E w \in Workers : InFlight(w) /\ Key(w) = k
    /\ \A w \in Workers : InFlight(w) => Restarted[Key(w)] = off[w]
    /\ phase = "replay" => tst = Recovered(rpos)
    /\ phase # "replay" => rpos = 0
    /\ phase = "renamed" => index = tst

\* Signs only grow: nothing settled is newer than the data file, and a key's
\* value in the tree is none that was replaced or deleted.
AgeInv ==
    /\ \A k \in Keys : acked[k] <= settled[k] /\ settled[k] <= Len(data) + 1
    /\ \A w \in Workers, k \in Keys : floor[w][k] <= settled[k]
    /\ phase \in {"up", "stopping"} =>
         \A k \in Keys : tst[k] = 0 \/ tst[k] >= settled[k]

\* The record a worker has written is newer than what its key had, and the
\* last one in the file until it is in the binlog; the record it is about to
\* read is no older than its request allows, and it starts with an empty reply.
FrameAge(w) ==
    /\ pc[w] \in {"binlog", "wrlock", "index"} /\ off[w] > 0 => off[w] >= settled[Key(w)]
    /\ pc[w] = "binlog" /\ off[w] > 0 => off[w] = Len(data)
    /\ pc[w] = "load" => off[w] >= floor[w][Key(w)]
    /\ Resting(w) => got[w] = {}

DurableInv ==
    /\ RestartInv
    /\ AgeInv
    /\ \A w \in Workers : FrameAge(w)
    /\ AckedDurable /\ NoResurrection /\ ReadsFresh

\* Both invariants: every state a proof starts from.
Inductive == IInv /\ DurableInv

-----------------------------------------------------------------------------
(* What the client library's documentation says and the code does not do.  *)

\* A worker that found a record expired removes the key only if its record is
\* an expired one.  ("We default to 0 == cache forever.", client/
\* pytst.py:553.)
ExpiryRemovesOnlyExpired ==
    [][\A w \in Workers :
         Commits(w) /\ req[w].op \in GetOps /\ tst[Key(w)] > 0 =>
             IsExpired(data[tst[Key(w)]], now)]_vars

=============================================================================
