# A verification of tstdb

tstdb is a small persistent key-value server: memcached's text protocol in
front of a ternary search tree whose values live in an append-only file. This
directory holds TLA+ models of version 2 (`src/v2`): its engine, its tree, its
connections, the life of its process and its Python client; models of version
1 (`src/v1`); the TLC configurations that check them on small instances; and
TLAPS proofs about the storage engine, with and without failing writes, the
tree, the connections, the process, the client, and version 1's store and
server.

Paths below are relative to `src/v2/src` unless they say otherwise.

## 1. The system

| Component | Source | State | Operations |
|---|---|---|---|
| Main thread | `tstserver.c` `main`, `init_data`, `do_accept`, `exit_hook` | phase of the process, `listen_fd`, `g_shutdown_flag` | load the files, start the workers, accept, stop, dump |
| Workers (5) | `handle_core`, `handle_input`, `handle_output` | one epoll set each, `g_io_table[worker]` | wait for events, receive, serve, send, close |
| Connections | `has_header` ... `fix_buf_len`, `append_*`, `destroy_*` | receive and send lists, `header_len`, `body_len`, `in_buf_len` | recognise commands in a byte stream, queue replies |
| Buffer pool | `buffer_pool.c` | one array of buffers per worker with a free list | `alloc_buf`, `free_buf` |
| Commands | `cmd_process.c` | `g_writer_lock`, `g_reader_lock`, the worker's frame | set, cas, get(s), delete, incr, decr, prefix, less, greater |
| Files | `cmd_process.c`, `tstserver.c` `reload_index`, `replay_binlog`, `dump_tst` | data file, binlog, index file | append, replay, truncate, rename, remove |
| Tree | `tst.c` | node array, free list in it, `key_buf` of a scan | put, get, delete, three scans |
| Python client | `client/pytst.py` | a socket, `deaduntil`, `cas_ids` | set, cas, get(s), delete, incr, the multi calls; retry, timeout, blacklist |
| Script | `src/v2/tst.sh` | none | signal every second until the process is gone |
| Version 1 store | `src/v1/tst.c` | node array, data file and hint file with their buffers | open, close, put, get |
| Version 1 server | `src/v1/tstserver.c` | `dataTable`, one epoll set | accept (main thread), get, set, delete (the other thread) |
| Benchmarks, tests | `test/`, `test_tst.c` | none | load generators, read for what they expect |

**How they interact.** The main thread accepts a connection, writes a slot of a
worker's `g_io_table` and registers it with that worker's epoll set; from then
on only that worker touches it, until it closes the descriptor, when the number
may come back through the main thread at any time. A worker reads a whole
command out of the receive list and calls a function of `cmd_process.c`, which
works on state shared by all workers: the tree, the data file, the binlog and
two locks. `g_writer_lock` (a mutex) is held by whoever changes anything, from
the first look at the tree to the last change; `g_reader_lock` (a rwlock) is
taken for writing around the change of the tree only, and for reading around
lookups and scans. A get follows the offset it found with no lock held. The
reply goes to the send list of the connection. On a signal the main thread
closes the listening socket and the epoll sets, joins the workers, writes the
index file and removes the binlog. The signal handler runs on the main thread,
wherever that is, as often as the script sends a signal. A client has one
connection, on which it waits for the reply to each call; it closes it when a
reply does not come and does not try again for 30 seconds, except that set, cas
and get are sent once more when the connection ends.

In version 1 the main thread accepts, a second thread does everything else,
and the signal handler closes the store under it.

**What is hard here.**

* Two locks that cover different parts of a command; readers of the tree that
  hold only the mutex (cas, delete, incr, decr) or only the rwlock.
* Decisions made early and used late: the sign cas compared, the number incr
  read, the record get found expired.
* Two append-only files and a dump, a crash between any two writes or inside
  one, a replay over an index file that already contains the binlog.
* Nodes of the tree that refer to each other by number, with a parent number
  that is only sometimes kept up to date, and a scan that builds keys in one
  shared buffer.
* Commands split and joined by TCP at any byte; lengths kept between arrivals;
  edge cases of level-triggered epoll; slots that are used again.
* A signal handler that closes a descriptor by its number and logs.
* Requests that are repeated, given up or left on a closed socket, and replies
  that are told apart by their order only.
* Buffered files that are read through another FILE and closed under a writer
  (version 1).

`PROJECT.json` lists each of these at its line, with the property that covers
it or the reason none does.

**What makes each part correct.** The engine: exclusive access to the tree,
atomic cas and incr, nothing acknowledged is lost, nothing deleted comes back,
reads are not stale, commands end. The tree: it is a map; every node is in the
tree or on the free list; scans return exactly the keys they should. The
connections: the commands handled are those sent, the bytes sent back are
their replies, no buffer is lost, everything whole is answered. The process: it stops
when it is told to, and its files are its own. The client: a reply belongs to
its request, success is true and final, a request counts once, a cas replaces
what was fetched, every call returns. Version 1: what was acknowledged is in
the files after a stop, and only whole values are stored.

## 2. Modules

| Module | What it is |
|---|---|
| `DurableMap` | abstract specification: a map from keys to signs, where a sign enters once |
| `TstStore` | the engine: commands, locks, files, boot, replay, stop and crash |
| `TstStoreProofs` | theorems about `TstStore`: types, isolation, atomicity, what survives, what a read sees, and that it implements `DurableMap` |
| `MCTstStore` | client traffic for its instances |
| `TstIndex` | the node array of `tst.c`: put, get and delete |
| `TstIndexProofs` | theorems about `TstIndex`: lookups, the free list, the shape of the tree |
| `TstScans` | `TstIndex` with the three scans |
| `MCTstIndex` | key sets for its instances |
| `TstConn` | the connections of one worker and its buffer pool |
| `TstConnProofs` | theorems about `TstConn`: framing, replies, buffers |
| `MCTstConn` | commands for its instances |
| `TstFaults` | `TstStore` with writes that fail |
| `TstFaultsProofs` | theorems about `TstFaults`: what a failed write leaves alone |
| `TstLife` | the process: start, accept, signals, stop, descriptors, the script |
| `TstLifeProofs` | theorems about `TstLife`: descriptors, what a signal may close |
| `TstClient` | the Python client and a server that stops and starts |
| `TstClientProofs` | theorems about `TstClient`: replies, results, retries |
| `V1Store` | version 1's tree, files and stop |
| `V1StoreProofs` | theorems about `V1Store`: the tree, the two files, what survives a stop |
| `V1Server` | version 1's connections |
| `V1ServerProofs` | theorems about `V1Server`: slots, replies, stored bodies |
| `MCTstFaults`, `MCTstLife`, `MCTstClient`, `MCV1Store`, `MCV1Server` | values for their instances |

`TstStore` holds the tree as the map `TstIndex` shows it to be (`LookupExact`,
proved for every history in which no deletion goes astray, section 4),
and `TstConn` treats a command as one step with a reply, which is what a
worker's thread makes it for its own connections. `TstClient` composes the
client with what the two promise together: requests of a connection are
executed in order, each at once, and survive a stop. `TstLife` leaves out what
is done with a request and keeps the descriptors, which the others leave out.
`TstFaults` extends `TstStore` and adds steps to it. `V1Server` holds the store
as the map `V1Store` shows it to be.

Operators whose name ends in a suffix after an underscore (`Drop`-style pairs
such as `MutexFree_Ignored` next to `MutexFree`) are variants with a plausible
mistake in them. No specification uses them. For each property there is one
under which the property fails (`PROJECT.json`, "mutants"), which shows that
the run would have found such a mistake.

### TstStore

A worker is a thread with a program point `pc[w]` that names the call it is
about to make. One action is what the code does between two points at which
another thread can be noticed:

| `pc` | Code | Action |
|---|---|---|
| `idle` | a command has been parsed | `Receive` |
| `lock` | `pthread_mutex_lock(&g_writer_lock)` | `LockWriter` |
| `check` | the early look at the tree in cas, delete, incr, decr | `Check` |
| `data` | `ftell`, `fwrite`, `fflush` on the data file | `WriteData` |
| `binlog` | `fwrite`, `fflush` on the binlog | `WriteBinlog` |
| `wrlock` | `pthread_rwlock_wrlock(&g_reader_lock)` | `LockIndex` |
| `index` | `tst_put` or `tst_delete`, both unlocks | `UpdateIndex` |
| `rdlock`, `search` | `pthread_rwlock_rdlock`, `tst_get` or a scan, unlock | `RdLock`, `Search` |
| `load` | reading the record of a get; an expired one goes to `lock` (`delete_expire_value`) | `Load` |
| `reply` | `append_send_data`, the frame is gone | `Reply` |

The process goes through `phase`: `down`, `replay` (`Boot`, `ReplayOne`,
`ReplayDone`), `up`, `stopping` (`Shutdown`, `WorkerExit`), `renamed`
(`DumpIndex`), and `down` again (`RemoveBinlog`, or `Crash` from anywhere). A
crash keeps what was handed to `write` and may leave an incomplete record
(`Junk`) or binlog entry (`Torn`) of the write that was going on.

Abstractions: a data offset is the ordinal of its record; a body is a number; a
scan returns every stored key (which of them is `TstIndex`'s subject); prefix,
less and greater are one operation; the clock is a number that may advance at
any time; an int wraps at `IntMax`. The record read for a key that is not
there is at offset 0, and `node[0].value` is 0 in this build because the array
comes from fresh zero pages.

### TstIndex

The tree is the record `db` with the fields of `tst_db`. Characters are
integers, negative ones included, as `char` is signed here. The state machine
is any sequence of puts and deletions. `damaged` becomes true when a deletion
climbs along a parent number that is not the node's parent: from there on the
array no longer is a tree (section 4) and the model stops.

The recursion of `insert` has one call at each node, like the loop of `search`:
`Visits` is the path both take, `Onward` a step of it, `Grown` the new nodes
`insert` makes below its last one, and `Parented` what `insert` writes into the
nodes of the path on its way back. The loops of `tst_delete` and `remove_node`
are `Climb` and `Rightmost`. All these are functions of the number of turns, so
that theorems can be proved about them.

### TstScans

`Dfs`, `DfsLess` and `DfsGreater` follow the recursions of `tst.c`, which
branch, and thread through them the `key_buf` of the scan, because what one
branch leaves in it can be read by the next. `ScansExact` compares the three
scans with their definition on sets of keys.

### TstConn

One worker with its slots, its epoll set and its pool. A byte is a pair of the
number of its command and its place in it, so framing is checked without any
text. `at` says where the worker is: `wait` (in `epoll_wait`), `input` (in
`handle_input`'s loop), `measured` (there, with the lengths of a command) or `closing` (in `destroy_fd`, between `close` and
`destroy_io_data`).

| Action | Code |
|---|---|
| `Accept` | `do_accept`, `alloc_io_data`, by the main thread |
| `Input`, `EndOfInput`, `NoBuffer` | `append_recv_data`: bytes, the end, or an empty pool |
| `Measure`, `Serve`, `NoBody` | a turn of `handle_input`'s loop: lengths, then the command; `read_body`'s assertion |
| `EndInput` | the loop's end, with the registration for `EPOLLOUT` |
| `Output`, `OutputFails` | `handle_output` |
| `HangUp` | an event that is neither input nor output |
| `Release` | `destroy_io_data` |
| `Send`, `Leave` | the client (external) |

`recv` returns any number of bytes up to a buffer, so the stream is cut up in
every way. A pool is the number of its free buffers; an assertion of
`buffer_pool.c` or `read_body` that fails stops the process (`failed`).
`Accept` may give out a descriptor as soon as it is closed, also to this worker
and before `Release`; `overtaken` records that, and the properties speak of
runs in which it has not happened (section 4 says what happens otherwise).

### TstFaults

| Action | Code |
|---|---|
| `DataKept`, `DataFull` | `fflush` of a record succeeds; or fails, with nothing or a part of it on disk |
| `DataAtZero` | a record that is written to a file without a header |
| `Logged`, `BinlogFull` | `fflush` of a binlog entry succeeds; or fails |
| `LoadRecord`, `LoadGarbage` | a get at an offset where a record begins, or none |
| `DumpWhole`, `DumpFull` | `dump_tst` up to the rename, with an index file that is whole; or short |
| `Ended`, `Killed` | the binlog is removed; the process is killed |

Everything else is `TstStore`'s. The C library drops what it could not flush
(tried out with glibc), and `ftell` then gives the real end of the file again,
so an offset may be given out twice. `head` follows the six bytes "[2012]" that
`init_data` puts before the first record of a new file: they stay in the buffer
until that record is flushed, and if that fails they are lost with it. The file
then begins with the next record, at position 0, which no other part of the
program takes for an offset. A short index file has no node for some keys,
whichever these are, and a start from it does not find them. Reading where no
record begins is a choice between all outcomes: expired, a value, a negative
length. `hurt` holds the keys whose last change failed to be written or logged,
or was logged as a deletion, and those the last dump left out.

### TstLife

`main` says where the main thread is. `owner` maps each descriptor to what it
refers to, and everything that opens one gets the lowest free number, so
that closing `listen_fd` once more closes whatever has its number.

| Action | Code |
|---|---|
| `OpenFile`, `Socket`, `Listen`, `CreateEpoll`, `Spawn` | `init_data`, `socket`, `do_bind_and_listen`, the epoll sets, the workers |
| `ListenFails` | `bind` or `listen` fails, as a signal has closed the socket: `exit(-1)` |
| `Selected`, `Accept`, `AcceptFails`, `SelectFails`, `LoopAgain` | `do_accept` |
| `CloseAll`, `Dump`, `Rename`, `End` | the end of `main`, `dump_tst` |
| `Call`, `Wake`, `TimeOut`, `Handle`, `BatchDone` | `handle_core`, one event after the other |
| `Hook` | `exit_hook`, at any point of `main` |
| `AskToStop`, `Kill` | one signal, or `tst.sh stop` |
| `Connect`, `Send`, `Leave` | clients (external) |

Unless `g_nolog` is set, a signal that comes while `do_accept` logs may find the
lock of `localtime` held by the thread it interrupts; then `main` is `hung`.
`early` records a signal that was handled before start-up had opened all its
descriptors, and `hurt` the files that somebody else than their owner closed.

### TstClient

Each client has a connection with the requests and replies that are on their
way, `sock` (`_Host.socket` is not `None`), `dead` (`deaduntil`), `ids`
(`cas_ids`) and the call it is in, with the requests it still waits for. The
server is an external part: it executes the request at the front, and a stop
loses requests it has not read and replies it has not sent. A socket the client
closed may still be read (`late`). The n-th change of the store has sign n.

| Action | Code |
|---|---|
| `Start`, `StartUnsent`, `StartTooBig`, `StartRefused` | a call sends its requests, or cannot |
| `Receive` | a reply that comes whole: `readline` and what the call makes of it |
| `CutShort`, `GiveUp` | a VALUE line whose value does not come: the stream ends, or `mark_dead` and `None` |
| `Retry`, `RetryRefused`, `RetryEnded`, `Raise` | the stream has ended: `_ConnectionDeadError` |
| `Fail` | `socket.error`: a reset or a timeout, `mark_dead` |
| `Revive`, `DisconnectAll` | `deaduntil` passes; `disconnect_all` |
| `Serve`, `ServeLate`, `LoseLate`, `Stop`, `Boot` | the server |

`calls` and `effects` are histories: what was asked and returned, and what was
done. So is `missed`: the keys of which gets has stored a sign (`Learned`,
`Remembered`) and returned no value for it. If the stream ends inside a value,
`_recv_value` raises `_Error`, but the `expect("END")` in `finally` raises
`_ConnectionDeadError` in its place, so the get is sent once more (`CutShort`,
then `Retry`). If no more comes in time, or a line's end in the value is taken
for that END, the call returns `None` (`GiveUp`).

### V1Store and V1Server

`V1Store` has the node array of `src/v1/tst.c`, concretely, and two FILEs, each
with what is in the file and what is in its buffer. `insert` and `search` go
down the tree in the same way, one call at each node: `Onward` is the call that
one makes next, `LastCall` the last one that has a node, and the rest of a key
is a `Chain` of new nodes below it. A record is two pieces, as
it is written by two calls. One action is one call of the library: `StartPut`,
`WriteHead`, `WriteBody`, `UpdateTree`, `WriteHint`, `Register`, `SendReply` of
the command thread against `Signal`, `Unready`, `FlushData`, `FlushHint`,
`CloseData`, `CloseHint`, `Exit` of the signal handler, or `MainReturns` when
`accept` fails. Buffers may fill at any write. Using a closed FILE or the freed
tree has no lasting effect or ends the process (`Dies`). `ftell` flushes, as in
the C library of the repository's binary (`v2/bin`, GCC 4.1.2 on Red Hat 5,
glibc 2.5); with glibc 2.20 or newer it does not, and the variant
`Ftell_NoFlush` shows what then happens: a get right after a put reads nothing.
A put that a stop has cut off (`cut`) may leave its key without a value, which
no reply has promised.

`V1Server` has the slots of `dataTable` and, as in `TstConn`, bytes that are
pairs of a command and a place. A recv returns any number of bytes up to the
code's limit; a header comes in one piece. What comes while `need_read` is 0 is
matched against the commands, the rest of a body whose length was refused too:
a piece of such a body may read like any command (`InBody` in `Handle`). A
client may leave at any moment, also in the middle of a body. `torn` records
the descriptors on which bytes of a body were taken for something else, because
their slot kept the beginning of an earlier body or because a piece of a refused
one was carried out. Whole values and replies that fit are claimed of the other
descriptors, and of all of them that no value and no body mixes bytes of two
(`Unmixed`).

## 3. The runs

Twelve runs. Nine pass and explore every reachable state of their instance;
three look for a state that a comment, an assertion or the documentation rules
out, and find it.

| Run | Question | Bounds |
|---|---|---|
| `store_files` | Do the files survive? `RecordsOwned`, `RecoveryExact`, `AckedDurable`, `NoResurrection`, that they implement `DurableMap` (`ImplementsDurableMap`), and both inductive invariants (`Inductive`) | 2 workers, 2 keys, 5 commands, 2 crashes, any number of stops |
| `store_faults` | Are readers isolated from writers, and what does a full disk leave alone? `IndexIsolation`, `FaultsContained` | 2 workers, 2 keys, 3 commands, values that expire, two failing writes, a crash, any number of stops |
| `store_live` | Are cas, incr and decr atomic, do readers see fresh values, and does everything end? `CasUnaltered`, `CountExact`, `ReadsFresh`, the liveness of commands, stops and starts (`Progress`), and the inductive invariant `IInv` | 2 workers, 1 key, 3 commands, a value that expires, a crash, any number of stops |
| `store_expiry` | violated: an expired get deletes a live value | 2 workers, 3 commands |
| `index_calls` | Is the array a tree with a free list, and does every scan return what it should? `WellFormed` (types, tree shape, parent numbers), `NodesAccounted`, `LookupExact`, and `ScansExact` for less, greater and both prefix scans | 6 keys on two levels, 8 calls, an array of 2 nodes that has to grow; 10 probes and every limit on all trees of 6 calls |
| `index_free_list` | violated: a node is in the tree and on the free list | 4 keys, 6 calls |
| `conn_serve` | Is the stream framed and answered? `FramedExactly`, `RepliesInOrder`, `PoolAccounted`, `SlotsSound` (types, lengths that agree with the lists, nothing left of an earlier connection), `Progress` (answers arrive, closed connections are freed) | 2 descriptors, 2 connections, 2 commands at a time, buffers of 3 bytes, 5 of them |
| `conn_reuse` | violated: a slot is given away before it is emptied | 1 descriptor, 2 connections |
| `client_calls` | Do replies and results stay true, and do calls return? `Consistent` (types, replies in step with requests, and the rest of the inductive invariant), `AnswersTrue`, `AtMostOnce`, `CasUnaltered`, `ReadsOwnWrites`, `NoLateEffects`, `CallsReturn` | 2 clients with cached ids, 2 keys, 3 calls, two stops or timeouts |
| `life_serve` | Does a signal end a busy server, does `tst.sh stop` end, and does nothing else go wrong? `LifeInv` (types, and the inductive invariant), `FilesIntact`, `NoAcceptAfterStop`, `RequestsRead`, `StopEnds` (`SignalEnds` and `ScriptEnds`) | 2 workers, 2 connections that send for ever, one descriptor too few, any number of signals |
| `v1_store` | Does version 1 find what was put, and keep what it acknowledged? `GetExact`, `StoreSound` (types, files that match the tree), `AckedSurvive` | 3 keys, 3 puts or deletions, any number of gets, a stop, an array that grows |
| `v1_serve` | Is every command answered, and are only whole values stored? `ConnectionsApart` (slots without a connection are empty, replies are of this connection's commands, no bytes of two connections in one value), `StoredWhole`, `Answered` | 3 descriptors, one without a slot, 2 commands, buffers of 5 bytes |

Each module has one type invariant, checked in one run, by itself or as a
part of the invariant named there. A property that is a conjunction has named
parts, so that a violation is read off the state.

**Why the bounds are enough.** *Store:* an interference needs a command that
has decided and one that gets in between, which takes two workers; a third
command of either shows it. Five commands with two crashes and any number of
clean stops allow put, stop, put, crash while dumping, replay, deletion and a
second crash. Values are told apart by their record, so one value per command
is enough. *Full disk:* a put that is lost, a put of another key on the same offset or
at the head of the file, and one that repairs either key are three commands; a
second failing write is the dump after them or the first record after a stop.
`FaultsContained` looks at what a replay of the binlog would rebuild in every
state, and a crash shows what the next commands make of it. What a read returns on a full disk is proved only (`FaultFreshReads`); without faults,
`store_live` has a put, what replaces or deletes it, and a get that has read its
offset before, which are three commands too. *Index:* six keys give branches on two levels, nodes with both
siblings, keys that are prefixes of others; eight calls build all six and
delete two, or build, delete and rebuild, from an array that doubles on the
way. Scans are tried on the trees of six calls (`ScanCalls`), which include
every subset of the keys. *Connections:* a command is at most six bytes and a
buffer three, so headers, line breaks and bodies are cut in every way, two
commands arrive together, a reply takes two buffers, and five buffers run out.
*Process:* two workers share two connections in turn, and one descriptor too
few makes accept fail and succeed again. A connection is made once; it may
send for ever. *Client:* one key has a value when the clients start (`Present`),
so a fetch, a rival's set and a cas are three calls, and so are a call that is
given up, what is left of it, and the next. `MaxTroubles` bounds the stops,
two of which end a retried call, and the timeouts of requests that would still
be served; where no reply can come a timeout is always possible, so
`CallsReturn` does not depend on the bound.
*Version 1:* a stop meets a put at each of its calls; what follows it shows
after the next start. In its server two commands are two bodies whose pieces
alternate, or a body that is cut off and what comes after it.

**Symmetry** is used for workers, in safety runs only. **Deadlock** is checked in
every run but `client_calls`, whose users may make no more calls, and
`v1_serve`, where a client waits for ever if what it sent was taken for
something else (section 4).

**Fairness.** `TstStore`: a runnable thread runs eventually, so each worker
and the main thread take the steps they can; nothing is assumed of clients,
signals, the clock or crashes. Weak fairness is enough for the locks because
the number of commands is bounded: without that bound the rwlock, which lets
new readers pass a waiting writer, can keep a writer waiting for ever, and the
models do not claim otherwise. `TstConn`: every event of a batch is handled,
handlers run to their end, and a socket whose client reads becomes writable.
That the worker does not stop inside a handler is stated with what enables it
written out (`Busy`), because evaluating `ENABLED Serve` is slow. `TstLife`: threads run,
signals are delivered, the script goes on; nothing is assumed of clients. `TstClient`: a client in a call goes
on and a server that is up answers; nothing is assumed of stops. `V1Server`:
its thread takes every event in turn.

## 4. Where code and documentation disagree

*Shown by a run,* whose counterexample TLC prints:

1. *An expired get deletes a live value* (`store_expiry`, `cmd_process.c:192`).
   A get finds a record expired with no lock held; another worker stores a new
   value; `delete_expire_value` takes the mutex and deletes the key without
   looking again.
2. *The free list meets the tree* (`index_free_list`, `tst.c:198`).
   `remove_node` moves a right child and leaves its parent number; a later
   deletion climbs to a freed node, frees it again and leaves the child in the
   tree. Put b, a, c and delete b, c is enough. A put through the child repairs
   the number, so long histories may go well.
3. *A slot is given away too early* (`conn_reuse`, `tstserver.c:503`).
   `destroy_fd` closes the descriptor first and empties the slot afterwards;
   `alloc_io_data` does not reset `in_buf_len`. If the main thread accepts a
   connection with that number for that worker in between, the lists are lost
   to the pool and the new connection inherits a length, so that `has_body` is
   true before the body has come and `read_body`'s assertion fails.

*In the models, as an exception that a property names:*

* A record that does not fit on the disk is dropped, its offset is logged and
  answered with STORED, and the next put gets the same offset
  (`cmd_process.c:299`): a get of the first key may return the second key's
  value.
* The header of a new data file stays in the buffer of its FILE until the first
  record is flushed; if that fails, both are dropped. The next record, of any
  key, begins at position 0 ("0 position not used", `tstserver.c:353`) and is
  logged with it, which means a deletion: it is answered with STORED and there
  is no value (`DataAtZero`).
* A dump that does not fit on the disk is renamed over the index file and the
  binlog is removed all the same (`tstserver.c:383-389`, which logs "dump to temp
  index file [OK]"): whatever keys it leaves out, all of them at worst, have no
  value after the next start. `FaultsContained` shows that keys other than
  those of these three points (`hurt`), and keys written again, are not
  affected.
* A signal during start-up is used up (`tstserver.c:175`): it closes descriptor
  0, or a number that an epoll set gets next, and the server starts and never
  leaves `do_accept` (`early` in `SignalEnds`). The script, which signals
  again, does end it (`ScriptEnds`).
* A signal between `socket` and `listen` closes the socket, so that `bind` or
  `listen` fails and the process ends with `exit(-1)`, without a dump
  (`tstserver.c:229-237`; `ListenFails`). Nothing is lost: the binlog stays.
* The signal handler logs (`tstserver.c:177`), and `localtime` holds a lock if
  that is what it interrupted (`hung` in `SignalEnds` and `ScriptEnds`).
* A second signal may close the index file that is being written
  (`tstserver.c:176`), as its descriptor may by then have the number of
  `listen_fd`; `dump_tst` renames the file and removes the binlog all the same,
  after logging "overwrite index file [OK]" (`tstserver.c:388`). The data file
  and the binlog are never hit once there is a socket, and one signal hits
  nothing (`FilesIntact`).
* A prefix scan in descending order that should return the prefix itself
  returns another key twice (`tst.c:480`), as the name is read from `key_buf`
  after the scan has written over it (`PrefixDescExact` leaves such probes out).
* A client made without `cache_cas=True`, the default, keeps no cas ids and its
  cas is a set (`pytst.py:781`), against "if it hasn't been altered since last
  fetched" (`pytst.py:566-567`).
* With `cache_cas=True`, `_get` stores the cas id of gets when it has read the
  VALUE line (`pytst.py:905`). If the value does not come in time, or the server
  stops in the middle of it and what came has a line's end in it, gets returns
  `None`, and the next cas of the key replaces a value that its caller has never
  seen. `CasUnaltered` holds of the calls of cas before which that has not
  happened since the last gets that went well (`missed`, `Informed`).
* Version 1 does not reset the slot of a connection that ends in the middle of
  a body (`v1/tstserver.c:216`): the next one with its number, which
  `v1/bench.py:19` calls "re connect", inherits it (`torn`).
* Version 1 compares the length of a set with what has come without the end of
  the line (`v1/tstserver.c:298`, "one round enough"): if that comes later it
  is taken for a command (`Whole` in `Answered`).
* Version 1 answers a set whose length it refuses with ERROR
  (`v1/tstserver.c:277-286`) and matches the body that follows, piece by piece,
  against get, set and delete (`v1/tstserver.c:223`, 272, 317): a piece that
  reads like one is carried out and answered (`torn`, `Refused`).

*Met while reading:*

* cas stores the expiry as it is (`cmd_process.c:248`; set adds the time): a
  delta of seconds (`pytst.py:578-579`) is a time in 1970.
* An absolute expiry time (`pytst.py:551-552` allows it) has the clock added
  to it in `cmd_do_set` (`cmd_process.c:295`), overflows an int and never
  expires.
* decr goes below 0 (`cmd_process.c:385`; `pytst.py:467-469` says it is capped).
* greater compares the end of a key with signed characters (`tst.c:390`), so
  it leaves out extensions of its key by a byte of 128 and more.
* A body of more than 1000000 bytes is cut there and its rest is read as
  commands (`tstserver.c:639`); the client sends up to 1024*1024
  (`pytst.py:83-87`), and every later reply is one too late.
* The server has no add, append, prepend and replace: it answers the line and
  the body with an error each, and the client reads one (`pytst.py:509`).
* A cas that was stored, and whose reply a stop has lost, is sent again and
  reported as failed (`pytst.py:801`).
* set_multi does not list the keys whose replies did not come when the
  connection breaks (`pytst.py:717`, against `pytst.py:670`); with a value that
  is too long it waits for a reply too many, until the timeout.
* delete_multi returns 1 when the server cannot be reached (`pytst.py:625`,
  against `pytst.py:366`), and incr 0 (`pytst.py:480-481`).
* A set that is retried while the server is down goes on with a socket that is
  `None` and raises `AttributeError` (`pytst.py:803-804`).
* A set that is repeated, or read late from a closed socket, may overwrite what
  another client stored in between.
* A storage command that cannot be parsed gets no reply.
* `handle_output` uses a failing `send`'s -1 as a length; `handle_input` looks
  at `errno` after a `recv` that returned 0 (`tstserver.c:829`).
* The replay keeps file positions in an int (`tstserver.c:332`): a binlog of
  more than 2 GB is truncated at a wrong place.
* Version 1 finds a key that is only the beginning of others (`v1/tst.c:288`):
  its node has the value -1, the seek fails, and whatever record comes next is
  returned.
* Version 1 drops a second command received with the first, misreads a header
  received in two parts, does not answer what it does not know, takes "gets k"
  for a get of "s", answers a get of several keys for the first only, allows a
  value of the size of its buffer and puts eight bytes before it
  (`v1/tstserver.c:277`), and ends without closing the store when `accept`
  fails.

## 5. What is proved

The theorems hold for any number of workers, keys, requests, connections,
clients and descriptors, keys of any length, any sizes of arrays, buffers and pools, any clock, and any number of crashes, failing writes,
stops and signals, from the assumptions on the constants alone (those of
`TstClientProofs` and two of `V1StoreProofs` have a hypothesis, given below):

| Module | Theorem | Statement |
|---|---|---|
| `TstStoreProofs` | `Invariance` | `Spec => []IInv` |
| | `TypeCorrect` | `Spec => []TypeOK` |
| | `Isolation` | `Spec => []IndexIsolation` |
| | `OffsetsSound` | `Spec => []RecordsOwned` |
| | `CasAtomic` | `Spec => CasUnaltered` |
| | `CountsAtomic` | `Spec => CountExact` |
| | `DurableInvariance` | `Spec => []Inductive` |
| | `RecoveryMatches` | `Spec => []RecoveryExact` |
| | `NothingLost` | `Spec => []AckedDurable` |
| | `NothingComesBack` | `Spec => []NoResurrection` |
| | `FreshReads` | `Spec => []ReadsFresh` |
| | `FilesImplementMap` | `Spec => ImplementsDurableMap` |
| `TstFaultsProofs` | `FaultInvariance` | `FaultSpec => []FaultInv` |
| | `FaultsStayContained` | `FaultSpec => []FaultsContained` |
| | `FaultIsolation` | `FaultSpec => []IndexIsolation` |
| | `FaultFreshReads` | `FaultSpec => []FreshUnlessKilled` |
| `TstLifeProofs` | `LifeInvariance` | `Spec => []LifeInv` |
| | `FilesStayOpen` | `Spec => FilesIntact` |
| | `NothingAcceptedLate` | `Spec => NoAcceptAfterStop` |
| `TstClientProofs` | `ClientInvariance` | `KnownCalls => (Spec => []Consistent)` |
| | `ToldTheTruth` | `KnownCalls => (Spec => []AnswersTrue)` |
| | `NeverTwice` | `KnownCalls => (Spec => []AtMostOnce)` |
| | `OwnWritesRead` | `KnownCalls => (Spec => []ReadsOwnWrites)` |
| | `CasReplacesFetched` | `KnownCalls /\ CacheCas => (Spec => []CasUnaltered)` |
| | `NothingSurfacesLate` | `KnownCalls => (Spec => NoLateEffects)` |
| `TstConnProofs` | `ConnInvariant` | `Spec => []ConnInv` |
| | `CommandsFramed` | `Spec => []FramedExactly` |
| | `RepliesOrdered` | `Spec => []RepliesInOrder` |
| | `BuffersAccounted` | `Spec => []PoolAccounted` |
| | `SlotsAreSound` | `Spec => []SlotsSound` |
| | `BodyFound` | `Spec => [](failed = "read_body" => overtaken)` |
| `TstIndexProofs` | `InvHolds` | `Spec => []Inv` |
| | `TypeCorrect` | `Spec => []TypeOK` |
| | `LookupExactHolds` | `Spec => []LookupExact` |
| | `NodesAccountedHolds` | `Spec => []NodesAccounted` |
| | `WellFormedHolds` | `Spec => []WellFormed` |
| `V1StoreProofs` | `InvHolds` | `Spec => []Inv` |
| | `TypeCorrect` | `Spec => []TypeOK` |
| | `StoreSoundHolds` | `PrefixFree => (Spec => []StoreSound)` |
| | `GetExactHolds` | `PrefixFree => (Spec => []GetExact)` |
| | `PutIsFound` | `Spec => [](LastPut(h.key) # 0 => GetExact)` |
| | `AckedSurviveHolds` | `Spec => []AckedSurvive` |
| `V1ServerProofs` | `ServerInvariance` | `Spec => []ServerInv` |
| | `ValuesWhole` | `Spec => []StoredWhole` |
| | `NothingCrosses` | `Spec => []ConnectionsApart` |

**Isolation and atomicity.** None of these properties is inductive.
`IndexIsolation` speaks of program points, and only the locks keep them apart:
`LockInv` says that a lock is held by exactly the worker whose next call is
inside it. `RecordsOwned` is disturbed by a worker that writes the offset in its
frame into the binlog and the tree: `Frame` says that this offset is of a
complete record of its key, and that a deletion's is 0. That the data file only
grows keeps all of them true; that a replay stops before an incomplete entry
(`PhaseInv`) makes the truncation remove it. `CasUnaltered` needs `Decision`:
from its comparison on, the tree still says what a cas saw, because every change
of the tree is made under the mutex it holds, which is `LockInv` again.
`CountExact` follows the number from the tree into `tmp` and into the record in
the same way. `IInv` is the conjunction, each conjunct of which is used to
preserve another. There is one lemma per action, `NextInv` puts them together,
and the theorems follow with temporal logic.

**Durability and freshness.** These speak of `Restarted`, the map that the index
file and the binlog would give if the process ended now, so the proof first
says what each write does to that map. `Recovered(n)`, the map after n entries,
takes for each key the last entry that mentions it; that there is a last one
follows from the well-foundedness of the naturals (`LastPosition`), and from it
that one more entry changes one key (`RecoveredOneMore`) and that an incomplete
one at the end changes none (`TornChangesNothing`). `ReplayDoneRestarted`,
`DumpIndexRestarted` and `RemoveBinlogRestarted` then show that cutting off an
incomplete entry, renaming the new index file while the whole binlog is still
there, and removing the binlog all leave the map as it was.

`DurableInv` adds to the properties what keeps them true. `RestartInv` compares
the tree with `Restarted` in every phase: they differ at most at the key of the
one worker between its binlog entry and its change of the tree. Without it
nothing would say that the index file a stop writes is the map of the binlog it
removes. `AgeInv` bounds the histories by the data file, which is why a record
that is appended is newer than whatever was acknowledged. `FrameAge` carries
that fact from the append to the binlog entry and the change of the tree, and,
for a get, from the lookup to the read it makes with no lock held: the lookup
finds a value no older than what was settled when the request came, and records
are never overwritten. `RecoveryExact` restates a part of `RestartInv` and is
not assumed. `Inductive` is `IInv /\ DurableInv`.

**Refinement.** Under the mapping `m <- Restarted`, `top <- Len(data)` and
`open <-` "some worker has a record that no binlog entry names yet",
`StepRefines` shows a step of the engine to be a step of `DurableMap` or a
stutter: a record is `Reserve`, a binlog entry `Publish` or `Remove`, a crash
`Lose`, and everything else, the replay, the dump and the change of the tree
included, a stutter. So the commit point of a command is its binlog entry,
wherever the process ends.

**A full disk.** `FaultInv` has three parts. `ShapeInv` (types, locks, phases, the
names in the binlog, the frames of the workers but for what their offsets refer
to) is preserved by steps that write and steps that fail alike, and gives
`IndexIsolation`. `ContentInv` says the rest for the keys that are not `hurt`:
`Written`, that the offset a worker is about to publish is a record of its key
and newer than what the key had; `FaultRestart`, `RestartInv` for those keys.
`HeadInv` says that only an empty file can be without its header: so there is
one record at most that begins at position 0, and its key joins `hurt` with it
(`DataAtZero`). `DumpFull` adds the keys its index file lacks, of which
`FaultRestart` then says that the file has no value rather than a wrong one.
That `ftell` gives an offset out twice is why it cannot say more of the others:
a record may be there that the binlog and the tree attribute to a hurt key, but
never to one that is not (`FaultsContained`). As long as nobody kills the
server, no key reads older than its requests allow, hurt or not
(`UnkilledInv`): the tree is not rebuilt from the binlog, and the second owner
of an offset came later. After a crash a hurt key may go back, which is why
`FreshUnlessKilled` has `ncrash = 0`.

**The process.** `LifeInv` follows descriptors. While files and epoll sets are
opened, everything above the last one is free, so each open finds a number
(`StartOK`); an epoll set keeps its number unless that was `listen_fd`'s
(`EpollsOK`); no two connections share one (`ConnsOK`). `ListenOK` says what the
number in `listen_fd`, which a second signal closes again, may have become:
neither a connection, nor a file of `init_data` once there is a socket. Both
theorems are a look at one step from there.

**The client.** `Consistent` is inductive. A client and its server keep no
record of what is under way, so `InStep` relates the two queues of a connection
to the requests the call still waits for, and `OneCalls` says that these are of
one call, in its order. A request left on a closed socket is of a call that is
over and has not succeeded (`LateOK`): with it `NoLateEffects` is a look at one
step. Requests that are not sent again, and are on their way, have not been executed
(`Unserved`); of the others, a cas that is repeated finds its sign used up. A reply that is under way may be overtaken by what other clients do, so
`Truthful` says of it what stays true: a set was done, a key deleted is gone or
newer, a value read is not older than what the client was told to have set
(`NotOlder`). The hypothesis `KnownCalls` is that no call is append, prepend,
add or replace: the server does not know them and answers each twice (section
4), so that after one nothing is in step. `CasUnaltered` needs `CacheCas`,
without which a cas is a set, and leaves out the calls of cas made after gets
has missed a value (`Informed`, section 4): `CacheOK` says that a cached sign is
that of the value last returned except for the keys in `missed`, and `SignOK`
carries that into each call of cas.

**The connections.** `ConnInv` compares a slot with a stream. `Unlost`: the bytes
in the receive list and those on the wire are the commands sent and not handled,
from the first byte of the first one, and `in_buf_len` is what the list holds.
`Known` or `Unknown`: the lengths in the slot are those of this command, or none
has been found. From these follow that the first line break is the one that
ends its header, whatever its body contains (`FirstLine`), that the header is
recognised (`ParsedIs`), and that once `has_body` goes by the number of bytes,
what is taken out of the list is the command and what is left begins with the
next (`WholeIs`): so `Serve` preserves `Unlost` with one command fewer.
`Answered` says of the replies what `Unlost` says of the commands; `Partial`,
that an unserved connection holds less than a command, is what `handle_input`
establishes before it returns. `Ending` is what `destroy_fd` relies on for the
next connection of the slot: `destroy_io_data` resets `in_buf_len` only if there
is a list, so a list that is empty must come with a length that is 0, or, after
quit, with one that `fix_buf_len` then makes 0. All of this is claimed while no
slot has been given away too early (`overtaken`); the types and `pool + InUse <=
PoolSize` hold in any case. `Accept` is the only step that may break the rest,
and `BodyFound` says the converse of finding 3 (section 4): no other order of
events makes `read_body`'s assertion fail. Lists are sequences of sequences of
any length: `DropIs`, `ChunksIs` and `ExtendedIs` say what taking bytes from one
and appending a reply to one do, `FlattenConcat` and `SumChange` what the
community modules' folds are. `DescriptorsAssumption` (the descriptors are
finitely many, as `g_io_table` has `MAX_EPOLL_FD` slots) makes the sum of all
lists a number.

**The tree.** That a lookup is right is not inductive: a deletion moves nodes
that other keys are found through. `Inv` says that there are a set of nodes, a
label and a domain for each of them, and a list, such that (`State`) the label
is the key that ends at the node and the domain the nodes below it (`Shape`);
the list is the free list and has the other nodes (`FreeList`); left and middle
children know their parents (`Known`); no node is dead (`Alive`); and a node's
value is what the map has for its label, every key of the map being a label
(`Holds`). No variable holds the labels, so the invariant claims that they
exist, and each step has to say what they are afterwards. `Way` at a node sends
a key to the domain in which its label is, so that a search comes to the node
with the key's label or to where it would be (`OnPath`); the labels on a path
are distinct, so it ends within as many turns as there are nodes.

`insert` adds one leaf after the other: `Place` is where one may be made,
`Leaved` what `Leaf` writes, and a leaf joins the domains of the nodes that
the search has passed (`WithLeaf`). Until the value is written the newest node
is empty, which is why `Alive` has one exception. `remove_node` takes one node
out: its label goes, and the domain of the right child joins those of the nodes
along which the loop finds the largest node of the left one (`Chain`,
`WithoutBelow`). That this keeps the search order is
`RelinkedIs`, with cases for which of the children there are and where the node
hangs. `TurnIs` is one turn of `tst_delete`'s loop: `Line` says that the nodes
still ahead lead to the root and know their parents, as they do when
`ClimbsAstray` is false, and `Keeps` that a removal at one node leaves those
above it as they are. So a parent number that a removal leaves wrong (section
4, finding 2) harms nothing until a deletion climbs along it, and `WellFormed`
names the one place where it can be, a right child.

For `NodesAccounted` and `WellFormed`, `Reached`, a recursive function on sets
of nodes, is shown to be the least set that the links do not leave (`Closure`),
by well-founded induction on the nodes not reached yet; the nodes below one are
then its domain, and `Freed`, which follows the list as often as there are
nodes, is the list of `FreeList`.

**Version 1's server.** `ServerInv` says, of a descriptor that is not torn, that
what its slot holds and what is on its way are two parts of one command, the one
its client waits for. `HeaderNext`: where a header is on its way, no body is
being read and nothing was sent behind its command. `BodyUnderWay`: what has
been read of a body is its beginning with the stamp before it, what is on its
way continues it byte by byte, `need` is its length and three, and the key is
its command's. `ReplyDue` and `RepliesSuit`: the reply in the slot is one to
the command in `waits`, and so is every one that has gone out. Each holds only
because of the others: the value stored when a body is complete is whole because
what came is what was on its way, and the reply that follows fits because the
body is that of the command the client waits for. Torn descriptors are left
with `Sources`: every byte in their slot and on their way was sent on them, so
that whatever they store is of one descriptor (`StoreSources`) and is not taken
for a value of another one. `Unmixed` follows from the two. The pieces of a body are
sequences of any length; `Split`, `FirstPiece` and `JoinedBody` say what the
calls of `recv` and `memcpy` do to them.

**Version 1's store.** The proof has three layers. *The tree*: `Labelled` gives
every node the characters that lead to it, so `Tree` says that a node is reached
by one beginning of a key only; a labelling is a witness, no variable holds it.
A call of `insert` or `search` stays where its label is the beginning of its key
(`OnPath`), and goes to a node further on in the array, as every link does (`Sound`),
so that it ends (`StepRank`, `LastOnPath`). From these follow what `Put`
makes of each of its three cases (`PutFirst`, `PutAtNode`, `PutBelow`), and
`PutIs`: the key finds what was put, and every other key what it found.
`LoadedIs` carries that over the lines of the hint file: a key finds what its
last line says. Recursive functions over a key, a count or a file are unfolded
with `WalkExists` and `CountedExists`, which are proved by well-founded
induction on the naturals.
*What is right*: `EntryRight` says of what a key finds in the tree, and
`LineRight` of its last line in the hint, that they lead to the key's last put
that has reached the tree, through a record that is whole, in the file and the
buffer taken together. Both survive a file that grows at its end (`Grows`) and puts that
are not the key's (`SameFor`), which is all that most steps do to them.
*The stop*: `Stops` says what each step of `tst_close` leaves in the buffers and
that the put it interrupts is cut off, and `PutUnderWay` where the put's record
is as long as its line can still come before the last flush (`InTime`). So
`UpdateTree` and `WriteHint` publish an offset at which a whole record is, or
that of a key that is cut off; and a process that dies loses only lines of such
keys (`LinesLost`).

`PrefixFree`, that no key is the beginning of another, is a hypothesis where the
code needs it: such a key, when it was never put, has a node with the value
-1, at which `tst_get` reads whatever comes next (section 4), so that neither `GetExact` nor
`StoreSound` holds for it. `EntryRight` allows for that node (`Unset`), which is
why `AckedSurviveHolds` and `PutIsFound`, which speak of keys that were put,
need no hypothesis. The keys of the run `v1_store` satisfy it.

**What TLC says of the invariants.** `store_live` checks `IInv`, `store_files`
`Inductive`, `life_serve` `LifeInv` and `client_calls` `Consistent`, so that TLC
and the proofs speak of the same formulas. `FaultInv`, `ServerInv`, `ConnInv` and
`Inv` of `V1StoreProofs` were checked before they were proved: the first on the instance of `store_faults`
(6.6 million states), the second on that of `v1_serve`, the third on those of `conn_serve`
and `conn_reuse` and with three commands, the fourth on that of `v1_store` (3.0
million states, with `Sound` for `Tree`, whose labelling TLC cannot guess) and
with keys that are beginnings of others. Of the `Inv` of `TstIndexProofs`, whose
labels and domains TLC cannot guess either, `index_calls` checks what follows
from it: the types, the search order, the parents, the free list and the
lookups.

**Only model-checked:** `ScansExact`, because the scans are branching
recursions, written as RECURSIVE operators, about which the prover cannot
reason, and all liveness, which is out of the prover's reach.

## 6. What is not modelled

* A binlog entry that is cut off by a full disk in the middle of the file (an
  entry is some 20 bytes, so this takes a block that ends inside one), and incr
  and decr of a key whose record is missing.
* A node that a short dump has written in part, and an index file that lacks
  even `tst_db`: `reload_index` then uses what `malloc` left there
  (`tstserver.c:294-297`). In the model a key's node is in the file or not.
* A crash of the machine. The code flushes to the kernel and never syncs, so
  only a crash of the process keeps what was written.
* The width of file positions (the replay keeps them in an int).
* The client's distribution over several servers, its statistics and
  `flush_all`, which the server does not know, and how values are pickled and
  compressed.
* The log calls outside `do_accept` as places where a signal may hang.
* Logging, option parsing and the wording of replies.
* A `recv` that fails with `EAGAIN` (epoll reports input only when there is
  some, and only one thread takes it) and a failing `send` on a full buffer.
* A line that ends in "\n" alone: clients send "\r\n".
* A kill of version 1: nothing in it repairs its files. Its pipelined commands
  and split headers, which it does not understand, and a piece of a refused body
  that begins like a set and has no line's end, where `strstr` returns `NULL`
  (`v1/tstserver.c:287`). Replies to pieces of a refused body that come when
  the client waits for nothing are not kept for its next command.

## 7. Plan

Done: the engine, with its isolation, atomicity, durability and refinement
proved, and its faults; the tree; the connections; the process; the client;
version 1. The safety of the tree but for its scans, of the process, the
connections, the client, the faults and version 1's store and server is proved. What would come next:

1. An abstract channel that `TstConn` implements: commands in, the replies out,
   in order.
2. `TstFaults` with binlog entries that are cut off and commands that read
   records.
3. The scans with an explicit stack in place of the recursion, and `ScansExact`
   proved with the labels and domains of `TstIndexProofs`.
