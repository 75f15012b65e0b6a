------------------------------- MODULE V1Store -------------------------------
(***************************************************************************)
(* Version 1's store (src/v1/tst.c), as its server uses it: one thread     *)
(* that runs the commands, and the main thread, which opens the store and  *)
(* closes it in a signal handler while that thread may be anywhere.        *)
(*                                                                         *)
(* What is written stays in the buffers of two FILEs until ftell, fflush   *)
(* or fclose, or until they are full; ftell flushes in the C library the   *)
(* repository's binary was built with.  A file is a sequence of pieces: a  *)
(* record is a head (two lengths and the key) and a body (the value), and  *)
(* an offset is the place of a head, 1 for the first, which the number at  *)
(* the start of the file keeps from being 0.  The process is not killed.   *)
(***************************************************************************)
EXTENDS Integers, Sequences, FiniteSets, SequencesExt

CONSTANTS
    Keys,           \* sequences of characters
    InitialCap,     \* nodes allocated at the start (409600 in the code)
    MaxCommands,    \* bound: commands
    MaxStops        \* bound: stops

ASSUME KeysAssumption ==
    /\ Keys \subseteq Seq(Int) \ {<< >>}
    /\ InitialCap \in Nat \ {0}
    /\ MaxCommands \in Nat /\ MaxStops \in Nat

VARIABLES
    main,           \* where the main thread is
    db,             \* the tree
    ready,          \* db->ready
    data, dataBuf,  \* the data file, and what is buffered for it
    hint, hintBuf,  \* the hint file, and what is buffered for it
    pos,            \* the position of read_file_ptr
    epoll,          \* whether ep_fd is open
    h,              \* the thread that runs the commands
    replies,        \* the puts whose reply is registered and not yet sent
    stops,
    \* history
    puts,           \* every tst_put that was called
    cut             \* the keys whose last put was cut off by a stop

vars == <<main, db, ready, data, dataBuf, hint, hintBuf, pos, epoll, h, replies,
          stops, puts, cut>>

files == <<data, dataBuf, hint, hintBuf>>

\* A value is "big" (more than 8 bytes), "small" (kept in the node: the flag
\* and the expiry of an empty value) or "gone" (the empty one of a deletion).
Kinds == {"big", "small", "gone"}

Garbage == [kind |-> "garbage", id |-> 0]
Gone == [kind |-> "gone", id |-> 0]

-----------------------------------------------------------------------------
(* The tree: insert and search on an array of nodes.                       *)

Ways == {"left", "mid", "right"}

Blank(c) == [c |-> c, link |-> [way \in Ways |-> 0], value |-> -1, small |-> 0]

EmptyTree == [root |-> 0, cap |-> InitialCap, node |-> << >>]

Size(t) == Len(t.node)

IsFull(size, cap) == size >= cap - 1

\* The array after n nodes more, each of which may find it full.
Capacity(t, n) ==
    LET cap[j \in 0..n] ==
          IF j = 0 THEN t.cap
          ELSE cap[j - 1] * (IF IsFull(Size(t) + j - 1, cap[j - 1]) THEN 2 ELSE 1)
    IN  cap[n]

\* Which way a key goes at a node, by its character i.
Way(n, k, i) ==
    CASE k[i] < n.c -> "left"
      [] k[i] > n.c -> "right"
      [] k[i] = n.c /\ i < Len(k) -> "mid"
      [] OTHER -> "value"

\* A call of insert or search: a node and the character it looks at there.
Calls(t, k) == [at : 1..Size(t), i : 1..Len(k)]

Start(t) == [at |-> t.root, i |-> 1]

\* The call it makes next, at 0 when there is no node or nowhere to go.
Onward(t, k, p) ==
    LET way == Way(t.node[p.at], k, p.i)
    IN  [at |-> IF way = "value" THEN 0 ELSE t.node[p.at].link[way],
         i |-> IF way = "mid" THEN p.i + 1 ELSE p.i]

\* The last call that has a node.
LastCall(t, k) ==
    LET last[p \in Calls(t, k)] ==
          LET q == Onward(t, k, p) IN IF q.at = 0 THEN p ELSE last[q]
    IN  last[Start(t)]

Search(t, k) ==
    LET p == LastCall(t, k) IN
    IF t.root = 0 \/ Way(t.node[p.at], k, p.i) # "value" THEN 0 ELSE p.at

\* The nodes that insert makes for a key from its character i on, each below
\* the one before.
Chain(t, k, i, value, small) ==
    [j \in 1..(Len(k) - i + 1) |->
        IF i + j - 1 = Len(k)
          THEN [Blank(k[i + j - 1]) EXCEPT !.value = value, !.small = small]
          ELSE [Blank(k[i + j - 1]) EXCEPT !.link["mid"] = Size(t) + j + 1]]

Extended(t, k, i, value, small) ==
    [t EXCEPT !.cap = Capacity(t, Len(k) - i + 1),
              !.node = @ \o Chain(t, k, i, value, small)]

Put(t, k, value, small) ==
    LET p == LastCall(t, k)
        way == Way(t.node[p.at], k, p.i)
    IN  IF t.root = 0
          THEN Extended([t EXCEPT !.root = Size(t) + 1], k, 1, value, small)
        ELSE IF way = "value"
          THEN [t EXCEPT !.node[p.at].value = value, !.node[p.at].small = small]
          ELSE Extended([t EXCEPT !.node[p.at].link[way] = Size(t) + 1],
                        k, Onward(t, k, p).i, value, small)

-----------------------------------------------------------------------------
(* The files.                                                              *)

Piece(part, k, kind, id) == [part |-> part, key |-> k, kind |-> kind, id |-> id]

\* A record whose two pieces are not both there is read as garbage.
Whole(file, o) ==
    /\ o \in 1..(Len(file) - 1)
    /\ file[o].part = "head" /\ file[o + 1].part = "body"

Value(file, o) ==
    IF Whole(file, o) THEN [kind |-> file[o].kind, id |-> file[o].id] ELSE Garbage

\* What the hint says of a key: an offset, or the 8 bytes themselves.
Line(k, kind, id, o) ==
    [key |-> k, kind |-> kind,
     number |-> CASE kind = "big" -> o [] kind = "small" -> id [] kind = "gone" -> 0]

SmallLength(kind) == IF kind = "small" THEN 8 ELSE 0

\* tst_open: the lines are put one by one, so that the last of a key counts.
Loaded_First(lines) ==
    FoldRight(LAMBDA l, t : Put(t, l.key, l.number, SmallLength(l.kind)), lines, EmptyTree)

Loaded(lines) ==
    LET loaded[n \in 0..Len(lines)] ==
          IF n = 0 THEN EmptyTree
          ELSE Put(loaded[n - 1], lines[n].key, lines[n].number, SmallLength(lines[n].kind))
    IN  loaded[Len(lines)]

\* The node says where the value is: the file, or the node.
Inline(n) == n.small # 0 \/ n.value = 0

InlineValue(n) == IF n.small = 0 THEN Gone ELSE [kind |-> "small", id |-> n.value]

\* tst_get: a node that no put has given a value has -1, to which fseek cannot
\* go, so what follows the last record that was read is read.
ReadAt(t, x, p) == IF t.node[x].value = -1 THEN p ELSE t.node[x].value

Got(t, k, file, p) ==
    LET x == Search(t, k) IN
    IF x = 0 THEN Gone
    ELSE IF Inline(t.node[x]) THEN InlineValue(t.node[x])
    ELSE Value(file, ReadAt(t, x, p))

\* After a record comes the next one; after garbage the position is anything.
NextPos(t, k, file, p) ==
    LET x == Search(t, k) IN
    IF x = 0 \/ Inline(t.node[x]) THEN {p}
    ELSE IF Whole(file, ReadAt(t, x, p)) THEN {ReadAt(t, x, p) + 2}
    ELSE 1..(Len(file) + 1)

-----------------------------------------------------------------------------
Idle == [at |-> "idle", op |-> "none", key |-> << >>, kind |-> "gone", off |-> 0,
         got |-> Gone]

Init ==
    /\ main = "down"
    /\ db = EmptyTree
    /\ ready = FALSE
    /\ data = << >> /\ dataBuf = << >>
    /\ hint = << >> /\ hintBuf = << >>
    /\ pos = 1
    /\ epoll = FALSE
    /\ h = Idle
    /\ replies = {}
    /\ stops = 0
    /\ puts = << >>
    /\ cut = {}

InFlight == IF h.at \in {"head", "body", "tree", "hint"} THEN {h.key} ELSE {}

-----------------------------------------------------------------------------
(* The main thread.                                                        *)

Open ==
    /\ main = "down"
    /\ main' = "accept"
    /\ db' = Loaded(hint)
    /\ ready' = TRUE
    /\ pos' = 1
    /\ epoll' = TRUE
    /\ h' = Idle
    /\ UNCHANGED <<files, replies, puts, stops, cut>>

\* exit_hook closes ep_fd before it closes the store: a reply that has not
\* been registered by then is never sent.
HookCloses_Later == epoll

HookCloses == FALSE

Signal ==
    /\ main = "accept" /\ stops < MaxStops
    /\ main' = "hook"
    /\ stops' = stops + 1
    /\ epoll' = HookCloses
    /\ UNCHANGED <<db, ready, files, pos, h, replies, puts, cut>>

\* tst_close
Unready ==
    /\ main = "hook"
    /\ main' = "unready"
    /\ ready' = FALSE
    /\ UNCHANGED <<db, files, pos, epoll, h, replies, puts, stops, cut>>

FlushData ==
    /\ main = "unready"
    /\ main' = "data flushed"
    /\ data' = data \o dataBuf /\ dataBuf' = << >>
    /\ UNCHANGED <<db, ready, hint, hintBuf, pos, epoll, h, replies, puts, stops, cut>>

FlushHint ==
    /\ main = "data flushed"
    /\ main' = "flushed"
    /\ hint' = hint \o hintBuf /\ hintBuf' = << >>
    /\ cut' = cut \cup InFlight
    /\ UNCHANGED <<db, ready, data, dataBuf, pos, epoll, h, replies, puts, stops>>

CloseData ==
    /\ main = "flushed"
    /\ main' = "data closed"
    /\ data' = data \o dataBuf /\ dataBuf' = << >>
    /\ UNCHANGED <<db, ready, hint, hintBuf, pos, epoll, h, replies, puts, stops, cut>>

CloseHint ==
    /\ main = "data closed"
    /\ main' = "closed"
    /\ hint' = hint \o hintBuf /\ hintBuf' = << >>
    /\ UNCHANGED <<db, ready, data, dataBuf, pos, epoll, h, replies, puts, stops, cut>>

\* accept fails and main returns: stdio flushes what is open and goes on
\* unbuffered until the process is gone.
MainReturns ==
    /\ main = "accept" /\ stops < MaxStops
    /\ main' = "returned"
    /\ stops' = stops + 1
    /\ data' = data \o dataBuf /\ dataBuf' = << >>
    /\ hint' = hint \o hintBuf /\ hintBuf' = << >>
    /\ UNCHANGED <<db, ready, pos, epoll, h, replies, puts, cut>>

\* The process ends, wherever the other thread is.
Exit ==
    /\ main \in {"closed", "returned"}
    /\ main' = "down"
    /\ ready' = FALSE
    /\ epoll' = FALSE
    /\ replies' = {}
    /\ cut' = cut \cup InFlight
    /\ UNCHANGED <<db, files, pos, h, puts, stops>>

Main ==
    \/ Open \/ Unready \/ FlushData \/ FlushHint \/ CloseData \/ CloseHint \/ Exit

-----------------------------------------------------------------------------
(* The thread that runs the commands.                                      *)

Running == main # "down"

\* A FILE that is not closed takes what is written, which may fill its buffer.
\* Using one that is closed, or the tree when it is freed, has no effect that
\* lasts, or ends the process.
DataOpen == main \notin {"data closed", "closed"}
HintOpen == main # "closed"

Buffered(file, buf, new) ==
    {[file |-> file \o buf \o new, buf |-> << >>]}
      \cup (IF main = "returned" THEN {} ELSE {[file |-> file, buf |-> buf \o new]})

ToData(new) ==
    IF DataOpen THEN \E b \in Buffered(data, dataBuf, new) : data' = b.file /\ dataBuf' = b.buf
                ELSE UNCHANGED <<data, dataBuf>>

ToHint(new) ==
    IF HintOpen THEN \E b \in Buffered(hint, hintBuf, new) : hint' = b.file /\ hintBuf' = b.buf
                ELSE UNCHANGED <<hint, hintBuf>>

Ftell_NoFlush == UNCHANGED <<data, dataBuf>>

Ftell ==
    IF DataOpen THEN data' = data \o dataBuf /\ dataBuf' = << >>
                ELSE UNCHANGED <<data, dataBuf>>

EndOfData == Len(data) + Len(dataBuf) + 1

Command(op, k, kind) ==
    /\ Running /\ h.at = "idle"
    /\ Len(puts) < MaxCommands
    /\ h' = [Idle EXCEPT !.at = IF op = "set" THEN "put" ELSE "get",
                         !.op = op, !.key = k, !.kind = kind]
    /\ UNCHANGED <<main, db, ready, files, pos, epoll, replies, puts, stops, cut>>

\* tst_get.  A get that finds its value expired and a delete that finds one
\* go on with a tst_put of the empty value.
Get ==
    /\ Running /\ h.at = "get"
    /\ IF ready
         THEN /\ Ftell
              /\ \E got \in {Got(db, h.key, data', pos)}, expired \in BOOLEAN :
                    h' = [h EXCEPT !.got = got,
                            !.at = IF got.kind # "gone" /\ (h.op = "delete" \/ expired)
                                   THEN "put" ELSE "got"]
              /\ pos' \in NextPos(db, h.key, data', pos)
         ELSE /\ h' = [h EXCEPT !.got = Garbage, !.at = "got"]
              /\ UNCHANGED <<data, dataBuf, pos>>
    /\ UNCHANGED <<main, db, ready, hint, hintBuf, epoll, replies, puts, stops, cut>>

Answer ==
    /\ Running /\ h.at = "got"
    /\ h' = Idle
    /\ UNCHANGED <<main, db, ready, files, pos, epoll, replies, puts, stops, cut>>

\* tst_put, up to its look at ready.
StartPut ==
    /\ Running /\ h.at = "put"
    /\ h' = [h EXCEPT !.off = EndOfData, !.at = IF ready THEN "head" ELSE "done"]
    /\ Ftell
    /\ puts' = Append(puts, [key |-> h.key, kind |-> h.kind, did |-> FALSE, acked |-> FALSE])
    /\ UNCHANGED <<main, db, ready, hint, hintBuf, pos, epoll, replies, stops, cut>>

Id == Len(puts)

WriteHead ==
    /\ Running /\ h.at = "head"
    /\ ToData(<<Piece("head", h.key, h.kind, Id)>>)
    /\ h' = [h EXCEPT !.at = "body"]
    /\ UNCHANGED <<main, db, ready, hint, hintBuf, pos, epoll, replies, puts, stops, cut>>

WriteBody ==
    /\ Running /\ h.at = "body"
    /\ ToData(<<Piece("body", h.key, h.kind, Id)>>)
    /\ h' = [h EXCEPT !.at = "tree"]
    /\ UNCHANGED <<main, db, ready, hint, hintBuf, pos, epoll, replies, puts, stops, cut>>

UpdateTree ==
    /\ Running /\ h.at = "tree"
    /\ LET l == Line(h.key, h.kind, Id, h.off) IN
       db' = Put(db, h.key, l.number, SmallLength(h.kind))
    /\ puts' = [puts EXCEPT ![Id].did = TRUE]
    /\ h' = [h EXCEPT !.at = "hint"]
    /\ cut' = IF ready THEN cut \ {h.key} ELSE cut
    /\ UNCHANGED <<main, ready, files, pos, epoll, replies, stops>>

WriteHint ==
    /\ Running /\ h.at = "hint"
    /\ ToHint(<<Line(h.key, h.kind, Id, h.off)>>)
    /\ h' = [h EXCEPT !.at = "done"]
    /\ UNCHANGED <<main, db, ready, data, dataBuf, pos, epoll, replies, puts, stops, cut>>

\* The reply waits for EPOLLOUT, which cannot be asked for once ep_fd is closed.
Register ==
    /\ Running /\ h.at = "done"
    /\ replies' = IF epoll THEN replies \cup {Id} ELSE replies
    /\ h' = Idle
    /\ UNCHANGED <<main, db, ready, files, pos, epoll, puts, stops, cut>>

SendReply ==
    /\ Running /\ h.at = "idle"
    /\ \E i \in replies :
          /\ replies' = replies \ {i}
          /\ puts' = [puts EXCEPT ![i].acked = TRUE]
    /\ UNCHANGED <<main, db, ready, files, pos, epoll, h, stops, cut>>

\* Undefined behaviour of a FILE, or a tree, that is closed under its user.
Dies ==
    /\ \/ ~DataOpen /\ h.at \in {"put", "head", "body"}
       \/ ~HintOpen /\ h.at \in {"get", "tree", "hint"}
    /\ main' = "down"
    /\ ready' = FALSE /\ epoll' = FALSE /\ replies' = {}
    /\ dataBuf' = << >> /\ hintBuf' = << >>
    /\ cut' = cut \cup InFlight
    /\ UNCHANGED <<db, data, hint, pos, h, puts, stops>>

Handler ==
    \/ Get \/ Answer \/ StartPut \/ WriteHead \/ WriteBody \/ UpdateTree \/ WriteHint
    \/ Register \/ SendReply

Rest == main \in {"accept", "down"} /\ h.at = "idle" /\ replies = {} /\ UNCHANGED vars

Next ==
    \/ Main \/ Signal \/ MainReturns
    \/ \E k \in Keys : \/ \E op \in {"get", "delete"} : Command(op, k, "gone")
                       \/ \E kind \in {"big", "small"} : Command("set", k, kind)
    \/ Handler \/ Dies
    \/ Rest

Spec == Init /\ [][Next]_vars

-----------------------------------------------------------------------------
(* Properties.                                                             *)

TypeOK ==
    /\ main \in {"down", "accept", "hook", "unready", "data flushed", "flushed",
                 "data closed", "closed", "returned"}
    /\ Size(db) < db.cap
    /\ \A x \in DOMAIN db.node, way \in Ways : db.node[x].link[way] \in 0..Size(db)
    /\ h.at \in {"idle", "get", "got", "put", "head", "body", "tree", "hint", "done"}
    /\ replies \subseteq DOMAIN puts

\* The last put of a key that has reached the tree, 0 if there is none.
LastPut(k) == LET ids == {i \in DOMAIN puts : puts[i].key = k /\ puts[i].did}
            IN  IF ids = {} THEN 0 ELSE CHOOSE i \in ids : \A j \in ids : j <= i

Current(k) ==
    IF LastPut(k) = 0 \/ puts[LastPut(k)].kind = "gone" THEN Gone
    ELSE [kind |-> puts[LastPut(k)].kind, id |-> LastPut(k)]

\* While the store is open, every lookup finds the value of the key's last
\* put, on its way through the buffer, the file, another FILE's position and
\* whatever stops came before.
GetExact ==
    h.at = "got" /\ main = "accept" /\ h.key \notin cut => h.got = Current(h.key)

\* What tst_open would build from the hint file, and would find with it.
OnFile == Loaded(hint \o hintBuf)

Reopened(t, k) == Got(t, k, data \o dataBuf, 1)

\* The two files always say what the tree says, but for the put under way.
FilesMatchTree ==
    LET t == OnFile IN
    Running => \A k \in Keys \ (InFlight \cup cut) :
                  Reopened(t, k) = Got(db, k, data \o dataBuf, pos)

\* Together: the array is sound and the files say what it says.
StoreSound == TypeOK /\ FilesMatchTree

\* A put whose reply a client has received survives the stop, however the
\* signal, the flushes and the other thread's calls interleave: the key has
\* that value or a later one, unless a put of the key was cut off.
AckedSurvive ==
    LET t == OnFile IN
    main = "down" => \A k \in Keys \ cut : \A i \in DOMAIN puts :
       puts[i].acked /\ puts[i].key = k =>
          \E j \in i..Len(puts) :
             /\ puts[j].key = k
             /\ IF puts[j].kind = "gone" THEN Reopened(t, k) = Gone
                ELSE Reopened(t, k) = [kind |-> puts[j].kind, id |-> j]

=============================================================================
