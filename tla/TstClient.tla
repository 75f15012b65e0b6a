------------------------------ MODULE TstClient ------------------------------
(***************************************************************************)
(* The Python client, client/pytst.py, in front of a server that may be    *)
(* stopped and started: one TSTClient() per process, each with one _Host,  *)
(* its socket, its blacklist (deaduntil) and its cache of cas ids.         *)
(*                                                                         *)
(* The server is what TstStore promises of it: requests of a connection    *)
(* are executed in order, each at once, and nothing stored is lost by a    *)
(* stop.  What a stop does lose is what has not been read from a socket    *)
(* and what has not been written to one.  The value stored by the n-th     *)
(* effect has the sign n.  A reply with values comes whole, or is cut off  *)
(* after its first VALUE line.                                             *)
(***************************************************************************)
EXTENDS Integers, Sequences, FiniteSets, SequencesExt

CONSTANTS
    Clients,        \* the client processes
    Keys,
    Present,        \* the keys that have a value when the clients start
    Calls,          \* the calls each client's user may make
    CacheCas,       \* Client(cache_cas = ...), FALSE by default
    MaxCalls,       \* bound: calls made
    MaxTroubles     \* bound: stops of the server, and timeouts (of 3 seconds) while
                    \* a request waits to be served; timeouts are unbounded where
                    \* no reply can come

Setting == {"set", "cas", "add"}    \* _set; add stands for append, ... too
Fetching == {"get", "gets"}         \* _get
Multi == {"get_multi", "set_multi", "delete_multi"}

\* keys lists the keys of a call, one but for a multi; big are those whose
\* value is longer than server_max_value_length.
Call == [op : Setting \cup Fetching \cup Multi
               \cup {"delete", "incr", "disconnect_all"},
         keys : Seq(Keys), big : SUBSET Keys]

ASSUME CallsAssumption ==
    /\ Calls \in [Clients -> SUBSET Call]
    /\ \A c \in Clients : \A call \in Calls[c] :
          call.keys # << >> /\ (call.op \notin Multi => Len(call.keys) = 1)

ASSUME BoundsAssumption ==
    /\ Present \subseteq Keys /\ IsFiniteSet(Present)
    /\ CacheCas \in BOOLEAN
    /\ MaxCalls \in Nat /\ MaxTroubles \in Nat

VARIABLES
    server,         \* "up" or "down"
    store,          \* the sign of the value of each key, 0 if there is none
    late,           \* requests the server may still find on abandoned sockets
    conn,           \* each client's connection, Fresh while there is none
    sock,           \* _Host.socket is not None
    dead,           \* _Host.deaduntil is in the future
    ids,            \* Client.cas_ids, 0 for a key that is not in it
    run,            \* the call a client is in
    troubles,       \* stops, and timeouts of requests that wait to be served
    \* history
    calls,          \* every call: its client, what it asked, its result
    effects,        \* every change of the store: the request, key, old sign
    fetched,        \* the sign gets last returned to each client
    missed          \* keys of which gets has since read a sign, but no value

vars == <<server, store, late, conn, sock, dead, ids, run, troubles,
          calls, effects, fetched, missed>>

\* What a reply says of each key: the sign of its value, 0 if it has none.
NoKeys == [k \in Keys |-> 0]

Idle == [id |-> 0, retried |-> FALSE, want |-> << >>, bad |-> {}]

Fresh == [end |-> "up", req |-> << >>, rep |-> << >>]

\* Somebody else's set, before.
Earlier(n, k) ==
    [req |-> [id |-> 0, nr |-> n, op |-> "set", keys |-> <<k>>, sign |-> 0], old |-> 0]

Init ==
    /\ server = "up"
    /\ late = {}
    /\ conn = [c \in Clients |-> Fresh]
    /\ sock = [c \in Clients |-> FALSE]
    /\ dead = [c \in Clients |-> FALSE]
    /\ ids = [c \in Clients |-> [k \in Keys |-> 0]]
    /\ run = [c \in Clients |-> Idle]
    /\ troubles = 0
    /\ calls = << >>
    /\ LET ks == SetToSeq(Present) IN
       /\ effects = [n \in 1..Len(ks) |-> Earlier(n, ks[n])]
       /\ store = [k \in Keys |-> IF k \in Present
                                  THEN CHOOSE n \in 1..Len(ks) : ks[n] = k ELSE 0]
    /\ fetched = [c \in Clients |-> [k \in Keys |-> 0]]
    /\ missed = [c \in Clients |-> {}]

-----------------------------------------------------------------------------
(* What a call sends.                                                      *)

\* cas without an id becomes a set.
Command_Blind(c, op, k) == IF op = "cas" THEN "set" ELSE op

Command(c, op, k) ==
    CASE op = "cas" /\ ids[c][k] = 0 -> "set"
      [] op = "set_multi" -> "set"
      [] op = "delete_multi" -> "delete"
      [] op = "get_multi" -> "get"
      [] OTHER -> op

\* The nr-th request of a call (nr is no part of what is sent: it tells the
\* requests of a delete_multi that names a key twice apart).
Line(c, id, call, nr, ks) ==
    [id |-> id, nr |-> nr, op |-> Command(c, call.op, Head(ks)), keys |-> ks,
     sign |-> ids[c][Head(ks)]]

\* The requests a call sends, and those it waits for a reply to: a value that
\* is too long is left out by set_multi, but its reply is waited for.
Wanted(c, id, call) ==
    IF call.op = "get_multi" THEN <<Line(c, id, call, 1, call.keys)>>
    ELSE [j \in 1..Len(call.keys) |-> Line(c, id, call, j, <<call.keys[j]>>)]

InOrder(S) ==
    CHOOSE f \in [1..Cardinality(S) -> S] :
        \A i, j \in 1..Cardinality(S) : i < j => f[i] < f[j]

Sent(c, id, call) ==
    LET w == Wanted(c, id, call)
        fits == {j \in 1..Len(w) : Head(w[j].keys) \notin call.big}
    IN  [i \in 1..Cardinality(fits) |-> w[InOrder(fits)[i]]]

-----------------------------------------------------------------------------
(* The server (external to this module: TstStore and TstConn).             *)

Found(ks) == [k \in Keys |-> IF k \in Range(ks) THEN store[k] ELSE 0]

Stores(r) ==
    \/ r.op = "set"
    \/ r.op = "cas" /\ store[r.keys[1]] = r.sign
    \/ r.op = "incr" /\ store[r.keys[1]] # 0

Removes(r) == r.op = "delete" /\ store[r.keys[1]] # 0

Answer(r) ==
    CASE r.op = "set" -> "STORED"
      [] r.op = "cas" -> IF Stores(r) THEN "STORED" ELSE "EXISTS"
      [] r.op = "incr" -> IF Stores(r) THEN "NUMBER" ELSE "NOT_FOUND"
      [] r.op = "delete" -> IF Removes(r) THEN "DELETED" ELSE "NOT_FOUND"
      [] r.op \in Fetching -> "VALUES"
      [] OTHER -> "ERROR"

Reply(r) == [to |-> r, ans |-> Answer(r),
             vals |-> IF r.op \in Fetching THEN Found(r.keys) ELSE NoKeys]

\* A command the server does not know: its body is read as another one.
Replies(r) == IF r.op = "add" THEN <<Reply(r), Reply(r)>> ELSE <<Reply(r)>>

Execute(r) ==
    LET k == r.keys[1] IN
    IF Stores(r) \/ Removes(r)
      THEN /\ effects' = Append(effects, [req |-> r, old |-> store[k]])
           /\ store' = [store EXCEPT ![k] = IF Removes(r) THEN 0 ELSE Len(effects')]
      ELSE UNCHANGED <<effects, store>>

Serve(c) ==
    /\ server = "up"
    /\ sock[c] /\ conn[c].end = "up" /\ conn[c].req # << >>
    /\ LET r == Head(conn[c].req) IN
       /\ Execute(r)
       /\ conn' = [conn EXCEPT ![c].req = Tail(@), ![c].rep = @ \o Replies(r)]
    /\ UNCHANGED <<server, late, sock, dead, ids, run, troubles, calls, fetched, missed>>

\* The requests on an abandoned socket are read, or lost when it is reset.
ServeLate(reqs) ==
    /\ server = "up"
    /\ Execute(Head(reqs))
    /\ late' = (late \ {reqs}) \cup ({Tail(reqs)} \ {<< >>})
    /\ UNCHANGED <<server, conn, sock, dead, ids, run, troubles, calls, fetched, missed>>

LoseLate(reqs) ==
    /\ late' = late \ {reqs}
    /\ UNCHANGED <<server, store, conn, sock, dead, ids, run, troubles, calls,
                   effects, fetched, missed>>

\* Stopping loses requests that are not read and replies that are not sent;
\* a socket with unread requests is reset, others are closed.
Stopped(cn, end, kept) ==
    [end |-> end, req |-> << >>, rep |-> SubSeq(cn.rep, 1, kept)]

Stop ==
    /\ server = "up" /\ troubles < MaxTroubles
    /\ server' = "down"
    /\ troubles' = troubles + 1
    /\ late' = {}
    /\ \E end \in [Clients -> {"fin", "rst"}],
          kept \in [Clients -> UNION {0..Len(conn[c].rep) : c \in Clients}] :
          /\ \A c \in Clients :
                /\ kept[c] <= Len(conn[c].rep)
                /\ end[c] = "rst" => conn[c].req # << >> \/ conn[c].end = "rst"
                /\ conn[c].end # "up" => end[c] = conn[c].end /\ kept[c] = Len(conn[c].rep)
          /\ conn' = [c \in Clients |-> IF sock[c] THEN Stopped(conn[c], end[c], kept[c])
                                                   ELSE conn[c]]
    /\ UNCHANGED <<store, sock, dead, ids, run, calls, effects, fetched, missed>>

Boot ==
    /\ server = "down"
    /\ server' = "up"
    /\ UNCHANGED <<store, late, conn, sock, dead, ids, run, troubles, calls,
                   effects, fetched, missed>>

-----------------------------------------------------------------------------
(* The client.                                                             *)

\* What a call returns when connect fails, when the connection breaks under
\* it, and when its last reply has come.  "none" is get_multi's empty
\* dictionary too; "zero" is a 0 that looks like a number.
Refused(op) ==
    CASE op \in Setting \cup {"delete"} -> "no"
      [] op \in Fetching \cup {"get_multi"} -> "none"
      [] op = "incr" -> "zero"
      [] op = "set_multi" -> "list"
      [] op = "delete_multi" -> "yes"

Broken_Optimistic(op) == IF op \in Setting THEN "yes" ELSE "none"

Broken(op) ==
    CASE op \in Setting \cup {"delete", "delete_multi"} -> "no"
      [] op \in Fetching \cup {"get_multi", "incr"} -> "none"
      [] op = "set_multi" -> "list"

Answered(op, r) ==
    CASE op \in Setting -> IF r.ans = "STORED" THEN "yes" ELSE "no"
      [] op \in Fetching -> IF r.vals = NoKeys THEN "none" ELSE "values"
      [] op = "delete" -> IF r.ans \in {"DELETED", "NOT_FOUND"} THEN "yes" ELSE "no"
      [] op = "incr" -> IF r.ans = "NUMBER" THEN "number"
                        ELSE IF r.ans = "NOT_FOUND" THEN "none" ELSE "raised"
      [] op = "get_multi" -> "values"
      [] op = "set_multi" -> "list"
      [] op = "delete_multi" -> "yes"

Awaiting(c) == run[c].id # 0

TheCall(c) == calls[run[c].id].call

Made(c, call, ret, bad) ==
    [by |-> c, call |-> call, ret |-> ret, bad |-> bad, vals |-> NoKeys,
     sign |-> IF call.op = "cas" THEN ids[c][call.keys[1]] ELSE 0,
     seen |-> IF call.op = "cas" THEN fetched[c][call.keys[1]] ELSE 0,
     missed |-> call.op = "cas" /\ call.keys[1] \in missed[c],
     at |-> IF call.op = "delete" THEN Len(effects) ELSE 0]

Return_StaysIn(c, ret, bad, vals) ==
    /\ calls' = [calls EXCEPT ![run[c].id].ret = ret, ![run[c].id].bad = bad,
                              ![run[c].id].vals = vals]
    /\ run' = [run EXCEPT ![c].want = << >>]

Return(c, ret, bad, vals) ==
    /\ calls' = [calls EXCEPT ![run[c].id].ret = ret, ![run[c].id].bad = bad,
                              ![run[c].id].vals = vals]
    /\ run' = [run EXCEPT ![c] = Idle]

\* What becomes of the requests on a socket that is closed.
Abandoned(c) ==
    IF sock[c] /\ conn[c].req # << >> THEN late \cup {conn[c].req} ELSE late

\* mark_dead, with close_socket
MarkDead_KeepsSocket(c) ==
    /\ dead' = [dead EXCEPT ![c] = TRUE]
    /\ UNCHANGED <<sock, conn, late>>

MarkDead(c) ==
    /\ dead' = [dead EXCEPT ![c] = TRUE]
    /\ sock' = [sock EXCEPT ![c] = FALSE]
    /\ conn' = [conn EXCEPT ![c] = Fresh]
    /\ late' = Abandoned(c)

\* _get_server and connect: a socket there is one is used, whatever became of
\* its other end; a server that is marked dead is not tried.
Begin(c) ==
    /\ ~Awaiting(c)
    /\ Len(calls) < MaxCalls

TooBig(call) == call.op \in Setting /\ call.keys[1] \in call.big

CanConnect(c, call) ==
    call.op # "disconnect_all" /\ ~dead[c] /\ (sock[c] \/ server = "up")

StartRefused(c, call) ==
    /\ Begin(c)
    /\ call.op # "disconnect_all"
    /\ ~CanConnect(c, call)
    /\ calls' = Append(calls, Made(c, call, Refused(call.op),
                          IF call.op = "set_multi" THEN Range(call.keys) ELSE {}))
    /\ dead' = [dead EXCEPT ![c] = TRUE]
    /\ UNCHANGED <<server, store, late, conn, sock, ids, run, troubles, effects, fetched, missed>>

\* A single value that is too long is not sent.
StartTooBig(c, call) ==
    /\ Begin(c)
    /\ CanConnect(c, call)
    /\ TooBig(call)
    /\ calls' = Append(calls, Made(c, call, "no", {}))
    /\ sock' = [sock EXCEPT ![c] = TRUE]
    /\ conn' = [conn EXCEPT ![c] = IF sock[c] THEN @ ELSE Fresh]
    /\ UNCHANGED <<server, store, late, dead, ids, run, troubles, effects, fetched, missed>>

\* sendall succeeds as long as no reset has come.
Start(c, call) ==
    /\ Begin(c)
    /\ CanConnect(c, call)
    /\ ~TooBig(call)
    /\ sock[c] => conn[c].end # "rst"
    /\ LET id == Len(calls) + 1
           cn == IF sock[c] THEN conn[c] ELSE Fresh
       IN  /\ run' = [run EXCEPT ![c] = [Idle EXCEPT
                         !.id = id, !.want = Wanted(c, id, call),
                         !.bad = IF call.op = "set_multi" THEN call.big ELSE {}]]
           /\ conn' = [conn EXCEPT ![c] =
                 [cn EXCEPT !.req = IF cn.end = "up" THEN @ \o Sent(c, id, call) ELSE @]]
    /\ calls' = Append(calls, Made(c, call, "pending", {}))
    /\ sock' = [sock EXCEPT ![c] = TRUE]
    /\ UNCHANGED <<server, store, late, dead, ids, troubles, effects, fetched, missed>>

\* sendall fails.
StartUnsent(c, call) ==
    /\ Begin(c)
    /\ CanConnect(c, call)
    /\ ~TooBig(call)
    /\ sock[c] /\ conn[c].end # "up"
    /\ calls' = Append(calls, Made(c, call, Broken(call.op),
                          IF call.op = "set_multi" THEN Range(call.keys) ELSE {}))
    /\ MarkDead(c)
    /\ UNCHANGED <<server, store, ids, run, troubles, effects, fetched, missed>>

\* The keys a reply gives gets a sign of, and what is known of all keys then.
Signed(c, r) ==
    IF TheCall(c).op = "gets" THEN {k \in Keys : r.vals[k] # 0} ELSE {}

Learned(c, known, r) ==
    [k \in Keys |-> IF k \in Signed(c, r) THEN r.vals[k] ELSE known[k]]

Remembered(c, r) ==
    IF CacheCas THEN [ids EXCEPT ![c] = Learned(c, @, r)] ELSE ids

\* A reply is read and taken for that of the first request still waited for.
Receive(c) ==
    /\ Awaiting(c)
    /\ conn[c].rep # << >>
    /\ LET r == Head(conn[c].rep)
           op == TheCall(c).op
           w == run[c].want
           bad == IF op = "set_multi" /\ r.ans # "STORED"
                  THEN run[c].bad \cup {Head(w).keys[1]} ELSE run[c].bad
       IN  /\ conn' = [conn EXCEPT ![c].rep = Tail(@)]
           /\ IF Len(w) = 1
                 THEN Return(c, Answered(op, r), bad, r.vals)
                 ELSE /\ run' = [run EXCEPT ![c].want = Tail(@), ![c].bad = bad]
                      /\ UNCHANGED calls
           /\ fetched' = [fetched EXCEPT ![c] = Learned(c, @, r)]
           /\ missed' = [missed EXCEPT ![c] = @ \ Signed(c, r)]
           /\ ids' = Remembered(c, r)
    /\ UNCHANGED <<server, store, late, sock, dead, troubles, effects>>

\* The rest of a reply does not come: of gets, the sign is already in cas_ids.
Partly(c) ==
    LET r == Head(conn[c].rep) IN
    /\ Awaiting(c)
    /\ conn[c].rep # << >> /\ r.vals # NoKeys
    /\ missed' = [missed EXCEPT ![c] = @ \cup Signed(c, r)]
    /\ ids' = Remembered(c, r)

\* The value ends with the stream, and so does the END that is looked for then.
CutShort(c) ==
    /\ Partly(c)
    /\ conn[c].end # "up"
    /\ conn' = [conn EXCEPT ![c] = [Fresh EXCEPT !.end = "fin"]]
    /\ UNCHANGED <<server, store, late, sock, dead, run, troubles, calls, effects, fetched>>

\* No more comes in time, or what did come of the value has a line's end to be
\* taken for that END.
GiveUp(c) ==
    /\ Partly(c)
    /\ IF conn[c].end = "up"
         THEN troubles < MaxTroubles /\ troubles' = troubles + 1
         ELSE UNCHANGED troubles
    /\ Return(c, Broken(TheCall(c).op), run[c].bad, NoKeys)
    /\ MarkDead(c)
    /\ UNCHANGED <<server, store, effects, fetched>>

\* The stream ends: readline closes the socket and raises; _set and _get try
\* once more, on a new connection.
Retryable_All(op) == TRUE

Retryable(op) == op \in Setting \cup Fetching

Ended(c) == Awaiting(c) /\ conn[c].rep = << >> /\ conn[c].end = "fin"

Retry(c) ==
    /\ Ended(c)
    /\ Retryable(TheCall(c).op)
    /\ ~run[c].retried
    /\ server = "up"
    /\ run' = [run EXCEPT ![c].retried = TRUE]
    /\ conn' = [conn EXCEPT ![c] = [Fresh EXCEPT !.req = run[c].want]]
    /\ UNCHANGED <<server, store, late, sock, dead, ids, troubles, calls, effects, fetched, missed>>

\* There is nothing to retry on: _set goes on with a socket that is None.
RetryRefused(c) ==
    /\ Ended(c)
    /\ Retryable(TheCall(c).op)
    /\ ~run[c].retried
    /\ server = "down"
    /\ Return(c, IF TheCall(c).op \in Setting THEN "raised" ELSE "none", {}, NoKeys)
    /\ MarkDead(c)
    /\ UNCHANGED <<server, store, ids, troubles, effects, fetched, missed>>

RetryEnded(c) ==
    /\ Ended(c)
    /\ run[c].retried
    /\ Return(c, Broken(TheCall(c).op), {}, NoKeys)
    /\ MarkDead(c)
    /\ UNCHANGED <<server, store, ids, troubles, effects, fetched, missed>>

\* The other calls let the exception through to their caller.
Raise(c) ==
    /\ Ended(c)
    /\ ~Retryable(TheCall(c).op)
    /\ Return(c, "raised", {}, NoKeys)
    /\ sock' = [sock EXCEPT ![c] = FALSE]
    /\ conn' = [conn EXCEPT ![c] = Fresh]
    /\ UNCHANGED <<server, store, late, dead, ids, troubles, effects, fetched, missed>>

\* socket.error: a reset, or no reply in time, which is never retried.
Silent_ResetOnly(c) ==
    conn[c].rep = << >> /\ conn[c].end = "rst" /\ UNCHANGED troubles

Silent(c) ==
    /\ conn[c].rep = << >> /\ conn[c].end # "fin"
    /\ IF conn[c].end = "up" /\ conn[c].req # << >>
         THEN troubles < MaxTroubles /\ troubles' = troubles + 1
         ELSE UNCHANGED troubles

Fail(c) ==
    /\ Awaiting(c)
    /\ Silent(c)
    /\ Return(c, Broken(TheCall(c).op), run[c].bad, NoKeys)
    /\ MarkDead(c)
    /\ UNCHANGED <<server, store, ids, effects, fetched, missed>>

\* dead_retry seconds pass, or forget_dead_hosts.
Revive(c) ==
    /\ dead[c]
    /\ dead' = [dead EXCEPT ![c] = FALSE]
    /\ UNCHANGED <<server, store, late, conn, sock, ids, run, troubles, calls, effects, fetched, missed>>

DisconnectAll(c, call) ==
    /\ Begin(c)
    /\ call.op = "disconnect_all"
    /\ calls' = Append(calls, Made(c, call, "none", {}))
    /\ sock' = [sock EXCEPT ![c] = FALSE]
    /\ conn' = [conn EXCEPT ![c] = Fresh]
    /\ late' = Abandoned(c)
    /\ UNCHANGED <<server, store, dead, ids, run, troubles, effects, fetched, missed>>

-----------------------------------------------------------------------------
(* The specification.                                                      *)

\* What a client in a call does next.
Proceed(c) ==
    Receive(c) \/ CutShort(c) \/ GiveUp(c)
    \/ Retry(c) \/ RetryRefused(c) \/ RetryEnded(c) \/ Raise(c) \/ Fail(c)

Process(c) ==
    \/ \E call \in Calls[c] : \/ StartRefused(c, call) \/ StartTooBig(c, call)
                             \/ Start(c, call) \/ StartUnsent(c, call)
                             \/ DisconnectAll(c, call)
    \/ Proceed(c)
    \/ Revive(c)

Next ==
    \/ \E c \in Clients : Process(c) \/ Serve(c)
    \/ \E reqs \in late : ServeLate(reqs) \/ LoseLate(reqs)
    \/ Stop \/ Boot

\* A client in a call goes on, and a server that is up answers; nothing is
\* assumed of users, of stops and of abandoned sockets.
Fairness == \A c \in Clients : WF_vars(Proceed(c)) /\ WF_vars(Serve(c))

Spec == Init /\ [][Next]_vars /\ Fairness

-----------------------------------------------------------------------------
(* Properties.                                                             *)

Results == {"pending", "yes", "no", "none", "zero", "list", "values", "number", "raised"}

Requests == [id : Nat, nr : Nat \ {0},
             op : {"set", "cas", "add", "incr", "delete"} \cup Fetching,
             keys : Seq(Keys), sign : Nat]

Answers == [to : Requests,
            ans : {"STORED", "EXISTS", "NUMBER", "NOT_FOUND", "DELETED", "VALUES", "ERROR"},
            vals : [Keys -> Nat]]

Sockets == [end : {"up", "fin", "rst"}, req : Seq(Requests), rep : Seq(Answers)]

Runs == [id : Nat, retried : BOOLEAN, want : Seq(Requests), bad : SUBSET Keys]

Records == [by : Clients, call : Call, ret : Results, bad : SUBSET Keys,
            vals : [Keys -> Nat], sign : Nat, seen : Nat, missed : BOOLEAN, at : Nat]

Effects == [req : Requests, old : Nat]

TypeOK ==
    /\ server \in {"up", "down"}
    /\ store \in [Keys -> 0..Len(effects)]
    /\ \A reqs \in late : reqs \in Seq(Requests) /\ reqs # << >>
    /\ conn \in [Clients -> Sockets]
    /\ sock \in [Clients -> BOOLEAN] /\ dead \in [Clients -> BOOLEAN]
    /\ ids \in [Clients -> [Keys -> Nat]] /\ fetched \in [Clients -> [Keys -> Nat]]
    /\ missed \in [Clients -> SUBSET Keys]
    /\ run \in [Clients -> Runs]
    /\ calls \in Seq(Records)
    /\ effects \in Seq(Effects)

\* _Host keeps no record of what it has sent: the n-th reply is the n-th
\* request's because a socket on which one is missing is closed (mark_dead,
\* readline), after timeouts, restarts and retries too.  So what is under way
\* belongs to the call the client is in, and outside a call there is nothing.
InStep(c) ==
    LET rep == conn[c].rep
        req == conn[c].req
        want == run[c].want
    IN  /\ ~Awaiting(c) => rep = << >> /\ req = << >>
        /\ Awaiting(c) => Len(rep) + Len(req) <= Len(want)
        /\ Awaiting(c) /\ TheCall(c).big = {} =>
              /\ \A i \in 1..Len(rep) : rep[i].to = want[i]
              /\ \A i \in 1..Len(req) : req[i] = want[Len(rep) + i]

-----------------------------------------------------------------------------
(* The inductive invariant behind what a client is told.                   *)

\* Commands that the server knows.
KnownCalls == \A c \in Clients : \A call \in Calls[c] : call.op # "add"

\* A request asks what its call asks, of the keys the call names; a cas is for
\* the value whose sign the client had when it was called.
Genuine(r) ==
    /\ r.id \in 1..Len(calls)
    /\ LET it == calls[r.id]
           op == it.call.op
       IN  /\ r.op = CASE op = "cas" -> IF it.sign # 0 THEN "cas" ELSE "set"
                       [] op = "set_multi" -> "set"
                       [] op = "delete_multi" -> "delete"
                       [] op = "get_multi" -> "get"
                       [] OTHER -> op
           /\ r.op = "cas" => r.sign = it.sign
           /\ IF op = "get_multi" THEN r.nr = 1 /\ r.keys = it.call.keys
              ELSE r.nr \in 1..Len(it.call.keys) /\ r.keys = <<it.call.keys[r.nr]>>

\* Requests of one call in the order it makes them.
OneCalls(reqs, id) ==
    /\ \A i \in 1..Len(reqs) : Genuine(reqs[i]) /\ reqs[i].id = id
    /\ \A i, j \in 1..Len(reqs) : i < j => reqs[i].nr < reqs[j].nr

\* Those that may not be sent twice have not been executed.
Unserved(reqs) ==
    \A i \in 1..Len(reqs) : ~Retryable(calls[reqs[i].id].call.op) =>
       \A n \in 1..Len(effects) :
          effects[n].req.id = reqs[i].id => effects[n].req.nr # reqs[i].nr

\* The sign a cas was called with is that of the value last fetched, unless a
\* value was missed.
SignOK(it) ==
    it.call.op = "cas" /\ ~it.missed => it.sign = IF CacheCas THEN it.seen ELSE 0

\* Every call was made by its client, which is in it until it returns.
CallsOK ==
    \A i \in 1..Len(calls) :
        /\ calls[i].call \in Calls[calls[i].by]
        /\ calls[i].at <= Len(effects)
        /\ calls[i].ret = "pending" => run[calls[i].by].id = i
        /\ SignOK(calls[i])
        /\ calls[i].ret = "values" => calls[i].call.op \in Fetching \cup {"get_multi"}

\* Client.cas_ids has nothing, or what gets last returned, save of the keys of
\* which gets has missed a value.
CacheOK ==
    \A c \in Clients : \A k \in Keys :
        IF CacheCas THEN k \in missed[c] \/ ids[c][k] = fetched[c][k]
        ELSE ids[c][k] = 0

RunOK(c) ==
    LET id == run[c].id IN
    IF id = 0 THEN run[c].want = << >>
    ELSE /\ id \in 1..Len(calls) /\ sock[c]
         /\ calls[id].by = c /\ calls[id].ret = "pending"
         /\ TheCall(c).op # "disconnect_all"
         /\ run[c].want # << >> /\ OneCalls(run[c].want, id)
         /\ \A i \in 1..Len(calls) : calls[i].by = c => i <= id

ConnOK(c) ==
    /\ ~sock[c] => conn[c] = Fresh
    /\ conn[c].end # "up" => conn[c].req = << >>
    /\ OneCalls(conn[c].req, run[c].id) /\ Unserved(conn[c].req)

\* What was left behind is of calls that are over, without having succeeded.
LateOK ==
    \A reqs \in late :
        LET id == Head(reqs).id IN
        /\ OneCalls(reqs, id) /\ Unserved(reqs)
        /\ calls[id].ret \notin {"yes", "number"}
        /\ \A c \in Clients : run[c].id # id
        /\ \A other \in late : Head(other).id = id => other = reqs

\* An effect is a genuine request's, or somebody's before; a cas replaced what
\* it was to replace.
EffectsOK ==
    \A n \in 1..Len(effects) :
        LET e == effects[n] IN
        /\ e.old < n
        /\ e.req.op \in {"set", "cas", "incr", "delete"}
        /\ e.req.keys # << >>
        /\ e.req.op = "cas" => e.old = e.req.sign
        /\ IF e.req.id = 0 THEN e.req.op = "set" /\ e.req.nr = n ELSE Genuine(e.req)

Deleted(k, n) ==
    \E m \in n..Len(effects) : effects[m].req.op = "delete" /\ effects[m].req.keys[1] = k

\* The store has the last effect on a key, or nothing after a delete.
StoreOK ==
    \A n \in 1..Len(effects) :
        LET k == effects[n].req.keys[1] IN
        store[k] >= n \/ (store[k] = 0 /\ Deleted(k, n))

Took(id) == {n \in 1..Len(effects) : effects[n].req.id = id}

\* Whoever finds the value v, or 0 for none, finds what call i did, something
\* newer, or that somebody has deleted the key since.
NotOlder(i, k, v) == \E n \in Took(i) : v >= n \/ (v = 0 /\ Deleted(k, n))

\* Call i of client c has told it that k is set.
ToldSet(i, c, k) ==
    /\ calls[i].by = c /\ calls[i].call.op \in {"set", "cas"} /\ calls[i].ret = "yes"
    /\ calls[i].call.keys[1] = k

\* What the keys had after the first `since' effects they have no longer.
Gone(ks, since) == \A k \in Range(ks) : store[k] = 0 \/ store[k] > since

\* A reply that has not been read yet is to a request of the call under way,
\* and is still true.
Truthful(c, p) ==
    LET r == p.to IN
    /\ Genuine(r) /\ r.id = run[c].id
    /\ p.ans \in {"STORED", "NUMBER"} => Took(r.id) # {}
    /\ r.op = "delete" => Gone(r.keys, calls[r.id].at)
    /\ r.op \in Fetching =>
          \A k \in Range(r.keys) : \A j \in 1..Len(calls) :
             j < r.id /\ ToldSet(j, c, k) => NotOlder(j, k, p.vals[k])

RepliesOK(c) == \A i \in 1..Len(conn[c].rep) : Truthful(c, conn[c].rep[i])

ClientOK(c) == RunOK(c) /\ ConnOK(c) /\ InStep(c) /\ RepliesOK(c)

\* Together: what a client believes of its connection is so, and what the
\* server does to its requests, left behind or sent again, is what they ask.
Consistent ==
    /\ TypeOK
    /\ \A c \in Clients : ClientOK(c)
    /\ CallsOK /\ CacheOK /\ LateOK /\ EffectsOK /\ StoreOK

-----------------------------------------------------------------------------
(* What follows from it.                                                   *)

\* A call that reports success was carried out: set, cas and incr have
\* changed the store, and a value that was there before a delete is gone.
AnswersTrue ==
    \A id \in 1..Len(calls) :
       /\ \/ calls[id].call.op \in {"set", "cas"} /\ calls[id].ret = "yes"
          \/ calls[id].ret = "number"
          => Took(id) # {}
       /\ calls[id].call.op = "delete" /\ calls[id].ret = "yes" =>
             Gone(calls[id].call.keys, calls[id].at)

\* _set sends a request again that may have been executed before the server
\* stopped: that is harmless for cas, whose sign is used up, and the requests
\* it would harm, incr and the others, are not sent again.
AtMostOnce ==
    \A m, n \in 1..Len(effects) :
       /\ m < n
       /\ effects[m].req.id = effects[n].req.id
       /\ effects[m].req.nr = effects[n].req.nr
       => effects[n].req.op = "set" /\ calls[effects[n].req.id].call.op \in Setting

\* cas of a key the client has fetched with gets replaces only what it fetched.
Unaltered(n) ==
    LET r == effects[n].req IN
    r.id # 0 /\ calls[r.id].call.op = "cas" /\ calls[r.id].seen # 0
       => effects[n].old = calls[r.id].seen

\* No sign has come since without its value.
Informed(n) ==
    LET r == effects[n].req IN r.id # 0 => ~calls[r.id].missed

\* "Sets a key to a given value in the memcache if it hasn't been altered since
\* last fetched. (See gets)", whatever other clients and restarts did: but a
\* gets whose value does not come has stored its sign all the same, and the
\* next cas replaces a value its client has not seen.
CasUnaltered == \A n \in 1..Len(effects) : Informed(n) => Unaltered(n)

\* A client that was told its set succeeded does not read an older value, nor
\* none unless somebody has deleted the key since.
ReadsOwnWrites ==
    \A i, j \in 1..Len(calls) :
       /\ i < j /\ calls[j].ret = "values"
       => \A k \in Range(calls[j].call.keys) :
             ToldSet(i, calls[j].by, k) => NotOlder(i, k, calls[j].vals[k])

\* What a call did is over when it has reported success: a request left behind
\* on a closed socket, or sent twice, does not surface later.
NoLateEffects ==
    [][effects' # effects =>
          LET id == Last(effects').req.id IN
          calls[id].ret \notin {"yes", "number"}]_vars

\* Every call returns or raises, also when the server stops in the middle.
CallsReturn == \A c \in Clients : Awaiting(c) ~> ~Awaiting(c)

=============================================================================
