------------------------------ MODULE V1Server ------------------------------
(***************************************************************************)
(* Version 1's server (src/v1/tstserver.c): one thread takes the events of *)
(* all connections, reads commands and writes replies; a second one only   *)
(* accepts.  What is kept for a connection is a slot of dataTable with its *)
(* descriptor's number, and nothing resets a slot when a connection ends.  *)
(*                                                                         *)
(* A byte is a pair: the number of the command it was sent with, and its   *)
(* place in it.  A command is a header, and for set a body and the two     *)
(* bytes of a line's end.  The flag and the expiry, which the server puts  *)
(* before the body, are one byte at place 0.  The store is a map, which    *)
(* V1Store shows it to be.                                                 *)
(***************************************************************************)
EXTENDS Integers, Sequences, FiniteSets, FiniteSetsExt

CONSTANTS
    Fds,            \* descriptors of connections
    High,           \* those from MAX_FD_OPEN on, which have no slot
    Keys,
    Requests,       \* the commands clients send
    BufSize,        \* IN_BUF_SIZE
    MaxSent,        \* bound: commands
    Whole           \* descriptors on which a set comes with its line's end

\* total is what the header says of the body's length, huge if that is
\* negative or more than MAX_VALUE_SIZE.
Ops == {"get", "set", "delete"}

ASSUME RequestsAssumption ==
    /\ High \subseteq Fds
    /\ \A r \in Requests : /\ r.op \in Ops /\ r.key \in Keys
                           /\ r.head \in 1..BufSize /\ r.total \in Nat
                           /\ r.huge \in BOOLEAN /\ r.expires \in BOOLEAN
                           /\ r.op # "set" => r.total = 0
    /\ BufSize \in Nat /\ MaxSent \in Nat
    /\ Whole \subseteq Fds

VARIABLES
    conn,           \* "free", "open" or "left", for each descriptor
    watch,          \* the event it is registered for
    slot,           \* dataTable
    store,
    net,            \* bytes sent and not received
    sent,           \* every command: its request, its descriptor, its reply
    waits,          \* the command the client of a descriptor waits for, or 0
    torn            \* history: the descriptors on which bytes of a body were
                    \* taken for something else

vars == <<conn, watch, slot, store, net, sent, waits, torn>>

NoAnswer == << >>

\* need_read; read_buf up to read_cur; putkey; the reply in write_buf.
EmptySlot == [need |-> 0, buf |-> << >>, key |-> "none", reply |-> NoAnswer]

Init ==
    /\ conn = [fd \in Fds |-> "free"]
    /\ watch = [fd \in Fds |-> "in"]
    /\ slot = [fd \in Fds |-> EmptySlot]
    /\ store = [k \in Keys |-> << >>]
    /\ net = [fd \in Fds |-> << >>]
    /\ sent = << >>
    /\ waits = [fd \in Fds |-> 0]
    /\ torn = {}

-----------------------------------------------------------------------------
(* Commands.                                                               *)

Length(r) == r.head + IF r.op = "set" THEN r.total + 2 ELSE 0

Bytes(n, r) == [i \in 1..Length(r) |-> <<n, i>>]

Stamp(n) == <<n, 0>>

\* What the n-th command, a set, has to put into the store.
WholeValue(n) ==
    LET r == sent[n].req IN
    [i \in 1..(r.total + 1) |-> <<n, IF i = 1 THEN 0 ELSE r.head + i - 1>>]

-----------------------------------------------------------------------------
(* The thread of handle_func.                                              *)

\* The reply is put into write_buf, and the descriptor waits for EPOLLOUT.
Reply(fd, s, reply) ==
    /\ slot' = [slot EXCEPT ![fd] = [s EXCEPT !.reply = reply]]
    /\ watch' = [watch EXCEPT ![fd] = "out"]

NoReply(fd, s) ==
    /\ slot' = [slot EXCEPT ![fd] = s]
    /\ UNCHANGED watch

\* How many bytes recv may return: what there is, up to the buffer, and up to
\* the end of the body that is being read.
Limit(fd) == IF slot[fd].need = 0 THEN BufSize
             ELSE Min({BufSize, slot[fd].need - Len(slot[fd].buf)})

AtHeader(bytes) == bytes[1][2] = 1

InBody(bytes) ==
    LET r == sent[bytes[1][1]].req IN bytes[1][2] \in r.head + 1..r.head + r.total

\* A header comes in one piece: that is, what is left of it if the body of an
\* earlier connection has taken its beginning.
CutsHeader(bytes, n) == n > 0 /\ bytes[n][2] < sent[bytes[n][1]].req.head

Counts(fd) ==
    {n \in 1..Min({Limit(fd), Len(net[fd])}) :
       slot[fd].need = 0 =>
          /\ ~CutsHeader(net[fd], n)
          /\ AtHeader(net[fd]) /\ fd \in Whole =>
                LET r == sent[net[fd][1][1]].req IN n # r.head + r.total + 1}

\* An expired value is removed by the get that finds it.  A value that is not
\* the one its command was to store has the expiry its bytes say.
Expired(k) ==
    /\ store[k] # << >>
    /\ LET n == store[k][1][1] IN sent[n].req.expires \/ store[k] # WholeValue(n)

ServeGet(fd, r) ==
    \/ /\ Expired(r.key)
       /\ store' = [store EXCEPT ![r.key] = << >>]
       /\ Reply(fd, slot[fd], <<"END">>)
    \/ /\ Reply(fd, slot[fd], IF store[r.key] = << >> THEN <<"END">>
                              ELSE <<"VALUE", store[r.key]>>)
       /\ UNCHANGED store

ServeDelete(fd, r) ==
    /\ store' = [store EXCEPT ![r.key] = << >>]
    /\ Reply(fd, slot[fd], IF store[r.key] = << >> THEN <<"NOT_FOUND">> ELSE <<"DELETED">>)

\* "one round enough", which does not count the line's end; the rest of what
\* was received is dropped.
OneRound(r, count) == r.head + r.total < count

Needed_NoLineEnd(r) == r.total + 1

Needed(r) == r.total + 1 + 2

ServeSet(fd, r, n, bytes) ==
    LET body == SubSeq(bytes, r.head + 1, Len(bytes)) IN
    IF r.huge THEN Reply(fd, slot[fd], <<"ERROR">>) /\ UNCHANGED store
    ELSE IF OneRound(r, Len(bytes))
      THEN /\ store' = [store EXCEPT ![r.key] = <<Stamp(n)>> \o SubSeq(body, 1, r.total)]
           /\ Reply(fd, slot[fd], <<"STORED">>)
      ELSE /\ NoReply(fd, [slot[fd] EXCEPT !.buf = <<Stamp(n)>> \o body,
                                           !.key = r.key, !.need = Needed(r)])
           /\ UNCHANGED store

\* The rest of a body: the value is what has been read but for two bytes.
Finished_KeepsNeed(s) == [s EXCEPT !.buf = << >>, !.key = "none"]

Finished(s) == [s EXCEPT !.need = 0, !.buf = << >>, !.key = "none"]

ServeBody(fd, bytes) ==
    LET s == slot[fd]
        buf == s.buf \o bytes
    IN  IF Len(buf) = s.need
          THEN /\ store' = [store EXCEPT ![s.key] = SubSeq(buf, 1, Len(buf) - 2)]
               /\ Reply(fd, Finished(s), <<"STORED">>)
          ELSE NoReply(fd, [s EXCEPT !.buf = buf]) /\ UNCHANGED store

\* A command is carried out, its header being there.
Serve(fd, r, bytes) ==
    /\ r.head <= Len(bytes)
    /\ \/ r.op = "get" /\ ServeGet(fd, r)
       \/ r.op = "delete" /\ ServeDelete(fd, r)
       \/ r.op = "set" /\ ServeSet(fd, r, bytes[1][1], bytes)

\* Anything that does not begin like a command gets no reply.
Dropped(fd) == NoReply(fd, slot[fd]) /\ UNCHANGED store

\* What comes while no body is read is matched against the commands, the rest
\* of a body whose length was refused too: it may read like any of them.
\* The end of a line and what is left of a header do not.
Handle(fd, bytes) ==
    \/ slot[fd].need # 0 /\ ServeBody(fd, bytes) /\ UNCHANGED torn
    \/ slot[fd].need = 0 /\ AtHeader(bytes) /\ Serve(fd, sent[bytes[1][1]].req, bytes) /\ UNCHANGED torn
    \/ slot[fd].need = 0 /\ ~AtHeader(bytes) /\ Dropped(fd) /\ UNCHANGED torn
    \/ /\ slot[fd].need = 0 /\ InBody(bytes)
       /\ \E r \in Requests : Serve(fd, r, bytes)
       /\ torn' = torn \cup {fd}

Input(fd) ==
    /\ conn[fd] # "free" /\ fd \notin High
    /\ watch[fd] = "in"
    /\ \E n \in Counts(fd) :
          /\ Handle(fd, SubSeq(net[fd], 1, n))
          /\ net' = [net EXCEPT ![fd] = SubSeq(@, n + 1, Len(@))]
    /\ UNCHANGED <<conn, sent, waits>>

\* The connection is over; its slot stays as it is.
Closes(fd) ==
    /\ conn' = [conn EXCEPT ![fd] = "free"]
    /\ torn' = IF slot[fd].buf = << >> THEN torn ELSE torn \cup {fd}

\* recv returns 0: the descriptor is closed.
EndOfInput(fd) ==
    /\ conn[fd] = "left" /\ fd \notin High
    /\ watch[fd] = "in" /\ net[fd] = << >>
    /\ Closes(fd)
    /\ UNCHANGED <<watch, slot, store, net, sent, waits>>

\* A connection whose number is too high is closed at its first event.
TooHigh(fd) ==
    /\ fd \in High
    /\ conn[fd] = "left" \/ net[fd] # << >>
    /\ conn' = [conn EXCEPT ![fd] = "free"]
    /\ net' = [net EXCEPT ![fd] = << >>]
    /\ waits' = [waits EXCEPT ![fd] = 0]
    /\ UNCHANGED <<watch, slot, store, sent, torn>>

\* The last byte of the reply goes out, and commands are read again.  (That a
\* part of it may go out first changes nothing else.)  A reply that comes when
\* its client waits for none, which needs a torn descriptor, is left aside.
Rewatch_Not(fd) == watch

Rewatch(fd) == [watch EXCEPT ![fd] = "in"]

Output(fd) ==
    /\ conn[fd] = "open"
    /\ watch[fd] = "out"
    /\ watch' = Rewatch(fd)
    /\ slot' = [slot EXCEPT ![fd].reply = NoAnswer]
    /\ IF waits[fd] = 0 \/ slot[fd].reply = NoAnswer THEN UNCHANGED <<sent, waits>>
       ELSE /\ sent' = [sent EXCEPT ![waits[fd]].reply = slot[fd].reply]
            /\ waits' = [waits EXCEPT ![fd] = 0]
    /\ UNCHANGED <<conn, store, net, torn>>

\* send fails because the client has gone, or does not know it yet.
OutputLost(fd) ==
    /\ conn[fd] = "left"
    /\ watch[fd] = "out"
    /\ slot' = [slot EXCEPT ![fd].reply = NoAnswer]
    /\ \/ watch' = [watch EXCEPT ![fd] = "in"] /\ UNCHANGED <<conn, net, torn>>
       \/ /\ Closes(fd)
          /\ net' = [net EXCEPT ![fd] = << >>]
          /\ UNCHANGED watch
    /\ UNCHANGED <<store, sent, waits>>

-----------------------------------------------------------------------------
\* The main thread.
Accept(fd) ==
    /\ conn[fd] = "free"
    /\ conn' = [conn EXCEPT ![fd] = "open"]
    /\ watch' = [watch EXCEPT ![fd] = "in"]
    /\ UNCHANGED <<slot, store, net, sent, waits, torn>>

\* Clients (external) send one command and wait for its reply.
Send(fd) ==
    /\ conn[fd] = "open" /\ waits[fd] = 0
    /\ Len(sent) < MaxSent
    /\ \E r \in Requests :
          /\ sent' = Append(sent, [req |-> r, fd |-> fd, reply |-> NoAnswer])
          /\ net' = [net EXCEPT ![fd] = @ \o Bytes(Len(sent) + 1, r)]
    /\ waits' = [waits EXCEPT ![fd] = Len(sent) + 1]
    /\ UNCHANGED <<conn, watch, slot, store, torn>>

\* A client may leave while it waits, and in the middle of a body.
Leave(fd) ==
    /\ conn[fd] = "open"
    /\ conn' = [conn EXCEPT ![fd] = "left"]
    /\ \E n \in 0..Len(net[fd]) :
          /\ ~CutsHeader(net[fd], n)
          /\ net' = [net EXCEPT ![fd] = SubSeq(@, 1, n)]
    /\ waits' = [waits EXCEPT ![fd] = 0]
    /\ UNCHANGED <<watch, slot, store, sent, torn>>

Event(fd) == Input(fd) \/ EndOfInput(fd) \/ TooHigh(fd) \/ Output(fd) \/ OutputLost(fd)

Rest == (\A fd \in Fds : waits[fd] = 0) /\ UNCHANGED vars

Next ==
    \/ \E fd \in Fds : Event(fd) \/ Accept(fd) \/ Send(fd) \/ Leave(fd)
    \/ Rest

\* The thread goes round, and takes every event of a batch.
Fairness == \A fd \in Fds : WF_vars(Event(fd))

Spec == Init /\ [][Next]_vars /\ Fairness

-----------------------------------------------------------------------------
(* Properties.                                                             *)

\* The bytes a client left in the middle of a body count for the next
\* connection with its number, and those of a refused body may be carried out:
\* what is said of whole values and of replies is of the other descriptors.

\* In the store there are whole values, each under the key it was sent for:
\* whatever way the bodies came in pieces, next to those of other clients.
StoredWhole ==
    \A k \in Keys : store[k] # << >> =>
       LET n == store[k][1][1] IN
       sent[n].fd \notin torn =>
          sent[n].req.op = "set" /\ sent[n].req.key = k /\ store[k] = WholeValue(n)

\* A reply is one to the command its client waits for, and STORED comes when
\* the whole value is in.
Fits(r, reply) ==
    CASE r.op = "get" -> reply[1] \in {"END", "VALUE"}
      [] r.op = "set" -> reply[1] = IF r.huge THEN "ERROR" ELSE "STORED"
      [] r.op = "delete" -> reply[1] \in {"DELETED", "NOT_FOUND"}

RepliesFit ==
    \A n \in DOMAIN sent :
       sent[n].reply # NoAnswer /\ sent[n].fd \notin torn =>
          /\ Fits(sent[n].req, sent[n].reply)
          /\ sent[n].reply[1] = "VALUE" =>
                LET m == sent[n].reply[2][1][1] IN
                sent[m].fd \in torn \/ sent[m].req.key = sent[n].req.key

\* A client that waits for each reply gets one to every command, where sets
\* come with the end of their line and no length is refused: otherwise what
\* remains of a body is taken for commands.
Refused(fd) == \E n \in DOMAIN sent : sent[n].fd = fd /\ sent[n].req.huge

Answered ==
    \A fd \in Whole \ High :
       waits[fd] # 0 ~> waits[fd] = 0 \/ fd \in torn \/ Refused(fd)

\* A slot has nothing left in it when its next connection is accepted.
SlotsEmpty ==
    \A fd \in Fds \ torn : conn[fd] = "free" => slot[fd] = EmptySlot

\* A value, and a body under way, is made of bytes of one descriptor, torn
\* or not: what goes wrong on one stays on it.
OneSource(bytes) == \A i \in DOMAIN bytes : sent[bytes[i][1]].fd = sent[bytes[1][1]].fd

Unmixed ==
    /\ \A k \in Keys : OneSource(store[k])
    /\ \A fd \in Fds : OneSource(slot[fd].buf)

\* No connection gets anything that was meant for another one.
ConnectionsApart == SlotsEmpty /\ RepliesFit /\ Unmixed

-----------------------------------------------------------------------------
(* The inductive invariant behind ConnectionsApart and StoredWhole;        *)
(* V1ServerProofs shows that every step preserves it.                      *)

Byte == Nat \X Nat

Replies ==
    {NoAnswer, <<"END">>, <<"DELETED">>, <<"NOT_FOUND">>, <<"STORED">>, <<"ERROR">>}
    \cup ({"VALUE"} \X Seq(Byte))

ServerTypeOK ==
    /\ conn \in [Fds -> {"free", "open", "left"}]
    /\ watch \in [Fds -> {"in", "out"}]
    /\ slot \in [Fds -> [need : Nat, buf : Seq(Byte), key : Keys \cup {"none"}, reply : Replies]]
    /\ store \in [Keys -> Seq(Byte)]
    /\ net \in [Fds -> Seq(Byte)]
    /\ sent \in Seq([req : Requests, fd : Fds, reply : Replies])
    /\ waits \in [Fds -> Nat]
    /\ torn \subseteq Fds

\* Command n was sent on fd.
SentOn(n, fd) == n \in 1..Len(sent) /\ sent[n].fd = fd

\* All that is on its way on a descriptor, and all that is in its slot, was
\* sent there.
Sources(fd) ==
    /\ waits[fd] # 0 => SentOn(waits[fd], fd)
    /\ \A i \in 1..Len(net[fd]) : SentOn(net[fd][i][1], fd)
    /\ conn[fd] = "free" => net[fd] = << >>
    /\ slot[fd].need # 0 => /\ slot[fd].buf # << >> /\ slot[fd].need >= 3
                            /\ slot[fd].key \in Keys
    /\ \A i \in 1..Len(slot[fd].buf) : SentOn(slot[fd].buf[i][1], fd)
    /\ fd \in High => slot[fd] = EmptySlot

\* What is stored was sent, on one descriptor.
StoreSources ==
    \A k \in Keys : store[k] # << >> =>
        \E fd \in Fds : \A i \in 1..Len(store[k]) : SentOn(store[k][i][1], fd)

\* A header on its way is that of the command its client waits for, and
\* nothing was sent behind that command.
HeaderNext(fd) ==
    \A h \in 1..Len(net[fd]) : net[fd][h][2] = 1 =>
        /\ slot[fd].need = 0 /\ watch[fd] = "in"
        /\ conn[fd] = "open" => net[fd][h][1] = waits[fd]
        /\ \A j \in h..Len(net[fd]) : net[fd][j] = <<net[fd][h][1], j - h + 1>>

\* A body under way is the one its client waits for: what has been read is
\* its beginning, and what is on its way its rest.
BodyUnderWay(fd) ==
    LET s == slot[fd]
        n == s.buf[1][1]
        r == sent[n].req
    IN  s.need # 0 =>
          /\ conn[fd] # "free" /\ watch[fd] = "in"
          /\ conn[fd] = "open" => waits[fd] = n
          /\ r.op = "set" /\ ~r.huge /\ s.key = r.key
          /\ s.need = r.total + 3
          /\ Len(s.buf) < s.need
          /\ \A i \in 1..Len(s.buf) : s.buf[i] = <<n, IF i = 1 THEN 0 ELSE r.head + i - 1>>
          /\ \A i \in 1..Len(net[fd]) : net[fd][i] = <<n, r.head + Len(s.buf) + i - 1>>

\* Between commands a slot holds nothing but the reply that is to go out.
BetweenCommands(fd) ==
    /\ slot[fd].need = 0 => slot[fd].buf = << >> /\ slot[fd].key = "none"
    /\ watch[fd] = "in" \/ conn[fd] = "free" => slot[fd].reply = NoAnswer

\* VALUE comes with a value of the key that was asked for.
ValueFits(r, reply) ==
    reply[1] = "VALUE" =>
        /\ reply[2] # << >> /\ reply[2][1][1] \in 1..Len(sent)
        /\ sent[reply[2][1][1]].fd \in torn \/ sent[reply[2][1][1]].req.key = r.key

Suits(r, reply) == Fits(r, reply) /\ ValueFits(r, reply)

\* The reply that is to go out is one to the command its client waits for.
ReplyDue(fd) ==
    watch[fd] = "out" /\ conn[fd] = "open" =>
        /\ waits[fd] # 0
        /\ slot[fd].reply # NoAnswer => Suits(sent[waits[fd]].req, slot[fd].reply)

\* So were those that have gone out.
RepliesSuit ==
    \A n \in 1..Len(sent) :
        sent[n].reply # NoAnswer /\ sent[n].fd \notin torn => Suits(sent[n].req, sent[n].reply)

InStep(fd) == HeaderNext(fd) /\ BodyUnderWay(fd) /\ BetweenCommands(fd) /\ ReplyDue(fd)

ServerInv ==
    /\ ServerTypeOK
    /\ \A fd \in Fds : Sources(fd)
    /\ StoreSources
    /\ \A fd \in Fds \ torn : InStep(fd)
    /\ StoredWhole
    /\ RepliesSuit

=============================================================================
