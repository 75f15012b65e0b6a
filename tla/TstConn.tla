------------------------------- MODULE TstConn -------------------------------
(***************************************************************************)
(* The connections of one worker: tstserver.c from accept to close (the    *)
(* slots of g_io_table, the receive and send lists, the recognition of     *)
(* commands in the byte stream, the epoll registrations) and the pool of   *)
(* buffers of buffer_pool.c that the worker's connections share.  Workers  *)
(* share nothing of this with each other; the main thread writes a slot    *)
(* when it hands the worker a connection, and the number of a descriptor   *)
(* is free again as soon as the worker has closed it.                      *)
(*                                                                         *)
(* A byte is a pair <<n, i>>: the i-th byte of the n-th command sent on    *)
(* its connection, or of the reply to the n-th command served.  A list of  *)
(* buffers is the sequence of their contents; a buffer of the pool has no  *)
(* identity here, so the pool is the number of buffers on its free list.   *)
(* What a command does is TstStore's subject: here it has a reply.         *)
(***************************************************************************)
EXTENDS Integers, Sequences, FiniteSets, SequencesExt

CONSTANTS
    Fds,            \* the descriptors
    Commands,       \* the commands clients may send
    Unit,           \* bytes in a buffer (BUF_UNIT_SIZE, 512)
    PoolSize,       \* buffers of the pool (BUF_POOL_SIZE, 20000)
    ValueLimit,     \* VALUE_LIMIT, 1000000
    MaxConns,       \* bound: connections accepted
    MaxCommands     \* bound: commands sent, on all connections

\* head is the length of the header without its "\r\n".  A write command
\* (set, cas) announces and sends a body of body bytes, the nl-th of which is
\* "\n" if nl is not 0, and another "\r\n".  reply is the length of the reply,
\* 0 for quit and for a storage command that cannot be parsed.
Command == [write : BOOLEAN, quit : BOOLEAN, head : Nat, body : Nat, nl : Nat,
            reply : Nat]

ASSUME CommandsAssumption ==
    /\ Commands \subseteq Command
    /\ \A c \in Commands : /\ c.head > 0
                           /\ c.nl <= c.body /\ c.body <= ValueLimit
                           /\ ~c.write => c.body = 0
                           /\ c.quit => ~c.write

ASSUME SizesAssumption ==
    /\ Unit \in Nat \ {0} /\ PoolSize \in Nat \ {0} /\ ValueLimit \in Nat
    /\ MaxConns \in Nat /\ MaxCommands \in Nat

\* g_io_table has MAX_EPOLL_FD slots for each worker.
ASSUME DescriptorsAssumption == IsFiniteSet(Fds)

VARIABLES
    pool,           \* buffers on the worker's free list
    io,             \* the slots of g_io_table[worker]
    epoll,          \* what each descriptor is registered for
    at,             \* the worker: where it is, and handle_input's locals
    \* the other ends
    wire,           \* the bytes sent and not yet received
    peer,           \* the client: "up", "fin" (closed) or "rst" (gone)
    sent,           \* the commands the client has sent
    got,            \* the reply bytes handed to the socket
    conns,          \* connections accepted so far
    \* history
    handled,        \* for each command handled: its number if header and
                    \* body were exactly those that were sent, else 0
    overtaken,      \* a slot was given away between close and destroy_io_data
    failed          \* the assertion that has stopped the process, if any

sides == <<wire, peer, sent>>
vars == <<pool, io, epoll, at, wire, peer, sent, got, conns, handled,
          overtaken, failed>>

-----------------------------------------------------------------------------
(* Lists of buffers.                                                       *)

Bytes(list) == FlattenSeq(list)

\* What is left of a list once k bytes are taken from its front; the buffers
\* they empty go back to the pool.
Drop(list, k) ==
    LET Taken(n) == Len(Bytes(SubSeq(list, 1, n)))
        n == Max({j \in 0..Len(list) : Taken(j) <= k})
    IN  IF n = Len(list) THEN << >>
        ELSE <<SubSeq(list[n + 1], k - Taken(n) + 1, Len(list[n + 1]))>>
             \o SubSeq(list, n + 2, Len(list))

\* append_send_data: the last buffer is filled up, the rest goes into new ones.
Chunks_Truncated(bytes) ==
    [j \in 1..(Len(bytes) \div Unit) |-> SubSeq(bytes, (j - 1) * Unit + 1, j * Unit)]

Chunks(bytes) ==
    [j \in 1..((Len(bytes) + Unit - 1) \div Unit) |->
        SubSeq(bytes, (j - 1) * Unit + 1, Min({j * Unit, Len(bytes)}))]

Extended_Overfills(list, bytes) ==
    IF list = << >> THEN Chunks(bytes)
    ELSE Front(list) \o <<Last(list) \o bytes>>

Extended(list, bytes) ==
    IF list = << >> THEN Chunks(bytes)
    ELSE LET room == Unit - Len(Last(list))
             fits == Min({room, Len(bytes)})
         IN  Front(list) \o <<Last(list) \o SubSeq(bytes, 1, fits)>>
                         \o Chunks(SubSeq(bytes, fits + 1, Len(bytes)))

-----------------------------------------------------------------------------
(* Recognising commands.                                                   *)

Length(c) == c.head + 2 + IF c.write THEN c.body + 2 ELSE 0

\* The bytes of the n-th command, and which of them are "\n".
Text(n, c) == [i \in 1..Length(c) |-> <<n, i>>]

IsNewline(fd, b) ==
    LET c == sent[fd][b[1]] IN
    b[2] \in {c.head + 2, Length(c)} \/ (c.nl > 0 /\ b[2] = c.head + 2 + c.nl)

Newlines(fd, bytes) == {i \in 1..Len(bytes) : IsNewline(fd, bytes[i])}

\* has_header: a length found earlier is not looked for again, and the line
\* is taken to end in "\r\n".
HasHeader_FirstBuffer(fd) ==
    /\ io[fd].in # << >>
    /\ io[fd].hlen > 0 \/ Newlines(fd, io[fd].in[1]) # {}

HasHeader(fd) ==
    /\ io[fd].in # << >>
    /\ io[fd].hlen > 0 \/ Newlines(fd, Bytes(io[fd].in)) # {}

HeaderLen(fd) ==
    IF io[fd].hlen > 0 THEN io[fd].hlen
    ELSE Max({0, Min(Newlines(fd, Bytes(io[fd].in))) - 2})

\* The number of the command that the header in front is the text of, 0 if it
\* is none.
Header(fd, h) == SubSeq(Bytes(io[fd].in), 1, h)

Parsed(fd, h) ==
    Max({0} \cup {n \in 1..Len(sent[fd]) :
           Header(fd, h) = SubSeq(Text(n, sent[fd][n]), 1, sent[fd][n].head)})

\* get_body_len, for a header of length h that is the n-th command's, or 0:
\* only a write command has a body.
BodyLen(fd, n) == IF n = 0 THEN 0 ELSE Min({sent[fd][n].body, ValueLimit})

Measured(fd, h, n) ==
    IF io[fd].blen >= 0 THEN [io[fd] EXCEPT !.hlen = h]
    ELSE [io[fd] EXCEPT !.hlen = h, !.blen = BodyLen(fd, n),
                        !.write = n # 0 /\ sent[fd][n].write]

\* has_body goes by the number of bytes received.
HasBody_Early(s) == s.blen >= 0 /\ s.inLen >= s.hlen + 2 + s.blen

HasBody(s) == s.blen >= 0 /\ s.inLen >= s.hlen + 4 + s.blen

\* fix_buf_len
Fixed_Keeps(s) == [s EXCEPT !.hlen = 0, !.blen = -1,
                            !.inLen = Max({0, @ - (s.hlen + s.blen + 2)})]

Fixed(s) ==
    [s EXCEPT !.hlen = 0, !.blen = -1,
              !.inLen = Max({0, @ - (s.hlen + s.blen + IF s.write THEN 4 ELSE 2)})]

-----------------------------------------------------------------------------
(* The slots and the other ends.                                           *)

Fresh == [in |-> << >>, out |-> << >>, inLen |-> 0, hlen |-> 0, blen |-> -1,
          write |-> FALSE]

Init ==
    /\ pool = PoolSize
    /\ io = [fd \in Fds |-> Fresh]
    /\ epoll = [fd \in Fds |-> "none"]
    /\ at = [pc |-> "wait"]
    /\ wire = [fd \in Fds |-> << >>]
    /\ peer = [fd \in Fds |-> "fin"]
    /\ sent = [fd \in Fds |-> << >>]
    /\ got = [fd \in Fds |-> << >>]
    /\ conns = 0
    /\ handled = [fd \in Fds |-> << >>]
    /\ overtaken = FALSE
    /\ failed = "none"

\* alloc_io_data leaves in_buf_len (and out_buf_len, which nobody reads).
Allocated(s) == [Fresh EXCEPT !.inLen = s.inLen]

\* do_accept: the main thread hands the worker a connection.  The other
\* workers take connections too, so any descriptor may be the next one.
Accept(fd) ==
    /\ failed = "none"
    /\ conns < MaxConns
    /\ epoll[fd] = "none"
    /\ conns' = conns + 1
    /\ io' = [io EXCEPT ![fd] = Allocated(@)]
    /\ epoll' = [epoll EXCEPT ![fd] = "in"]
    /\ wire' = [wire EXCEPT ![fd] = << >>]
    /\ peer' = [peer EXCEPT ![fd] = "up"]
    /\ sent' = [sent EXCEPT ![fd] = << >>]
    /\ got' = [got EXCEPT ![fd] = << >>]
    /\ handled' = [handled EXCEPT ![fd] = << >>]
    /\ overtaken' = (overtaken \/ (at.pc = "closing" /\ at.fd = fd))
    /\ UNCHANGED <<pool, at, failed>>

Total == SumFunction([fd \in Fds |-> Len(sent[fd])])

\* The client sends a command; how it is cut up on the way is up to recv.
Send(fd, c) ==
    /\ epoll[fd] # "none" /\ peer[fd] = "up"
    /\ Total < MaxCommands
    /\ sent' = [sent EXCEPT ![fd] = Append(@, c)]
    /\ wire' = [wire EXCEPT ![fd] = @ \o Text(Len(sent'[fd]), c)]
    /\ UNCHANGED <<pool, io, epoll, at, peer, got, conns, handled, overtaken, failed>>

\* The client closes the connection, or it breaks.
Leave(fd, how) ==
    /\ epoll[fd] # "none" /\ peer[fd] = "up"
    /\ peer' = [peer EXCEPT ![fd] = how]
    /\ UNCHANGED <<pool, io, epoll, at, wire, sent, got, conns, handled, overtaken, failed>>

-----------------------------------------------------------------------------
(* The worker.                                                             *)

\* alloc_buf asserts that the free list is not empty after it took a buffer.
CanAlloc(n, free) == n = 0 \/ n < free

Fail(what) ==
    /\ failed' = what
    /\ UNCHANGED <<pool, io, epoll, at, sides, got, conns, handled, overtaken>>

Waiting(fd) == failed = "none" /\ at.pc = "wait" /\ epoll[fd] # "none"

\* destroy_fd up to close; destroy_io_data follows in Release.
Close(fd, quit, armed) ==
    /\ epoll' = [epoll EXCEPT ![fd] = "none"]
    /\ at' = [pc |-> "closing", fd |-> fd, quit |-> quit, armed |-> armed]

\* handle_input begins: append_recv_data takes a buffer and receives into it.
Input(fd) ==
    /\ Waiting(fd)
    /\ CanAlloc(1, pool)
    /\ \E n \in 1..Min({Unit, Len(wire[fd])}) :
          /\ wire' = [wire EXCEPT ![fd] = SubSeq(@, n + 1, Len(@))]
          /\ io' = [io EXCEPT ![fd].in = Append(@, SubSeq(wire[fd], 1, n)),
                              ![fd].inLen = @ + n]
    /\ pool' = pool - 1
    /\ at' = [pc |-> "input", fd |-> fd, armed |-> FALSE]
    /\ UNCHANGED <<epoll, peer, sent, got, conns, handled, overtaken, failed>>

\* It receives nothing: the connection is over, and the buffer is in the list.
Over_Reset(fd) == peer[fd] = "rst"

Over(fd) == peer[fd] = "rst" \/ (peer[fd] = "fin" /\ wire[fd] = << >>)

EndOfInput(fd) ==
    /\ Waiting(fd)
    /\ CanAlloc(1, pool)
    /\ Over(fd)
    /\ io' = [io EXCEPT ![fd].in = Append(@, << >>)]
    /\ pool' = pool - 1
    /\ Close(fd, FALSE, FALSE)
    /\ UNCHANGED <<sides, got, conns, handled, overtaken, failed>>

NoBuffer(fd) ==
    /\ Waiting(fd)
    /\ ~CanAlloc(1, pool)
    /\ wire[fd] # << >> \/ Over(fd)
    /\ Fail("alloc_buf")

\* handle_input's loop: has_header and get_body_len, then has_body, and a
\* whole command is taken out of the list, handled and answered.
Serving(fd, pc) == failed = "none" /\ at.pc = pc /\ at.fd = fd

Measure(fd) ==
    /\ Serving(fd, "input")
    /\ HasHeader(fd)
    /\ \E h \in {HeaderLen(fd)} :
          io' = [io EXCEPT ![fd] = Measured(fd, h, Parsed(fd, h))]
    /\ at' = [at EXCEPT !.pc = "measured"]
    /\ UNCHANGED <<pool, epoll, sides, got, conns, handled, overtaken, failed>>

IsWhole(fd) == io[fd].write => HasBody(io[fd])

\* What read_header and read_body leave of the list.
AfterHeader(s) == Drop(s.in, s.hlen + 2)

AfterCommand(s) == IF s.write THEN Drop(AfterHeader(s), s.blen + 2) ELSE AfterHeader(s)

\* The n-th command, if what they return is its header and its body.
ReadAs(fd, n) ==
    IF /\ n # 0
       /\ io[fd].blen = sent[fd][n].body
       /\ IsPrefix(SubSeq(Text(n, sent[fd][n]), 1, Length(sent[fd][n]) - 2),
                   Bytes(io[fd].in))
    THEN n ELSE 0

\* "ERROR\r\n" answers what is not a command.
Reply(fd, n) ==
    [i \in 1..(IF n = 0 THEN 1 ELSE sent[fd][n].reply) |-> <<Len(handled[fd]) + 1, i>>]

\* handle_cmd, on a list of which rest is left.
Answer(fd, n, rest, freed) ==
    \E out \in {Extended(io[fd].out, Reply(fd, n))} :
       LET new == Len(out) - Len(io[fd].out) IN
       IF CanAlloc(new, pool + freed)
         THEN /\ io' = [io EXCEPT ![fd] = Fixed([@ EXCEPT !.in = rest, !.out = out])]
              /\ pool' = pool + freed - new
              /\ handled' = [handled EXCEPT ![fd] = Append(@, ReadAs(fd, n))]
              /\ at' = [at EXCEPT !.pc = "input", !.armed = @ \/ out # << >>]
              /\ UNCHANGED <<epoll, sides, got, conns, overtaken, failed>>
         ELSE Fail("alloc_buf")

AnswerQuit(fd, n, rest, freed) ==
    /\ io' = [io EXCEPT ![fd].in = rest]
    /\ pool' = pool + freed
    /\ handled' = [handled EXCEPT ![fd] = Append(@, ReadAs(fd, n))]
    /\ Close(fd, TRUE, at.armed)
    /\ UNCHANGED <<sides, got, conns, overtaken, failed>>

Serve(fd) ==
    /\ Serving(fd, "measured")
    /\ IsWhole(fd)
    /\ io[fd].write => AfterHeader(io[fd]) # << >>
    /\ \E n \in {Parsed(fd, io[fd].hlen)}, rest \in {AfterCommand(io[fd])} :
          LET freed == Len(io[fd].in) - Len(rest) IN
          IF n # 0 /\ sent[fd][n].quit THEN AnswerQuit(fd, n, rest, freed)
                                       ELSE Answer(fd, n, rest, freed)

\* read_body asserts that the header was not all there was.
NoBody(fd) ==
    /\ Serving(fd, "measured")
    /\ io[fd].write /\ HasBody(io[fd]) /\ AfterHeader(io[fd]) = << >>
    /\ Fail("read_body")

\* handle_input ends: there is no whole command left.
Armed_Never(fd) == epoll

Armed(fd) ==
    IF at.armed /\ epoll[fd] # "none" THEN [epoll EXCEPT ![fd] = "inout"] ELSE epoll

EndInput(fd) ==
    /\ \/ Serving(fd, "input") /\ ~HasHeader(fd)
       \/ Serving(fd, "measured") /\ ~IsWhole(fd)
    /\ epoll' = Armed(fd)
    /\ at' = [pc |-> "wait"]
    /\ UNCHANGED <<pool, io, sides, got, conns, handled, overtaken, failed>>

\* handle_output sends what the socket takes of the first buffer.
Writable(fd) == Waiting(fd) /\ epoll[fd] = "inout" /\ io[fd].out # << >>

Output(fd) ==
    /\ Writable(fd)
    /\ peer[fd] # "rst"
    /\ LET out == io[fd].out IN
       \E n \in 1..Len(out[1]) :
          /\ got' = [got EXCEPT ![fd] = @ \o SubSeq(out[1], 1, n)]
          /\ IF n < Len(out[1])
                THEN /\ io' = [io EXCEPT ![fd].out[1] = SubSeq(@, n + 1, Len(@))]
                     /\ UNCHANGED <<pool, epoll>>
                ELSE /\ io' = [io EXCEPT ![fd].out = Tail(@)]
                     /\ pool' = pool + 1
                     /\ epoll' = [epoll EXCEPT ![fd] = IF Len(out) = 1 THEN "in" ELSE @]
    /\ UNCHANGED <<at, sides, conns, handled, overtaken, failed>>

\* send fails on a connection reset since epoll_wait, and its -1 is taken for
\* a length: the buffer grows by a byte.  The next epoll_wait reports the
\* reset as input, so it does so once.  (A full buffer would be overrun, which
\* is not followed.)
Junk == <<0, 0>>

OutputFails(fd) ==
    /\ Writable(fd)
    /\ peer[fd] = "rst"
    /\ io[fd].out[1][1] # Junk /\ Len(io[fd].out[1]) < Unit
    /\ io' = [io EXCEPT ![fd].out[1] = <<Junk>> \o @]
    /\ UNCHANGED <<pool, epoll, at, sides, got, conns, handled, overtaken, failed>>

\* An event that is neither input nor output.
HangUp(fd) ==
    /\ Waiting(fd)
    /\ peer[fd] = "rst"
    /\ Close(fd, FALSE, FALSE)
    /\ UNCHANGED <<pool, io, sides, got, conns, handled, overtaken, failed>>

\* destroy_io_data, at the end of destroy_fd.  in_buf_len is reset with the
\* list, if there is one.  quit returns to handle_input.
Emptied_KeepsHead(s) == [s EXCEPT !.in = << >>, !.inLen = 0]

Emptied(s) ==
    [s EXCEPT !.in = << >>, !.out = << >>, !.inLen = IF s.in = << >> THEN @ ELSE 0]

Release(fd) ==
    /\ failed = "none"
    /\ at.pc = "closing" /\ at.fd = fd
    /\ pool' = pool + Len(io[fd].in) + Len(io[fd].out)
    /\ io' = [io EXCEPT ![fd] = IF at.quit THEN Fixed(Emptied(@)) ELSE Emptied(@)]
    /\ at' = IF at.quit THEN [pc |-> "input", fd |-> fd, armed |-> at.armed]
                        ELSE [pc |-> "wait"]
    /\ UNCHANGED <<epoll, sides, got, conns, handled, overtaken, failed>>

\* epoll_wait times out, or the process is dead.
Rest == (at.pc = "wait" \/ failed # "none") /\ UNCHANGED vars

Client(fd) ==
    \/ \E c \in Commands : Send(fd, c)
    \/ \E how \in {"fin", "rst"} : Leave(fd, how)

Receive(fd) == Input(fd) \/ EndOfInput(fd) \/ NoBuffer(fd)

Loop(fd) ==
    Measure(fd) \/ Serve(fd) \/ NoBody(fd) \/ EndInput(fd) \/ Release(fd)

Next ==
    \/ \E fd \in Fds :
          \/ Accept(fd) \/ Client(fd)
          \/ Receive(fd) \/ Loop(fd)
          \/ Output(fd) \/ OutputFails(fd) \/ HangUp(fd)
    \/ Rest

Spec == Init /\ [][Next]_vars

\* Every event of a batch is handled before the next epoll_wait, a socket
\* whose client reads becomes writable, and the worker never stops inside a
\* handler.  The last is weak fairness of Loop, with what enables it written
\* out: outside epoll_wait Loop can always take a step.
Busy == failed = "none" /\ at.pc # "wait"

FairSpec ==
    /\ Spec
    /\ \A fd \in Fds : WF_vars(Receive(fd)) /\ WF_vars(Output(fd))
    /\ <>[]Busy => []<><<\E fd \in Fds : Loop(fd)>>_vars

-----------------------------------------------------------------------------
(* What the worker guarantees as long as no slot was given away early.     *)

IsByte(b) == b \in Nat \X Nat

IsList(list) ==
    \A i \in 1..Len(list) : \A j \in 1..Len(list[i]) : IsByte(list[i][j])

\* The variables keep to their types: a list holds no buffer that is too
\* long, and the pool never gives its last one away.
TypeOK ==
    /\ pool \in 1..PoolSize
    /\ \A fd \in Fds :
          /\ IsList(io[fd].in) /\ IsList(io[fd].out)
          /\ \A i \in 1..Len(io[fd].in) : Len(io[fd].in[i]) <= Unit
          /\ peer[fd] = "up" => \A i \in 1..Len(io[fd].out) : Len(io[fd].out[i]) \in 1..Unit
          /\ io[fd].inLen \in Nat /\ io[fd].hlen \in Nat /\ io[fd].write \in BOOLEAN
          /\ io[fd].blen \in -1..ValueLimit
          /\ sent[fd] \in Seq(Commands)
          /\ IsList(<<wire[fd], got[fd]>>)
          /\ handled[fd] \in Seq(0..Len(sent[fd]))
    /\ epoll \in [Fds -> {"none", "in", "inout"}]
    /\ peer \in [Fds -> {"up", "fin", "rst"}]
    /\ at.pc \in {"wait", "input", "measured", "closing"}
    /\ conns \in 0..MaxConns
    /\ overtaken \in BOOLEAN
    /\ failed \in {"none", "alloc_buf", "read_body"}

Connected(fd) == epoll[fd] # "none"

\* However the stream is cut up, whatever arrives together and whatever the
\* bodies contain, the commands handled are those sent, in order, each with
\* its own header and body.
FramedExactly ==
    ~overtaken => \A fd \in Fds : \A j \in 1..Len(handled[fd]) : handled[fd][j] = j

\* What the client has received and what waits in the send list are together
\* the replies to the commands handled, in order, through partial sends.
Owed(fd) ==
    FlattenSeq([j \in 1..Len(handled[fd]) |->
                   [i \in 1..sent[fd][handled[fd][j]].reply |-> <<j, i>>]])

RepliesInOrder ==
    ~overtaken => \A fd \in Fds : Connected(fd) /\ peer[fd] # "rst" =>
                     got[fd] \o Bytes(io[fd].out) = Owed(fd)

\* Every buffer is on the free list or in a list of a slot: connections come
\* and go for ever, so one that is lost is lost for ever.
PoolAccounted ==
    ~overtaken =>
        pool + SumFunction([fd \in Fds |-> Len(io[fd].in) + Len(io[fd].out)]) = PoolSize

\* in_buf_len, by which has_body goes, is what the receive list holds, also
\* when the slot is used again.
LengthsAgree ==
    ~overtaken => \A fd \in Fds :
        (at.pc = "closing" => at.fd # fd) /\ (at.pc \in {"input", "measured"} => Connected(fd)) =>
            io[fd].inLen = Len(Bytes(io[fd].in))

\* The worker does not wait for more input on a connection while a whole
\* command is in its list: epoll would not report it again.
NothingLeftBehind ==
    at.pc = "wait" /\ ~overtaken => \A fd \in Fds :
        LET n == Len(handled[fd]) + 1 IN
        Connected(fd) /\ n <= Len(sent[fd]) =>
            Len(Bytes(io[fd].in)) < Length(sent[fd][n])

\* Together: what a slot holds between two events is what the code takes it for.
SlotsSound == TypeOK /\ LengthsAgree /\ NothingLeftBehind

Stopped == failed # "none" \/ overtaken

\* Everything sent on a connection that lasts is handled, and its replies are
\* handed over.
AnswersArrive ==
    \A fd \in Fds :
        Connected(fd) ~> \/ ~Connected(fd) \/ peer[fd] # "up" \/ Stopped
                         \/ /\ Len(handled[fd]) = Len(sent[fd])
                            /\ io[fd].out = << >>

\* A connection whose client has left is closed.
ClosedAreFreed ==
    \A fd \in Fds : Connected(fd) /\ peer[fd] # "up" ~> ~Connected(fd) \/ Stopped

\* Both: no connection is forgotten, neither by its events nor by its end.
Progress == AnswersArrive /\ ClosedAreFreed

-----------------------------------------------------------------------------
(* What it does not.                                                       *)

\* read_body is only called once the body is there: "assert(q != NULL)".
BodyIsThere == failed # "read_body"

=============================================================================
