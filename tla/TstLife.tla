------------------------------- MODULE TstLife -------------------------------
(***************************************************************************)
(* The life of the server process: main, from the installation of its      *)
(* signal handlers to its end, the loop of do_accept, the loops of the     *)
(* workers as far as waiting and stopping go, exit_hook, and tst.sh, which *)
(* sends a signal every second until the process is gone.                  *)
(*                                                                         *)
(* A descriptor is a number, and open, socket, epoll_create and accept     *)
(* return the lowest one that is free.  listen_fd is 0 until socket sets   *)
(* it.  What is done with a request is TstConn's and TstStore's subject:   *)
(* here a connection has something to be read, or has not.                 *)
(***************************************************************************)
EXTENDS Integers, Sequences, FiniteSets, FiniteSetsExt, Functions

CONSTANTS
    Workers,        \* 0..WORKER_COUNT-1
    Conns,          \* the connections clients may make
    MaxFd           \* the last descriptor that may be opened (ulimit -n)

ASSUME SizesAssumption ==
    /\ IsFiniteSet(Workers) /\ Workers # {}
    /\ Workers = 0..(Cardinality(Workers) - 1)
    /\ MaxFd \in Nat /\ MaxFd > Cardinality(Workers) + 3

Files == <<"binlog", "data">>       \* opened by init_data, in this order

VARIABLES
    main,           \* where the main thread is
    opened,         \* files and epoll sets opened so far
    owner,          \* what each descriptor refers to
    listenFd,       \* listen_fd
    epfd,           \* g_ep_fd
    flag,           \* g_shutdown_flag
    g_nolog,        \* whether the log is off, from the configuration
    turn,           \* do_accept's worker_pointer
    wk,             \* where each worker is
    batch,          \* the events of a worker's last epoll_wait
    \* connections
    conn,           \* each one's state, and the worker it was given to
    wants,          \* it has sent something that is not read
    \* signals
    stop,           \* who wants the process to stop: "none", "once", "script"
    pending,        \* a signal is pending
    hurt,           \* history: files closed by somebody else than their owner
    early           \* history: a signal was handled before all the descriptors
                    \* of start-up were open

vars == <<main, opened, owner, listenFd, epfd, flag, g_nolog, turn, wk, batch,
          conn, wants, stop, pending, hurt, early>>

Descriptors == 0..MaxFd

FreeFds == {fd \in Descriptors : owner[fd] = "free"}

Lowest == Min(FreeFds)

Opens(what) == owner' = [owner EXCEPT ![Lowest] = what]

NoConn == [at |-> "none", worker |-> 0, fd |-> 0]

Init ==
    /\ main = "init"
    /\ opened = 0
    /\ owner = [fd \in Descriptors |-> IF fd = 0 THEN "stdin" ELSE "free"]
    /\ listenFd = 0
    /\ epfd = [w \in Workers |-> 0]
    /\ flag = FALSE
    /\ g_nolog \in BOOLEAN
    /\ turn = 0
    /\ wk = [w \in Workers |-> "none"]
    /\ batch = [w \in Workers |-> {}]
    /\ conn = [n \in Conns |-> NoConn]
    /\ wants = [n \in Conns |-> FALSE]
    /\ stop = "none"
    /\ pending = FALSE
    /\ hurt = {}
    /\ early = FALSE

clients == <<conn, wants>>
workers == <<wk, batch>>
signals == <<g_nolog, stop, pending, hurt, early>>

-----------------------------------------------------------------------------
(* Start-up, in main and init_data.                                        *)

OpenFile ==
    /\ main = "init" /\ opened < Len(Files)
    /\ opened' = opened + 1
    /\ Opens(Files[opened + 1])
    /\ UNCHANGED <<main, listenFd, epfd, flag, turn, workers, clients, signals>>

\* reload_index and replay_binlog, then socket.
ListenFd_Local == listenFd

ListenFd == Lowest

Socket ==
    /\ main = "init" /\ opened = Len(Files)
    /\ main' = "bind"
    /\ listenFd' = ListenFd
    /\ Opens("listen")
    /\ UNCHANGED <<opened, epfd, flag, turn, workers, clients, signals>>

\* do_bind_and_listen.
Listen ==
    /\ main = "bind"
    /\ owner[listenFd] = "listen"
    /\ main' = "listening"
    /\ UNCHANGED <<opened, owner, listenFd, epfd, flag, turn, workers, clients, signals>>

\* A signal has closed the socket: bind or listen fails, and the process
\* exits.  Its files are as replay_binlog left them.
Gone ==
    /\ main' = "gone"
    /\ owner' = [fd \in Descriptors |-> "free"]
    /\ conn' = [n \in Conns |-> [conn[n] EXCEPT !.at = "closed"]]
    /\ wants' = [n \in Conns |-> FALSE]
    /\ UNCHANGED <<opened, listenFd, epfd, flag, turn, workers, signals>>

ListenFails ==
    /\ main = "bind"
    /\ owner[listenFd] # "listen"
    /\ Gone

CreateEpoll ==
    /\ main = "listening"
    /\ opened' = opened + 1
    /\ LET w == opened - Len(Files) IN
       /\ epfd' = [epfd EXCEPT ![w] = Lowest]
       /\ main' = IF w + 1 \in Workers THEN main ELSE "spawning"
    /\ Opens("epoll")
    /\ UNCHANGED <<listenFd, flag, turn, workers, clients, signals>>

Spawn ==
    /\ main = "spawning"
    /\ main' = "select"
    /\ wk' = [w \in Workers |-> "call"]
    /\ UNCHANGED <<opened, owner, listenFd, epfd, flag, turn, batch, clients, signals>>

-----------------------------------------------------------------------------
(* do_accept.  select says that the listening socket has a connection, or  *)
(* fails because it has been closed; on any other descriptor it goes on    *)
(* waiting, and a signal only makes it start again.                        *)

Backlog == {n \in Conns : conn[n].at = "backlog"}

Selected ==
    /\ main = "select"
    /\ owner[listenFd] = "listen" /\ Backlog # {}
    /\ main' = "accept"
    /\ UNCHANGED <<opened, owner, listenFd, epfd, flag, turn, workers, clients, signals>>

Accept ==
    /\ main = "accept"
    /\ owner[listenFd] = "listen" /\ FreeFds # {}
    /\ \E n \in Backlog :
          /\ conn' = [conn EXCEPT ![n] = [at |-> "open", worker |-> turn, fd |-> Lowest]]
          /\ Opens("conn")
    /\ turn' = (turn + 1) % Cardinality(Workers)
    /\ main' = "log"
    /\ UNCHANGED <<opened, listenFd, epfd, flag, workers, wants, signals>>

\* No descriptor is free, or the socket was closed after select: a second's
\* sleep.
AcceptFails ==
    /\ main = "accept"
    /\ owner[listenFd] # "listen" \/ FreeFds = {}
    /\ main' = "sleep"
    /\ UNCHANGED <<opened, owner, listenFd, epfd, flag, turn, workers, clients, signals>>

LoopAgain ==
    /\ main \in {"log", "sleep"}
    /\ main' = "select"
    /\ UNCHANGED <<opened, owner, listenFd, epfd, flag, turn, workers, clients, signals>>

SelectFails ==
    /\ main = "select"
    /\ owner[listenFd] = "free" /\ flag
    /\ main' = "closing"
    /\ UNCHANGED <<opened, owner, listenFd, epfd, flag, turn, workers, clients, signals>>

-----------------------------------------------------------------------------
(* The end of main.                                                        *)

CloseEpolls_Not == UNCHANGED owner

CloseEpolls ==
    owner' = [fd \in Descriptors |-> IF fd \in Range(epfd) THEN "free" ELSE owner[fd]]

CloseAll ==
    /\ main = "closing"
    /\ CloseEpolls
    /\ main' = "join"
    /\ UNCHANGED <<opened, listenFd, epfd, flag, turn, workers, clients, signals>>

\* dump_tst closes its files and opens the new index.
Dump ==
    /\ main = "join"
    /\ \A w \in Workers : wk[w] = "exited"
    /\ LET closed == [fd \in Descriptors |->
                         IF owner[fd] \in Range(Files) THEN "free" ELSE owner[fd]]
       IN  owner' = [closed EXCEPT ![Min({fd \in Descriptors : closed[fd] = "free"})] = "index"]
    /\ main' = "dump"
    /\ UNCHANGED <<opened, listenFd, epfd, flag, turn, workers, clients, signals>>

\* It is written, closed and renamed; the binlog is removed.
Rename ==
    /\ main = "dump"
    /\ owner' = [fd \in Descriptors |-> IF owner[fd] = "index" THEN "free" ELSE owner[fd]]
    /\ main' = "renamed"
    /\ UNCHANGED <<opened, listenFd, epfd, flag, turn, workers, clients, signals>>

End ==
    /\ main = "renamed"
    /\ Gone

Main ==
    \/ OpenFile \/ Socket \/ Listen \/ ListenFails \/ CreateEpoll \/ Spawn
    \/ Selected \/ Accept \/ AcceptFails \/ LoopAgain \/ SelectFails
    \/ CloseAll \/ Dump \/ Rename \/ End

-----------------------------------------------------------------------------
(* A worker: handle_core.                                                  *)

Mine(w) ==
    {n \in Conns : conn[n].at \in {"open", "left"} /\ epfd[conn[n].worker] = epfd[w]}

Ready(w) == {n \in Mine(w) : wants[n] \/ conn[n].at = "left"}

\* epoll_wait is called: it fails on a closed descriptor, and goes on with one
\* that is closed while it waits.
Called_NoExit(w) == IF owner[epfd[w]] = "epoll" THEN "wait" ELSE "call"

Called(w) ==
    IF owner[epfd[w]] = "epoll" THEN "wait" ELSE IF flag THEN "exited" ELSE "call"

Call(w) ==
    /\ wk[w] = "call"
    /\ wk' = [wk EXCEPT ![w] = Called(w)]
    /\ UNCHANGED <<main, opened, owner, listenFd, epfd, flag, turn, batch, clients, signals>>

Wake(w) ==
    /\ wk[w] = "wait" /\ Ready(w) # {}
    /\ wk' = [wk EXCEPT ![w] = "handle"]
    /\ batch' = [batch EXCEPT ![w] = Ready(w)]
    /\ UNCHANGED <<main, opened, owner, listenFd, epfd, flag, turn, clients, signals>>

\* A second without events.
TimedOut_Exits(w) == "exited"

TimedOut(w) == IF flag THEN "exited" ELSE "call"

TimeOut(w) ==
    /\ wk[w] = "wait" /\ Ready(w) = {}
    /\ wk' = [wk EXCEPT ![w] = TimedOut(w)]
    /\ UNCHANGED <<main, opened, owner, listenFd, epfd, flag, turn, batch, clients, signals>>

\* A request is read and answered; a connection that is over is closed, which
\* is logged.
Dropped_Not(n) == conn

Dropped(n) == [conn EXCEPT ![n].at = "closed"]

Handle(w, n) ==
    /\ wk[w] = "handle" /\ n \in batch[w]
    /\ batch' = [batch EXCEPT ![w] = @ \ {n}]
    /\ IF conn[n].at = "left" /\ ~wants[n]
         THEN /\ main # "hung"
              /\ conn' = Dropped(n)
              /\ owner' = [owner EXCEPT ![conn[n].fd] = "free"]
         ELSE UNCHANGED <<conn, owner>>
    /\ wants' = [wants EXCEPT ![n] = FALSE]
    /\ UNCHANGED <<main, opened, listenFd, epfd, flag, turn, wk, signals>>

BatchDone(w) ==
    /\ wk[w] = "handle" /\ batch[w] = {}
    /\ wk' = [wk EXCEPT ![w] = "call"]
    /\ UNCHANGED <<main, opened, owner, listenFd, epfd, flag, turn, batch, clients, signals>>

Worker(w) ==
    \/ Call(w) \/ Wake(w) \/ TimeOut(w) \/ BatchDone(w)
    \/ \E n \in Conns : Handle(w, n)

-----------------------------------------------------------------------------
(* Clients (external): they connect while there is a listening socket, and *)
(* may send for ever.                                                      *)

Connect(n) ==
    /\ conn[n].at = "none"
    /\ main # "bind" /\ "listen" \in Range(owner)
    /\ conn' = [conn EXCEPT ![n].at = "backlog"]
    /\ UNCHANGED <<main, opened, owner, listenFd, epfd, flag, turn, workers, wants, signals>>

Send(n) ==
    /\ conn[n].at \in {"backlog", "open"} /\ ~wants[n]
    /\ wants' = [wants EXCEPT ![n] = TRUE]
    /\ UNCHANGED <<main, opened, owner, listenFd, epfd, flag, turn, workers, conn, signals>>

Leave(n) ==
    /\ conn[n].at = "open"
    /\ conn' = [conn EXCEPT ![n].at = "left"]
    /\ UNCHANGED <<main, opened, owner, listenFd, epfd, flag, turn, workers, wants, signals>>

-----------------------------------------------------------------------------
(* Signals.                                                                *)

\* Somebody sends one signal, or runs "tst.sh stop".
AskToStop(how) ==
    /\ stop = "none"
    /\ stop' = how
    /\ pending' = (how = "once")
    /\ UNCHANGED <<main, opened, owner, listenFd, epfd, flag, turn, workers, clients,
                   g_nolog, hurt, early>>

\* The script's loop: kill, and look again a second later.
Kill ==
    /\ stop = "script" /\ main # "gone" /\ ~pending
    /\ pending' = TRUE
    /\ UNCHANGED <<main, opened, owner, listenFd, epfd, flag, turn, workers, clients,
                   g_nolog, stop, hurt, early>>

\* exit_hook, on the main thread.  It logs, so it never ends if main was
\* inside localtime, which holds a lock, in a tstserver_log of its own.  (Only
\* the call in do_accept is told apart.)
Closed_Not == owner

Closed == [owner EXCEPT ![listenFd] = "free"]

Hook ==
    /\ pending /\ main \notin {"gone", "hung"}
    /\ pending' = FALSE
    /\ owner' = Closed
    /\ hurt' = hurt \cup ({owner[listenFd]} \cap (Range(Files) \cup {"index"}))
    /\ early' = (early \/ main \in {"init", "bind", "listening"})
    /\ flag' = TRUE
    /\ main' \in {main} \cup (IF ~g_nolog /\ main = "log" THEN {"hung"} ELSE {})
    /\ UNCHANGED <<opened, listenFd, epfd, g_nolog, turn, workers, clients, stop>>

-----------------------------------------------------------------------------
Rest == main \in {"gone", "hung", "select"} /\ UNCHANGED vars

Next ==
    \/ Main
    \/ \E w \in Workers : Worker(w)
    \/ \E n \in Conns : Connect(n) \/ Send(n) \/ Leave(n)
    \/ \E how \in {"once", "script"} : AskToStop(how)
    \/ Kill \/ Hook
    \/ Rest

\* Threads run, a signal is delivered, and the script goes on.  Nothing is
\* assumed of clients, nor that anybody asks the server to stop.
Fairness ==
    /\ WF_vars(Main) /\ WF_vars(Hook) /\ WF_vars(Kill)
    /\ \A w \in Workers : WF_vars(Worker(w))

Spec == Init /\ [][Next]_vars /\ Fairness

-----------------------------------------------------------------------------
(* Properties.                                                             *)

TypeOK ==
    /\ main \in {"init", "bind", "listening", "spawning", "select", "accept", "log", "sleep",
                 "closing", "join", "dump", "renamed", "gone", "hung"}
    /\ owner \in [Descriptors -> {"stdin", "free", "binlog", "data", "listen", "epoll",
                                  "conn", "index"}]
    /\ listenFd \in Descriptors /\ epfd \in [Workers -> Descriptors]
    /\ turn \in Workers
    /\ wk \in [Workers -> {"none", "call", "wait", "handle", "exited"}]
    /\ \A n \in Conns : conn[n].at \in {"open", "left"} => owner[conn[n].fd] = "conn"

-----------------------------------------------------------------------------
(* The inductive invariant behind what a signal may close and what may be  *)
(* accepted after it.                                                      *)

Boots == main \in {"init", "bind", "listening"}
Ends == main \in {"closing", "join", "dump", "renamed", "gone"}

\* What a hook or a worker may change at any time.
MiscOK ==
    /\ opened \in 0..(Len(Files) + Cardinality(Workers))
    /\ flag \in BOOLEAN /\ pending \in BOOLEAN /\ early \in BOOLEAN
    /\ stop \in {"none", "once", "script"}
    /\ conn \in [Conns -> [at : {"none", "backlog", "open", "left", "closed"},
                          worker : Workers, fd : Descriptors]]

\* While files and epoll sets are opened one after the other, the numbers
\* above them are free: the next one to be opened finds one.
StartOK ==
    /\ main = "init" => opened <= Len(Files)
    /\ main = "bind" => opened = Len(Files)
    /\ main \notin {"init", "bind", "listening", "gone"} =>
          opened = Len(Files) + Cardinality(Workers)
    /\ main = "listening" => opened - Len(Files) \in Workers
    /\ main = "init" => \A fd \in Descriptors : fd > opened => owner[fd] = "free"
    /\ main \in {"bind", "listening"} =>
          \A fd \in Descriptors : fd > opened + 1 => owner[fd] = "free"

\* An epoll set keeps its number until main closes it, unless the number was
\* listen_fd's before.
EpollsOK ==
    \A w \in Workers :
        /\ main \notin {"init", "join", "dump", "renamed", "gone"} /\ w < opened - Len(Files) =>
              owner[epfd[w]] = "epoll" \/ epfd[w] = listenFd
        /\ main = "join" => owner[epfd[w]] = "free"

\* A number belongs to one connection at most.
ConnsOK ==
    \A m, n \in Conns :
        /\ conn[m].at \in {"open", "left"} /\ conn[n].at \in {"open", "left"}
        /\ conn[m].fd = conn[n].fd
        => m = n

\* What listen_fd may be the number of.
ListenOK ==
    /\ owner[listenFd] # "conn"
    /\ main # "init" => owner[listenFd] \notin Range(Files)
    /\ flag /\ ~early => ~Boots /\ owner[listenFd] # "listen"
    /\ main = "bind" /\ ~flag => owner[listenFd] = "listen"

\* A signal is handled once, and only main's end opens the new index.
SignalOK ==
    /\ stop = "none" => ~pending /\ ~flag
    /\ stop = "once" => ~pending \/ ~flag
    /\ Ends => flag
    /\ \A fd \in Descriptors : owner[fd] = "index" => main = "dump"

LifeInv ==
    /\ TypeOK /\ MiscOK
    /\ StartOK /\ EpollsOK /\ ConnsOK /\ ListenOK /\ SignalOK

-----------------------------------------------------------------------------
(* What follows from it, and the liveness properties.                      *)

\* exit_hook closes whatever has the number listen_fd, as often as signals
\* come.  Once there is a socket that is never the data file nor the binlog,
\* and if only one signal comes it is not the new index either.
FilesIntact ==
    [][main # "init" =>
          hurt' \ hurt \subseteq (IF stop = "script" THEN {"index"} ELSE {})]_vars

\* From the moment a stop is under way, and was noticed, no connection is taken that no worker
\* may be left to serve.
NoAcceptAfterStop ==
    [][\A n \in Conns : conn[n].at = "backlog" /\ conn'[n].at = "open" => early \/ ~flag]_vars

\* What a client sends on a connection that was accepted is read, on the worker
\* the connection was given to, unless the server stops.
RequestsRead ==
    \A n \in Conns : wants[n] /\ conn[n].at = "open" ~> ~wants[n] \/ flag

\* One signal ends the process, also while clients keep every worker busy:
\* exit_hook announces ">> [%d]will shutdown..." (tstserver.c:177).  The two
\* exceptions are a signal during start-up, whose number of a closed socket is
\* 0 or is given to an epoll set, and one that finds main in the C library's
\* lock.
SignalEnds == (stop = "once") ~> (main \in {"gone", "hung"} \/ early)

\* "tst.sh stop" comes to an end at whatever moment it begins, with the second
\* exception only.
ScriptEnds == (stop = "script") ~> (main \in {"gone", "hung"})

\* Whoever asks it, and when: the process stops.
StopEnds == SignalEnds /\ ScriptEnds


=============================================================================
