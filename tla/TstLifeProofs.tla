---------------------------- MODULE TstLifeProofs ----------------------------
(***************************************************************************)
(* Proofs about TstLife: which descriptors a signal may close, and what is *)
(* accepted after it, for any number of workers, connections and           *)
(* descriptors.                                                            *)
(***************************************************************************)
EXTENDS TstLife, FiniteSetTheorems, WellFoundedInduction, TLAPS

USE DEF clients, workers, signals, Descriptors

-----------------------------------------------------------------------------
(* Numbers.                                                                *)

LEMMA Sizes ==
    /\ Cardinality(Workers) \in Nat \ {0}
    /\ Workers = 0..(Cardinality(Workers) - 1)
    /\ MaxFd \in Nat /\ MaxFd > Cardinality(Workers) + 3
<1>1. Cardinality(Workers) \in Nat
    BY SizesAssumption, FS_CardinalityType
<1>2. Cardinality(Workers) # 0
    BY SizesAssumption, FS_EmptySet
<1> QED
    BY <1>1, <1>2, SizesAssumption

LEMMA FileNames ==
    /\ Len(Files) = 2
    /\ Range(Files) = {"binlog", "data"}
    /\ \A i \in 1..2 : Files[i] \in Range(Files)
<1>1. Len(Files) = 2 /\ DOMAIN Files = 1..2 /\ Files[1] = "binlog" /\ Files[2] = "data"
    BY DEF Files
<1> QED
    BY <1>1 DEF Range

LEMMA MinIsLeast ==
    ASSUME NEW S \in SUBSET Nat, S # {}
    PROVE  Min(S) \in S /\ \A y \in S : Min(S) <= y
<1>1. PICK x \in S : \A y \in S : <<y, x>> \notin OpToRel(<, Nat)
    BY NatLessThanWellFounded, WFMin
<1>2. \A y \in S : x <= y
    <2>1. ASSUME NEW y \in S PROVE ~(y < x)
        BY <1>1, <2>1 DEF OpToRel
    <2> QED BY <2>1
<1> QED
    BY <1>2 DEF Min

\* open, socket, epoll_create and accept return the lowest free number.
LEMMA LowestFree ==
    ASSUME NEW fd \in Descriptors, owner[fd] = "free"
    PROVE  Lowest \in Descriptors /\ owner[Lowest] = "free" /\ Lowest <= fd
<1>1. FreeFds \in SUBSET Nat /\ fd \in FreeFds
    BY Sizes DEF FreeFds
<1> QED
    BY <1>1, MinIsLeast DEF Lowest, FreeFds

-----------------------------------------------------------------------------
(* Every action preserves the invariant.                                   *)

LEMMA InitInv == Init => LifeInv
<1> SUFFICES ASSUME Init PROVE LifeInv
    OBVIOUS
<1>1. 0 \in Workers /\ 0 \in Descriptors /\ 2 + Cardinality(Workers) \in Nat
    BY Sizes
<1>2. \A n \in Conns : conn[n].at = "none"
    BY DEF Init, NoConn
<1>3. TypeOK
    <2>1. owner \in [Descriptors -> {"stdin", "free", "binlog", "data", "listen", "epoll",
                                     "conn", "index"}]
        BY DEF Init
    <2>2. /\ epfd \in [Workers -> Descriptors]
          /\ wk \in [Workers -> {"none", "call", "wait", "handle", "exited"}]
        <3> HIDE DEF Descriptors
        <3> QED BY <1>1 DEF Init
    <2>3. main = "init" /\ turn \in Workers /\ listenFd \in Descriptors
        BY <1>1 DEF Init
    <2> QED
        BY <1>2, <2>1, <2>2, <2>3 DEF TypeOK
<1>4. MiscOK
    <2>1. conn \in [Conns -> [at : {"none", "backlog", "open", "left", "closed"},
                              worker : Workers, fd : Descriptors]]
        <3> HIDE DEF Descriptors
        <3> QED BY <1>1 DEF Init, NoConn
    <2> QED
        <3>1. opened \in 0..(Len(Files) + Cardinality(Workers))
            BY FileNames, Sizes DEF Init
        <3>2. /\ flag \in BOOLEAN /\ pending \in BOOLEAN /\ early \in BOOLEAN
              /\ stop \in {"none", "once", "script"}
            BY DEF Init
        <3> QED
            BY <2>1, <3>1, <3>2 DEF MiscOK
<1>5. StartOK
    BY <1>1, FileNames DEF Init, StartOK
<1>6. EpollsOK
    BY DEF Init, EpollsOK
<1>7. ConnsOK
    BY <1>2 DEF ConnsOK
<1>8. ListenOK
    BY <1>1 DEF Init, ListenOK
<1>9. SignalOK
    BY DEF Init, SignalOK, Ends
<1> QED
    BY <1>3, <1>4, <1>5, <1>6, <1>7, <1>8, <1>9 DEF LifeInv

LEMMA OpenFileInv ==
    ASSUME LifeInv, OpenFile
    PROVE  LifeInv'
<1>1. /\ main = "init" /\ opened < 2 /\ opened' = opened + 1 /\ opened \in Nat
      /\ UNCHANGED <<main, listenFd, epfd, flag, turn, workers, clients, signals>>
    BY FileNames DEF OpenFile, LifeInv, MiscOK
<1>2. opened + 1 \in Descriptors /\ owner[opened + 1] = "free"
    BY <1>1, Sizes DEF LifeInv, StartOK
<1>3. Lowest \in Descriptors /\ owner[Lowest] = "free" /\ Lowest <= opened + 1
    BY <1>2, LowestFree
<1>4. Files[opened + 1] \in {"binlog", "data"}
    BY <1>1, FileNames
<1>5. owner' = [owner EXCEPT ![Lowest] = Files[opened + 1]]
    BY DEF OpenFile, Opens
<1> HIDE DEF Lowest
<1>6. TypeOK'
    BY <1>1, <1>3, <1>4, <1>5 DEF LifeInv, TypeOK
<1>7. MiscOK' /\ StartOK'
    BY <1>1, <1>3, <1>5, Sizes, FileNames DEF LifeInv, TypeOK, MiscOK, StartOK
<1>8. EpollsOK' /\ ConnsOK'
    BY <1>1 DEF LifeInv, EpollsOK, ConnsOK
<1>9. ListenOK' /\ SignalOK'
    BY <1>1, <1>3, <1>4, <1>5 DEF LifeInv, TypeOK, ListenOK, SignalOK, Boots, Ends
<1> QED
    BY <1>6, <1>7, <1>8, <1>9 DEF LifeInv

LEMMA SocketInv ==
    ASSUME LifeInv, Socket
    PROVE  LifeInv'
<1>1. /\ main = "init" /\ main' = "bind" /\ opened = 2 /\ listenFd' = Lowest
      /\ owner' = [owner EXCEPT ![Lowest] = "listen"]
      /\ UNCHANGED <<opened, epfd, flag, turn, workers, clients, signals>>
    BY FileNames DEF Socket, ListenFd, Opens
<1>2. 3 \in Descriptors /\ owner[3] = "free"
    BY <1>1, Sizes DEF LifeInv, StartOK
<1>3. Lowest \in Descriptors /\ owner[Lowest] = "free" /\ Lowest <= 3
    BY <1>2, LowestFree
<1> HIDE DEF Lowest
<1>4. TypeOK'
    BY <1>1, <1>3 DEF LifeInv, TypeOK
<1>5. MiscOK'
    BY <1>1 DEF LifeInv, MiscOK
<1>6. StartOK'
    BY <1>1, <1>3, Sizes, FileNames DEF LifeInv, TypeOK, StartOK
<1>7. EpollsOK'
    BY <1>1, Sizes, FileNames DEF EpollsOK
<1>8. ConnsOK'
    BY <1>1 DEF LifeInv, ConnsOK
<1>9. ListenOK'
    BY <1>1, <1>3, FileNames DEF LifeInv, TypeOK, ListenOK, Boots
<1>10. SignalOK'
    BY <1>1, <1>3 DEF LifeInv, TypeOK, SignalOK, Ends
<1> QED
    BY <1>4, <1>5, <1>6, <1>7, <1>8, <1>9, <1>10 DEF LifeInv

LEMMA ListenInv ==
    ASSUME LifeInv, Listen
    PROVE  LifeInv'
<1>1. /\ main = "bind" /\ main' = "listening" /\ opened = 2 /\ owner[listenFd] = "listen"
      /\ UNCHANGED <<opened, owner, listenFd, epfd, flag, turn, workers, clients, signals>>
    BY FileNames DEF Listen, LifeInv, StartOK
<1>2. TypeOK'
    BY <1>1 DEF LifeInv, TypeOK
<1>3. MiscOK'
    BY <1>1 DEF LifeInv, MiscOK
<1>4. StartOK'
    BY <1>1, Sizes, FileNames DEF LifeInv, StartOK
<1>5. EpollsOK' /\ ConnsOK'
    BY <1>1 DEF LifeInv, EpollsOK, ConnsOK
<1>6. ListenOK' /\ SignalOK'
    BY <1>1 DEF LifeInv, ListenOK, SignalOK, Boots, Ends
<1> QED
    BY <1>2, <1>3, <1>4, <1>5, <1>6 DEF LifeInv

LEMMA CreateEpollInv ==
    ASSUME LifeInv, CreateEpoll
    PROVE  LifeInv'
<1> DEFINE v == opened - 2
<1>1. /\ main = "listening" /\ opened' = opened + 1 /\ opened \in Nat
      /\ epfd' = [epfd EXCEPT ![v] = Lowest]
      /\ main' = IF v + 1 \in Workers THEN main ELSE "spawning"
      /\ owner' = [owner EXCEPT ![Lowest] = "epoll"]
      /\ UNCHANGED <<listenFd, flag, turn, workers, clients, signals>>
    BY FileNames DEF CreateEpoll, Opens, LifeInv, MiscOK
<1>2. v \in Workers /\ v \in Int /\ v < Cardinality(Workers)
    BY <1>1, Sizes, FileNames DEF LifeInv, StartOK
<1>3. opened + 2 \in Descriptors /\ owner[opened + 2] = "free"
    BY <1>1, <1>2, Sizes DEF LifeInv, StartOK
<1>4. Lowest \in Descriptors /\ owner[Lowest] = "free" /\ Lowest <= opened + 2
    BY <1>3, LowestFree
<1>5. main' \in {"listening", "spawning"}
    BY <1>1
<1>6. main' = "spawning" => opened' = 2 + Cardinality(Workers)
    BY <1>1, <1>2, Sizes
<1> HIDE DEF Lowest
<1>7. TypeOK'
    BY <1>1, <1>2, <1>4, <1>5 DEF LifeInv, TypeOK
<1>8. MiscOK'
    BY <1>1, <1>2, Sizes, FileNames DEF LifeInv, MiscOK
<1>9. StartOK'
    <2>1. main' = "listening" => opened' - 2 \in Workers
        BY <1>1, <1>2
    <2>2. ASSUME NEW fd \in Descriptors, fd > opened' + 1 PROVE owner'[fd] = "free"
        BY <1>1, <1>4, <2>2, Sizes DEF LifeInv, TypeOK, StartOK
    <2> QED
        BY <1>5, <1>6, <2>1, <2>2, FileNames DEF StartOK
<1>10. EpollsOK'
    <2>1. ASSUME NEW w \in Workers, w < opened' - 2
          PROVE  owner'[epfd'[w]] = "epoll" \/ epfd'[w] = listenFd'
        <3>1. CASE w = v
            BY <1>1, <1>2, <1>4, <3>1 DEF LifeInv, TypeOK
        <3>2. CASE w # v
            <4>1. w < opened - 2
                BY <1>1, <1>2, <2>1, <3>2, Sizes
            <4>2. epfd'[w] = epfd[w] /\ epfd[w] \in Descriptors
                BY <1>1, <1>2, <3>2 DEF LifeInv, TypeOK
            <4>3. owner[epfd[w]] = "epoll" \/ epfd[w] = listenFd
                BY <1>1, <4>1, FileNames DEF LifeInv, EpollsOK
            <4> QED
                BY <1>1, <1>4, <4>2, <4>3 DEF LifeInv, TypeOK
        <3> QED BY <3>1, <3>2
    <2> QED
        BY <1>5, <2>1, FileNames DEF EpollsOK
<1>11. ConnsOK'
    BY <1>1 DEF LifeInv, ConnsOK
<1>12. ListenOK'
    BY <1>1, <1>4, <1>5, FileNames DEF LifeInv, TypeOK, ListenOK, Boots
<1>13. SignalOK'
    BY <1>1, <1>4, <1>5 DEF LifeInv, TypeOK, SignalOK, Ends
<1> QED
    BY <1>7, <1>8, <1>9, <1>10, <1>11, <1>12, <1>13 DEF LifeInv


LEMMA SpawnInv ==
    ASSUME LifeInv, Spawn
    PROVE  LifeInv'
<1>1. /\ main = "spawning" /\ main' = "select"
      /\ wk' = [w \in Workers |-> "call"]
      /\ UNCHANGED <<opened, owner, listenFd, epfd, flag, turn, batch, clients, signals>>
    BY DEF Spawn
<1>2. TypeOK'
    BY <1>1 DEF LifeInv, TypeOK
<1>3. MiscOK' /\ StartOK'
    BY <1>1 DEF LifeInv, MiscOK, StartOK
<1>4. EpollsOK' /\ ConnsOK'
    BY <1>1 DEF LifeInv, EpollsOK, ConnsOK
<1>5. ListenOK' /\ SignalOK'
    BY <1>1 DEF LifeInv, ListenOK, SignalOK, Boots, Ends
<1> QED
    BY <1>2, <1>3, <1>4, <1>5 DEF LifeInv

\* The steps of do_accept that open and close nothing.
LEMMA AcceptLoopInv ==
    ASSUME LifeInv, Selected \/ AcceptFails \/ LoopAgain \/ SelectFails
    PROVE  LifeInv'
<1>1. /\ main \in {"select", "accept", "log", "sleep"}
      /\ main' \in {"select", "accept", "sleep"} \/ (main' = "closing" /\ flag)
      /\ UNCHANGED <<opened, owner, listenFd, epfd, flag, turn, workers, clients, signals>>
    <2>1. CASE Selected
        BY <2>1 DEF Selected
    <2>2. CASE AcceptFails
        BY <2>2 DEF AcceptFails
    <2>3. CASE LoopAgain
        BY <2>3 DEF LoopAgain
    <2>4. CASE SelectFails
        BY <2>4 DEF SelectFails
    <2> QED
        BY <2>1, <2>2, <2>3, <2>4
<1>2. TypeOK'
    BY <1>1 DEF LifeInv, TypeOK
<1>3. MiscOK' /\ StartOK'
    BY <1>1 DEF LifeInv, MiscOK, StartOK
<1>4. EpollsOK' /\ ConnsOK'
    BY <1>1 DEF LifeInv, EpollsOK, ConnsOK
<1>5. ListenOK' /\ SignalOK'
    BY <1>1 DEF LifeInv, ListenOK, SignalOK, Boots, Ends
<1> QED
    BY <1>2, <1>3, <1>4, <1>5 DEF LifeInv

LEMMA AcceptInv ==
    ASSUME LifeInv, Accept
    PROVE  LifeInv'
<1>1. PICK n \in Conns :
         /\ conn[n].at = "backlog"
         /\ conn' = [conn EXCEPT ![n] = [at |-> "open", worker |-> turn, fd |-> Lowest]]
         /\ owner' = [owner EXCEPT ![Lowest] = "conn"]
    BY DEF Accept, Backlog, Opens
<1>2. /\ main = "accept" /\ main' = "log" /\ owner[listenFd] = "listen"
      /\ turn' = (turn + 1) % Cardinality(Workers)
      /\ UNCHANGED <<opened, listenFd, epfd, flag, workers, wants, signals>>
    BY DEF Accept
<1>3. Lowest \in Descriptors /\ owner[Lowest] = "free"
    BY LowestFree DEF Accept, FreeFds
<1>4. turn \in Workers /\ turn' \in Workers
    <2>1. turn \in Workers
        BY DEF LifeInv, TypeOK
    <2> QED
        BY <1>2, <2>1, Sizes
<1> HIDE DEF Lowest
<1>5. \A m \in Conns \ {n} : conn'[m] = conn[m]
    BY <1>1 DEF LifeInv, MiscOK
<1>6. conn'[n].at = "open" /\ conn'[n].fd = Lowest
    BY <1>1 DEF LifeInv, MiscOK
<1>7. TypeOK'
    <2>1. ASSUME NEW m \in Conns, conn'[m].at \in {"open", "left"}
          PROVE  owner'[conn'[m].fd] = "conn"
        <3>1. CASE m = n
            BY <1>1, <1>3, <1>6, <3>1 DEF LifeInv, TypeOK
        <3>2. CASE m # n
            <4>1. conn[m].fd \in Descriptors /\ owner[conn[m].fd] = "conn" /\ conn'[m] = conn[m]
                BY <1>5, <2>1, <3>2 DEF LifeInv, TypeOK, MiscOK
            <4> QED
                BY <1>1, <1>3, <4>1 DEF LifeInv, TypeOK
        <3> QED BY <3>1, <3>2
    <2>2. owner' \in [Descriptors -> {"stdin", "free", "binlog", "data", "listen", "epoll",
                                      "conn", "index"}]
        BY <1>1, <1>3 DEF LifeInv, TypeOK
    <2> QED
        BY <1>2, <1>4, <2>1, <2>2 DEF LifeInv, TypeOK
<1>8. MiscOK'
    <2>1. conn' \in [Conns -> [at : {"none", "backlog", "open", "left", "closed"},
                               worker : Workers, fd : Descriptors]]
        <3> HIDE DEF Descriptors
        <3> QED BY <1>1, <1>3, <1>4 DEF LifeInv, MiscOK
    <2> QED
        BY <1>2, <2>1 DEF LifeInv, MiscOK
<1>9. StartOK'
    BY <1>2 DEF LifeInv, StartOK
<1>10. EpollsOK'
    BY <1>1, <1>2, <1>3 DEF LifeInv, TypeOK, EpollsOK
<1>11. ConnsOK'
    <2>1. ASSUME NEW m \in Conns, m # n, conn'[m].at \in {"open", "left"}
          PROVE  conn'[m].fd # Lowest
        BY <1>3, <1>5, <2>1 DEF LifeInv, TypeOK
    <2> QED
        BY <1>5, <1>6, <2>1 DEF LifeInv, ConnsOK
<1>12. ListenOK'
    BY <1>1, <1>2, <1>3, FileNames DEF LifeInv, TypeOK, ListenOK, Boots
<1>13. SignalOK'
    BY <1>1, <1>2, <1>3 DEF LifeInv, TypeOK, SignalOK, Ends
<1> QED
    BY <1>7, <1>8, <1>9, <1>10, <1>11, <1>12, <1>13 DEF LifeInv

\* The epoll sets are closed, and whatever has the numbers now: never a
\* connection.
LEMMA CloseAllInv ==
    ASSUME LifeInv, CloseAll
    PROVE  LifeInv'
<1>1. /\ main = "closing" /\ main' = "join" /\ flag /\ opened = 2 + Cardinality(Workers)
      /\ owner' = [fd \in Descriptors |-> IF fd \in Range(epfd) THEN "free" ELSE owner[fd]]
      /\ UNCHANGED <<opened, listenFd, epfd, flag, turn, workers, clients, signals>>
    BY FileNames DEF CloseAll, CloseEpolls, LifeInv, StartOK, SignalOK, Ends
<1>2. \A w \in Workers : epfd[w] \in Descriptors /\ epfd[w] \in Range(epfd)
    BY DEF LifeInv, TypeOK, Range
<1>3. ASSUME NEW fd \in Range(epfd) PROVE owner[fd] # "conn"
    <2>1. PICK w \in Workers : fd = epfd[w]
        BY DEF Range, LifeInv, TypeOK
    <2>2. w < opened - Len(Files)
        BY <1>1, FileNames, Sizes
    <2>3. owner[fd] = "epoll" \/ fd = listenFd
        BY <1>1, <2>1, <2>2 DEF LifeInv, EpollsOK
    <2> QED
        BY <2>3 DEF LifeInv, ListenOK
<1>4. TypeOK'
    <2>1. ASSUME NEW m \in Conns, conn[m].at \in {"open", "left"}
          PROVE  owner'[conn[m].fd] = "conn"
        <3>1. owner[conn[m].fd] = "conn" /\ conn[m].fd \in Descriptors
            BY <2>1 DEF LifeInv, TypeOK, MiscOK
        <3> QED
            BY <1>1, <1>3, <3>1
    <2>2. owner' \in [Descriptors -> {"stdin", "free", "binlog", "data", "listen", "epoll",
                                      "conn", "index"}]
        BY <1>1 DEF LifeInv, TypeOK
    <2> QED
        BY <1>1, <2>1, <2>2 DEF LifeInv, TypeOK
<1>5. MiscOK' /\ StartOK'
    BY <1>1 DEF LifeInv, MiscOK, StartOK
<1>6. EpollsOK' /\ ConnsOK'
    BY <1>1, <1>2 DEF LifeInv, EpollsOK, ConnsOK
<1>7. ListenOK'
    BY <1>1, FileNames DEF LifeInv, TypeOK, ListenOK, Boots
<1>8. SignalOK'
    BY <1>1 DEF LifeInv, SignalOK, Ends
<1> QED
    BY <1>4, <1>5, <1>6, <1>7, <1>8 DEF LifeInv


\* At "join" the epoll sets are closed, so dump_tst finds a free number.
LEMMA DumpInv ==
    ASSUME LifeInv, Dump
    PROVE  LifeInv'
<1> DEFINE closed == [fd \in Descriptors |->
                         IF owner[fd] \in Range(Files) THEN "free" ELSE owner[fd]]
           new == Min({fd \in Descriptors : closed[fd] = "free"})
<1>1. /\ main = "join" /\ main' = "dump" /\ flag
      /\ owner' = [closed EXCEPT ![new] = "index"]
      /\ UNCHANGED <<opened, listenFd, epfd, flag, turn, workers, clients, signals>>
    BY DEF Dump, LifeInv, SignalOK, Ends
<1>2. new \in Descriptors /\ closed[new] = "free"
    <2>1. 0 \in Workers
        BY Sizes
    <2>2. epfd[0] \in Descriptors /\ owner[epfd[0]] = "free"
        BY <1>1, <2>1 DEF LifeInv, TypeOK, EpollsOK
    <2>3. epfd[0] \in {fd \in Descriptors : closed[fd] = "free"}
        BY <2>2
    <2>4. {fd \in Descriptors : closed[fd] = "free"} \in SUBSET Nat
        BY Sizes
    <2> HIDE DEF closed
    <2> QED
        BY <2>3, <2>4, MinIsLeast
<1>3. /\ closed \in [Descriptors -> {"stdin", "free", "listen", "epoll", "conn", "index"}]
      /\ \A fd \in Descriptors : owner[fd] = "conn" => closed[fd] = "conn"
      /\ \A fd \in Descriptors : closed[fd] \in {"free", owner[fd]}
    BY FileNames DEF LifeInv, TypeOK
<1> HIDE DEF closed, new
<1>4. /\ owner' \in [Descriptors -> {"stdin", "free", "listen", "epoll", "conn", "index"}]
      /\ \A fd \in Descriptors : owner[fd] = "conn" => owner'[fd] = "conn"
      /\ \A fd \in Descriptors : owner'[fd] \in {"free", "index", owner[fd]}
    BY <1>1, <1>2, <1>3
<1>5. TypeOK'
    BY <1>1, <1>4 DEF LifeInv, TypeOK, MiscOK
<1>6. MiscOK' /\ StartOK'
    BY <1>1 DEF LifeInv, MiscOK, StartOK
<1>7. EpollsOK' /\ ConnsOK'
    BY <1>1 DEF LifeInv, EpollsOK, ConnsOK
<1>8. ListenOK'
    BY <1>1, <1>4, FileNames DEF LifeInv, TypeOK, ListenOK, Boots
<1>9. SignalOK'
    BY <1>1 DEF LifeInv, SignalOK, Ends
<1> QED
    BY <1>5, <1>6, <1>7, <1>8, <1>9 DEF LifeInv

LEMMA RenameInv ==
    ASSUME LifeInv, Rename
    PROVE  LifeInv'
<1>1. /\ main = "dump" /\ main' = "renamed"
      /\ owner' = [fd \in Descriptors |-> IF owner[fd] = "index" THEN "free" ELSE owner[fd]]
      /\ UNCHANGED <<opened, listenFd, epfd, flag, turn, workers, clients, signals>>
    BY DEF Rename
<1>2. TypeOK'
    BY <1>1 DEF LifeInv, TypeOK, MiscOK
<1>3. MiscOK' /\ StartOK'
    BY <1>1 DEF LifeInv, MiscOK, StartOK
<1>4. EpollsOK' /\ ConnsOK'
    BY <1>1 DEF LifeInv, EpollsOK, ConnsOK
<1>5. ListenOK'
    BY <1>1, FileNames DEF LifeInv, TypeOK, ListenOK, Boots
<1>6. SignalOK'
    BY <1>1 DEF LifeInv, SignalOK, Ends
<1> QED
    BY <1>2, <1>3, <1>4, <1>5, <1>6 DEF LifeInv

LEMMA EndInv ==
    ASSUME LifeInv, ListenFails \/ End
    PROVE  LifeInv'
<1>1. /\ flag /\ main' = "gone"
      /\ owner' = [fd \in Descriptors |-> "free"]
      /\ conn' = [n \in Conns |-> [conn[n] EXCEPT !.at = "closed"]]
      /\ UNCHANGED <<opened, listenFd, epfd, flag, turn, workers, signals>>
    BY DEF ListenFails, End, Gone, LifeInv, MiscOK, ListenOK, SignalOK, Ends
<1>2. /\ conn' \in [Conns -> [at : {"none", "backlog", "open", "left", "closed"},
                              worker : Workers, fd : Descriptors]]
      /\ \A n \in Conns : conn'[n].at = "closed"
    <2> HIDE DEF Descriptors
    <2> QED BY <1>1 DEF LifeInv, MiscOK
<1>3. TypeOK'
    BY <1>1, <1>2 DEF LifeInv, TypeOK
<1>4. MiscOK' /\ StartOK'
    BY <1>1, <1>2 DEF LifeInv, MiscOK, StartOK
<1>5. EpollsOK' /\ ConnsOK'
    BY <1>1, <1>2 DEF LifeInv, TypeOK, EpollsOK, ConnsOK
<1>6. ListenOK'
    BY <1>1, FileNames DEF LifeInv, TypeOK, ListenOK, Boots
<1>7. SignalOK'
    BY <1>1 DEF LifeInv, SignalOK, Ends
<1> QED
    BY <1>3, <1>4, <1>5, <1>6, <1>7 DEF LifeInv

\* The steps of a worker's loop that open and close nothing.
LEMMA WorkerLoopInv ==
    ASSUME LifeInv, NEW w \in Workers, Call(w) \/ Wake(w) \/ TimeOut(w) \/ BatchDone(w)
    PROVE  LifeInv'
<1>1. UNCHANGED <<main, opened, owner, listenFd, epfd, flag, turn, clients, signals>>
    BY DEF Call, Wake, TimeOut, BatchDone
<1>2. wk' \in [Workers -> {"none", "call", "wait", "handle", "exited"}]
    BY DEF Call, Wake, TimeOut, BatchDone, Called, TimedOut, LifeInv, TypeOK
<1>3. TypeOK'
    BY <1>1, <1>2 DEF LifeInv, TypeOK
<1>4. MiscOK' /\ StartOK'
    BY <1>1 DEF LifeInv, MiscOK, StartOK
<1>5. EpollsOK' /\ ConnsOK'
    BY <1>1 DEF LifeInv, EpollsOK, ConnsOK
<1>6. ListenOK' /\ SignalOK'
    BY <1>1 DEF LifeInv, ListenOK, SignalOK, Boots, Ends
<1> QED
    BY <1>3, <1>4, <1>5, <1>6 DEF LifeInv

\* A worker closes a connection's number, which is nobody else's.
LEMMA HandleInv ==
    ASSUME LifeInv, NEW w \in Workers, NEW n \in Conns, Handle(w, n)
    PROVE  LifeInv'
<1>1. UNCHANGED <<main, opened, listenFd, epfd, flag, turn, wk, signals>>
    BY DEF Handle
<1>2. CASE UNCHANGED <<conn, owner>>
    <2>1. TypeOK'
        BY <1>1, <1>2 DEF LifeInv, TypeOK
    <2>2. MiscOK' /\ StartOK'
        BY <1>1, <1>2 DEF LifeInv, MiscOK, StartOK
    <2>3. EpollsOK' /\ ConnsOK'
        BY <1>1, <1>2 DEF LifeInv, EpollsOK, ConnsOK
    <2>4. ListenOK' /\ SignalOK'
        BY <1>1, <1>2 DEF LifeInv, ListenOK, SignalOK, Boots, Ends
    <2> QED
        BY <2>1, <2>2, <2>3, <2>4 DEF LifeInv
<1>3. CASE /\ conn[n].at = "left"
           /\ conn' = [conn EXCEPT ![n].at = "closed"]
           /\ owner' = [owner EXCEPT ![conn[n].fd] = "free"]
    <2> DEFINE d == conn[n].fd
    <2>1. d \in Descriptors /\ owner[d] = "conn"
        BY <1>3 DEF LifeInv, TypeOK, MiscOK
    <2>2. /\ owner'[d] = "free"
          /\ \A fd \in Descriptors \ {d} : owner'[fd] = owner[fd]
        BY <1>3, <2>1 DEF LifeInv, TypeOK
    <2>3. /\ conn' \in [Conns -> [at : {"none", "backlog", "open", "left", "closed"},
                                  worker : Workers, fd : Descriptors]]
          /\ conn'[n].at = "closed"
          /\ \A m \in Conns \ {n} : conn'[m] = conn[m]
        <3> HIDE DEF Descriptors
        <3> QED BY <1>3 DEF LifeInv, MiscOK
    <2>4. TypeOK'
        <3>1. ASSUME NEW m \in Conns, conn'[m].at \in {"open", "left"}
              PROVE  owner'[conn'[m].fd] = "conn"
            <4>1. m # n /\ conn'[m] = conn[m] /\ conn[m].at \in {"open", "left"}
                BY <2>3, <3>1
            <4>2. conn[m].fd \in Descriptors /\ owner[conn[m].fd] = "conn"
                BY <4>1 DEF LifeInv, TypeOK, MiscOK
            <4>3. conn[m].fd # d
                BY <1>3, <4>1 DEF LifeInv, ConnsOK
            <4> QED
                BY <2>2, <4>1, <4>2, <4>3
        <3>2. owner' \in [Descriptors -> {"stdin", "free", "binlog", "data", "listen", "epoll",
                                          "conn", "index"}]
            BY <1>3, <2>1 DEF LifeInv, TypeOK
        <3> QED
            BY <1>1, <3>1, <3>2 DEF LifeInv, TypeOK
    <2>5. MiscOK'
        BY <1>1, <2>3 DEF LifeInv, MiscOK
    <2>6. StartOK'
        BY <1>1, <2>2 DEF LifeInv, StartOK
    <2>7. EpollsOK'
        <3>1. \A v \in Workers : epfd[v] \in Descriptors
            BY DEF LifeInv, TypeOK
        <3> QED
            BY <1>1, <2>1, <2>2, <3>1 DEF LifeInv, EpollsOK
    <2>8. ConnsOK'
        BY <2>3 DEF LifeInv, ConnsOK
    <2>9. ListenOK'
        BY <1>1, <2>1, <2>2 DEF LifeInv, TypeOK, ListenOK, Boots
    <2>10. SignalOK'
        BY <1>1, <2>1, <2>2 DEF LifeInv, SignalOK, Ends
    <2> QED
        BY <2>4, <2>5, <2>6, <2>7, <2>8, <2>9, <2>10 DEF LifeInv
<1> QED
    BY <1>2, <1>3 DEF Handle, Dropped

\* What a client does opens no descriptor of the server's.
LEMMA ClientInv ==
    ASSUME LifeInv, NEW n \in Conns, Connect(n) \/ Send(n) \/ Leave(n)
    PROVE  LifeInv'
<1>1. UNCHANGED <<main, opened, owner, listenFd, epfd, flag, turn, workers, signals>>
    BY DEF Connect, Send, Leave
<1>2. /\ conn' \in [Conns -> [at : {"none", "backlog", "open", "left", "closed"},
                              worker : Workers, fd : Descriptors]]
      /\ \A m \in Conns :
            /\ conn'[m].fd = conn[m].fd
            /\ conn'[m].at \in {"open", "left"} => conn[m].at \in {"open", "left"}
    <2> HIDE DEF Descriptors
    <2> QED BY DEF Connect, Send, Leave, LifeInv, MiscOK
<1>3. TypeOK'
    BY <1>1, <1>2 DEF LifeInv, TypeOK
<1>4. MiscOK' /\ StartOK'
    BY <1>1, <1>2 DEF LifeInv, MiscOK, StartOK
<1>5. EpollsOK' /\ ConnsOK'
    BY <1>1, <1>2 DEF LifeInv, EpollsOK, ConnsOK
<1>6. ListenOK' /\ SignalOK'
    BY <1>1 DEF LifeInv, ListenOK, SignalOK, Boots, Ends
<1> QED
    BY <1>3, <1>4, <1>5, <1>6 DEF LifeInv

\* Asking for a signal: the flag is down when the first one is sent.
LEMMA SignalInv ==
    ASSUME LifeInv, Kill \/ \E how \in {"once", "script"} : AskToStop(how)
    PROVE  LifeInv'
<1>1. UNCHANGED <<main, opened, owner, listenFd, epfd, flag, turn, workers, clients, early>>
    BY DEF Kill, AskToStop
<1>2. /\ pending' \in BOOLEAN
      /\ stop' \in {"once", "script"}
      /\ stop' = "once" => ~flag
    BY DEF Kill, AskToStop, LifeInv, SignalOK
<1>3. TypeOK'
    BY <1>1 DEF LifeInv, TypeOK
<1>4. MiscOK' /\ StartOK'
    BY <1>1, <1>2 DEF LifeInv, MiscOK, StartOK
<1>5. EpollsOK' /\ ConnsOK'
    BY <1>1 DEF LifeInv, EpollsOK, ConnsOK
<1>6. ListenOK' /\ SignalOK'
    BY <1>1, <1>2 DEF LifeInv, ListenOK, SignalOK, Boots, Ends
<1> QED
    BY <1>3, <1>4, <1>5, <1>6 DEF LifeInv


\* exit_hook closes listen_fd, which no connection and no epoll set that is
\* still in use has.
LEMMA HookInv ==
    ASSUME LifeInv, Hook
    PROVE  LifeInv'
<1>1. /\ pending /\ ~pending' /\ flag'
      /\ owner' = [owner EXCEPT ![listenFd] = "free"]
      /\ early' = (early \/ main \in {"init", "bind", "listening"})
      /\ main \notin {"gone", "hung"}
      /\ main' = main \/ (main = "log" /\ main' = "hung")
      /\ UNCHANGED <<opened, listenFd, epfd, g_nolog, turn, workers, clients, stop>>
    BY DEF Hook, Closed
<1>2. pending' \in BOOLEAN /\ flag' \in BOOLEAN /\ early' \in BOOLEAN
    BY DEF Hook
<1>3. listenFd \in Descriptors /\ owner[listenFd] # "conn"
    BY DEF LifeInv, TypeOK, ListenOK
<1>4. TypeOK'
    BY <1>1, <1>3 DEF LifeInv, TypeOK
<1>5. MiscOK'
    BY <1>1, <1>2 DEF LifeInv, MiscOK
<1>6. StartOK'
    BY <1>1, <1>3 DEF LifeInv, TypeOK, StartOK
<1>7. EpollsOK'
    BY <1>1, <1>3 DEF LifeInv, TypeOK, EpollsOK
<1>8. ConnsOK'
    BY <1>1 DEF LifeInv, ConnsOK
<1>9. ListenOK'
    <2>1. owner'[listenFd'] = "free"
        BY <1>1, <1>3 DEF LifeInv, TypeOK
    <2>2. ~early' => ~Boots'
        BY <1>1 DEF Boots
    <2> QED
        BY <1>1, <2>1, <2>2, FileNames DEF ListenOK
<1>10. SignalOK'
    <2>1. stop # "none"
        BY <1>1 DEF LifeInv, SignalOK
    <2>2. \A fd \in Descriptors : owner'[fd] = "index" => owner[fd] = "index" /\ main' = main
        BY <1>1, <1>3 DEF LifeInv, TypeOK, SignalOK
    <2> QED
        BY <1>1, <2>1, <2>2 DEF LifeInv, SignalOK
<1> QED
    BY <1>4, <1>5, <1>6, <1>7, <1>8, <1>9, <1>10 DEF LifeInv

LEMMA StutterInv ==
    ASSUME LifeInv, UNCHANGED vars
    PROVE  LifeInv'
BY DEF vars, LifeInv, TypeOK, MiscOK, StartOK, EpollsOK, ConnsOK, ListenOK, SignalOK, Boots, Ends

LEMMA NextInv ==
    ASSUME LifeInv, [Next]_vars
    PROVE  LifeInv'
<1>1. CASE OpenFile
    BY <1>1, OpenFileInv
<1>2. CASE Socket \/ Listen
    BY <1>2, SocketInv, ListenInv
<1>3. CASE CreateEpoll
    BY <1>3, CreateEpollInv
<1>4. CASE Spawn
    BY <1>4, SpawnInv
<1>5. CASE Selected \/ AcceptFails \/ LoopAgain \/ SelectFails
    BY <1>5, AcceptLoopInv
<1>6. CASE Accept
    BY <1>6, AcceptInv
<1>7. CASE CloseAll
    BY <1>7, CloseAllInv
<1>8. CASE Dump
    BY <1>8, DumpInv
<1>9. CASE Rename
    BY <1>9, RenameInv
<1>10. CASE ListenFails \/ End
    BY <1>10, EndInv
<1>11. CASE \E w \in Workers : Worker(w)
    BY <1>11, WorkerLoopInv, HandleInv DEF Worker
<1>12. CASE \E n \in Conns : Connect(n) \/ Send(n) \/ Leave(n)
    BY <1>12, ClientInv
<1>13. CASE Kill \/ \E how \in {"once", "script"} : AskToStop(how)
    BY <1>13, SignalInv
<1>14. CASE Hook
    BY <1>14, HookInv
<1>15. CASE UNCHANGED vars
    BY <1>15, StutterInv
<1> QED
    BY <1>1, <1>2, <1>3, <1>4, <1>5, <1>6, <1>7, <1>8, <1>9, <1>10, <1>11, <1>12, <1>13,
       <1>14, <1>15 DEF Next, Main, Rest

\* The server's descriptors, from its start to its end: an epoll set keeps its
\* number, a connection's number is its own, listen_fd is never the number of
\* a connection nor, once there is a socket, of a file of init_data.
THEOREM LifeInvariance == Spec => []LifeInv
<1>1. Init => LifeInv
    BY InitInv
<1>2. LifeInv /\ [Next]_vars => LifeInv'
    BY NextInv
<1> QED
    BY <1>1, <1>2, PTL DEF Spec

-----------------------------------------------------------------------------
(* What may be closed by a signal, and accepted after it.                  *)

\* exit_hook closes no file of init_data once there is a socket, and the new
\* index only if a second signal comes.
THEOREM FilesStayOpen == Spec => FilesIntact
<1> DEFINE Kept == main # "init" =>
                      hurt' \ hurt \subseteq (IF stop = "script" THEN {"index"} ELSE {})
<1>1. ASSUME LifeInv, [Next]_vars PROVE Kept
    <2>1. CASE Hook
        <3>1. SUFFICES ASSUME main # "init", owner[listenFd] \in Range(Files) \cup {"index"}
                       PROVE  owner[listenFd] = "index" /\ stop = "script"
            BY <2>1 DEF Hook
        <3>2. owner[listenFd] = "index"
            BY <1>1, <3>1 DEF LifeInv, ListenOK
        <3>3. flag
            BY <1>1, <3>2 DEF LifeInv, TypeOK, SignalOK, Ends
        <3>4. stop \notin {"none", "once"}
            BY <1>1, <2>1, <3>3 DEF Hook, LifeInv, SignalOK
        <3> QED
            BY <1>1, <3>2, <3>4 DEF LifeInv, MiscOK
    <2>2. CASE ~Hook
        <3>1. hurt' = hurt
            BY <1>1, <2>2 DEF Next, vars, Main, OpenFile, Socket, Listen, ListenFails, CreateEpoll, Spawn,
               Selected, Accept, AcceptFails, LoopAgain, SelectFails, CloseAll, Dump, Rename, End, Gone, Worker, Call, Wake,
               TimeOut, BatchDone, Handle, Connect, Send, Leave, AskToStop, Kill, Rest
        <3> QED BY <3>1
    <2> QED BY <2>1, <2>2
<1> QED
    BY <1>1, LifeInvariance, PTL DEF Spec, FilesIntact


\* Once a stop was noticed, after start-up, do_accept takes no connection: the
\* socket that select spoke of is closed, and no other can have its number.
THEOREM NothingAcceptedLate == Spec => NoAcceptAfterStop
<1> DEFINE Refused == \A n \in Conns :
                         conn[n].at = "backlog" /\ conn'[n].at = "open" => early \/ ~flag
<1>1. ASSUME LifeInv, [Next]_vars PROVE Refused
    <2>1. CASE Accept
        <3>1. owner[listenFd] = "listen"
            BY <2>1 DEF Accept
        <3> QED
            BY <1>1, <3>1 DEF LifeInv, ListenOK
    <2>2. CASE ~Accept
        <3>1. SUFFICES ASSUME NEW n \in Conns, conn[n].at = "backlog", conn'[n].at = "open"
                       PROVE  FALSE
            OBVIOUS
        <3>2. CASE UNCHANGED conn
            BY <3>1, <3>2
        <3>3. CASE ListenFails \/ End
            BY <1>1, <3>1, <3>3 DEF ListenFails, End, Gone, LifeInv, MiscOK
        <3>4. CASE \E w \in Workers, m \in Conns : Handle(w, m) /\ conn' # conn
            BY <1>1, <3>1, <3>4 DEF Handle, Dropped, LifeInv, MiscOK
        <3>5. CASE \E m \in Conns : Connect(m) \/ Leave(m)
            BY <1>1, <3>1, <3>5 DEF Connect, Leave, LifeInv, MiscOK
        <3> QED
            BY <1>1, <2>2, <3>2, <3>3, <3>4, <3>5 DEF Next, vars, Main, OpenFile, Socket, Listen,
               CreateEpoll, Spawn, Selected, AcceptFails, LoopAgain, SelectFails, CloseAll, Dump, Rename, Worker,
               Call, Wake, TimeOut, BatchDone, Send, AskToStop, Kill, Hook, Rest
    <2> QED BY <2>1, <2>2
<1> QED
    BY <1>1, LifeInvariance, PTL DEF Spec, NoAcceptAfterStop

=============================================================================
