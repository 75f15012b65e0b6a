---------------------------- MODULE V1ServerProofs ----------------------------
(***************************************************************************)
(* Proofs about version 1's server, for any number of descriptors and      *)
(* commands, any bodies and any way they come in pieces.                   *)
(***************************************************************************)
EXTENDS V1Server, SequenceTheorems, TLAPS

-----------------------------------------------------------------------------
(* Sequences.                                                              *)

LEMMA FcnSeq ==
    ASSUME NEW S, NEW n \in Nat, NEW f \in [1..n -> S]
    PROVE  f \in Seq(S) /\ Len(f) = n
<1>1. f \in Seq(S)
    BY SeqDef
<1>2. Len(f) \in Nat /\ DOMAIN f = 1..Len(f)
    BY <1>1, LenProperties
<1>3. 1..n = 1..Len(f)
    BY <1>2
<1>4. n <= Len(f)
    <2>1. CASE n = 0
        BY <1>2, <2>1
    <2>2. CASE n > 0
        <3>1. n \in 1..Len(f)
            BY <1>3, <2>2
        <3> QED BY <3>1
    <2> QED BY <2>1, <2>2
<1>5. Len(f) <= n
    <2>1. CASE Len(f) = 0
        BY <2>1
    <2>2. CASE Len(f) > 0
        <3>1. Len(f) \in 1..n
            BY <1>2, <1>3, <2>2
        <3> QED BY <3>1
    <2> QED BY <1>2, <2>1, <2>2
<1> QED
    BY <1>1, <1>2, <1>4, <1>5

\* What is received, and what remains on its way.
LEMMA Split ==
    ASSUME NEW S, NEW s \in Seq(S), NEW n \in 1..Len(s)
    PROVE  /\ Len(s) \in Nat
           /\ SubSeq(s, 1, n) \in Seq(S) /\ Len(SubSeq(s, 1, n)) = n
           /\ \A i \in 1..n : SubSeq(s, 1, n)[i] = s[i]
           /\ SubSeq(s, n + 1, Len(s)) \in Seq(S) /\ Len(SubSeq(s, n + 1, Len(s))) = Len(s) - n
           /\ \A i \in 1..(Len(s) - n) : SubSeq(s, n + 1, Len(s))[i] = s[n + i]
<1>1. Len(s) \in Nat /\ n \in Nat /\ n >= 1 /\ n <= Len(s)
    BY LenProperties
<1>2. \A i \in 1..Len(s) : s[i] \in S
    BY ElementOfSeq
<1>3. /\ SubSeq(s, 1, n) \in Seq(S) /\ Len(SubSeq(s, 1, n)) = n
      /\ \A i \in 1..n : SubSeq(s, 1, n)[i] = s[i]
    <2>1. \A i \in 1..n : s[i] \in S
        BY <1>1, <1>2
    <2>2. /\ SubSeq(s, 1, n) \in Seq(S)
          /\ Len(SubSeq(s, 1, n)) = IF 1 <= n THEN n - 1 + 1 ELSE 0
          /\ \A i \in 1..(n - 1 + 1) : SubSeq(s, 1, n)[i] = s[1 + i - 1]
        BY <1>1, <2>1, SubSeqProperties
    <2> QED BY <1>1, <2>2
<1>4. /\ SubSeq(s, n + 1, Len(s)) \in Seq(S) /\ Len(SubSeq(s, n + 1, Len(s))) = Len(s) - n
      /\ \A i \in 1..(Len(s) - n) : SubSeq(s, n + 1, Len(s))[i] = s[n + i]
    <2>1. \A i \in (n + 1)..Len(s) : s[i] \in S
        BY <1>1, <1>2
    <2>2. /\ SubSeq(s, n + 1, Len(s)) \in Seq(S)
          /\ Len(SubSeq(s, n + 1, Len(s))) = IF n + 1 <= Len(s) THEN Len(s) - (n + 1) + 1 ELSE 0
          /\ \A i \in 1..(Len(s) - (n + 1) + 1) : SubSeq(s, n + 1, Len(s))[i] = s[n + 1 + i - 1]
        BY <1>1, <2>1, SubSeqProperties
    <2> QED BY <1>1, <2>2
<1> QED
    BY <1>1, <1>3, <1>4

LEMMA MinOfTwo ==
    ASSUME NEW a \in Int, NEW b \in Int
    PROVE  Min({a, b}) \in {a, b} /\ Min({a, b}) <= a /\ Min({a, b}) <= b
<1>1. \E x \in {a, b} : \A y \in {a, b} : x <= y
    BY a <= b \/ b <= a
<1> QED
    BY <1>1 DEF Min

-----------------------------------------------------------------------------
(* What the steps leave alone.                                             *)

\* No step forgets a command.
SentKept ==
    /\ Len(sent) <= Len(sent')
    /\ \A n \in 1..Len(sent) : sent'[n].req = sent[n].req /\ sent'[n].fd = sent[n].fd

Untouched(v) ==
    /\ conn'[v] = conn[v] /\ watch'[v] = watch[v] /\ slot'[v] = slot[v]
    /\ net'[v] = net[v] /\ waits'[v] = waits[v]

LEMMA ServerTypes ==
    ASSUME ServerInv, NEW fd \in Fds
    PROVE  /\ conn[fd] \in {"free", "open", "left"} /\ watch[fd] \in {"in", "out"}
           /\ slot[fd] \in [need : Nat, buf : Seq(Byte), key : Keys \cup {"none"}, reply : Replies]
           /\ slot[fd].need \in Nat /\ slot[fd].buf \in Seq(Byte) /\ Len(slot[fd].buf) \in Nat
           /\ net[fd] \in Seq(Byte) /\ Len(net[fd]) \in Nat
           /\ waits[fd] \in Nat
           /\ Len(sent) \in Nat
           /\ \A n \in 1..Len(sent) : sent[n] \in [req : Requests, fd : Fds, reply : Replies]
<1>1. sent \in Seq([req : Requests, fd : Fds, reply : Replies])
    BY DEF ServerInv, ServerTypeOK
<1>2. Len(sent) \in Nat /\ \A n \in 1..Len(sent) : sent[n] \in [req : Requests, fd : Fds, reply : Replies]
    BY <1>1, LenProperties, ElementOfSeq
<1>3. /\ slot[fd] \in [need : Nat, buf : Seq(Byte), key : Keys \cup {"none"}, reply : Replies]
      /\ net[fd] \in Seq(Byte)
    BY DEF ServerInv, ServerTypeOK
<1>4. Len(slot[fd].buf) \in Nat /\ Len(net[fd]) \in Nat
    BY <1>3, LenProperties
<1> QED
    BY <1>2, <1>3, <1>4 DEF ServerInv, ServerTypeOK

LEMMA SentStays ==
    ASSUME ServerInv, SentKept, NEW n, NEW fd, SentOn(n, fd), Len(sent') \in Nat
    PROVE  SentOn(n, fd)' /\ sent'[n].req = sent[n].req
<1>1. Len(sent) \in Nat
    BY LenProperties DEF ServerInv, ServerTypeOK
<1> QED
    BY <1>1 DEF SentOn, SentKept

\* The body a slot holds began with a command of its descriptor.
LEMMA Begun ==
    ASSUME ServerInv, NEW fd \in Fds, slot[fd].need # 0
    PROVE  1 \in 1..Len(slot[fd].buf) /\ SentOn(slot[fd].buf[1][1], fd)
<1>1. slot[fd].buf # << >> /\ \A i \in 1..Len(slot[fd].buf) : SentOn(slot[fd].buf[i][1], fd)
    BY DEF ServerInv, Sources
<1>2. Len(slot[fd].buf) \in Nat /\ Len(slot[fd].buf) # 0
    BY <1>1, ServerTypes, EmptySeq
<1> QED
    BY <1>1, <1>2

\* Other descriptors are not concerned.
LEMMA OthersKept ==
    ASSUME ServerInv, SentKept, Len(sent') \in Nat, torn \subseteq torn', NEW v \in Fds, Untouched(v)
    PROVE  Sources(v)' /\ (v \notin torn' => InStep(v)')
<1>1. Sources(v)
    BY DEF ServerInv
<1>2. Sources(v)'
    <2>1. \A n : SentOn(n, v) => SentOn(n, v)'
        BY SentStays
    <2> QED
        BY <1>1, <2>1 DEF Sources, Untouched
<1>3. ASSUME v \notin torn' PROVE InStep(v)'
    <2>1. InStep(v)
        BY <1>3 DEF ServerInv
    <2>2. HeaderNext(v)' /\ BetweenCommands(v)'
        BY <2>1 DEF InStep, HeaderNext, BetweenCommands, Untouched
    <2>3. BodyUnderWay(v)'
        <3>1. slot[v].need # 0 => sent'[slot[v].buf[1][1]].req = sent[slot[v].buf[1][1]].req
            BY <1>1, Begun, SentStays
        <3> QED
            BY <2>1, <3>1, ZenonT(60) DEF InStep, BodyUnderWay, Untouched
    <2>4. ReplyDue(v)'
        <3>1. waits[v] # 0 => sent'[waits[v]].req = sent[waits[v]].req
            BY <1>1, SentStays DEF Sources
        <3>2. ASSUME NEW r, NEW a, Suits(r, a) PROVE Suits(r, a)'
            <4>1. \A m \in 1..Len(sent) : /\ m \in 1..Len(sent')
                                          /\ sent'[m].req = sent[m].req /\ sent'[m].fd = sent[m].fd
                BY ServerTypes DEF SentKept
            <4> QED
                BY <3>2, <4>1 DEF Suits, Fits, ValueFits
        <3>3. CASE watch[v] = "out" /\ conn[v] = "open"
            <4>1. waits[v] # 0
                BY <2>1, <3>3 DEF InStep, ReplyDue
            <4>2. slot[v].reply # NoAnswer => Suits(sent[waits[v]].req, slot[v].reply)
                BY <2>1, <3>3 DEF InStep, ReplyDue
            <4>3. PICK r, a : r = sent[waits[v]].req /\ a = slot[v].reply
                OBVIOUS
            <4>4. a # NoAnswer => Suits(r, a)'
                BY <3>2, <4>2, <4>3
            <4>5. r = sent'[waits'[v]].req /\ a = slot'[v].reply
                BY <3>1, <4>1, <4>3 DEF Untouched
            <4>6. slot'[v].reply # NoAnswer => Suits(sent[waits[v]].req, slot[v].reply)'
                BY <4>4, <4>5 DEF Suits, Fits, ValueFits
            <4> QED
                BY <4>1, <4>6 DEF ReplyDue, Untouched, NoAnswer
        <3>4. CASE ~(watch[v] = "out" /\ conn[v] = "open")
            BY <3>4 DEF ReplyDue, Untouched
        <3> QED BY <3>3, <3>4
    <2> QED
        BY <2>2, <2>3, <2>4 DEF InStep
<1> QED
    BY <1>2, <1>3

\* What is stored is that of a command that was sent.
LEMMA StoredSent ==
    ASSUME ServerInv, NEW k \in Keys, store[k] # << >>
    PROVE  store[k][1][1] \in 1..Len(sent)
<1>1. store[k] \in Seq(Byte)
    BY DEF ServerInv, ServerTypeOK
<1>2. Len(store[k]) \in Nat /\ Len(store[k]) # 0
    BY <1>1, LenProperties, EmptySeq
<1>3. 1 \in 1..Len(store[k])
    BY <1>2
<1> QED
    BY <1>3 DEF ServerInv, StoreSources, SentOn

\* A step that stores nothing.
LEMMA StoreKept ==
    ASSUME ServerInv, SentKept, Len(sent') \in Nat, torn \subseteq torn', store' = store
    PROVE  StoreSources' /\ StoredWhole'
<1>1. \A m \in 1..Len(sent) : /\ m \in 1..Len(sent')
                              /\ sent'[m].req = sent[m].req /\ sent'[m].fd = sent[m].fd
    <2>1. Len(sent) \in Nat
        BY LenProperties DEF ServerInv, ServerTypeOK
    <2> QED BY <2>1 DEF SentKept
<1>2. \A m \in 1..Len(sent) : WholeValue(m)' = WholeValue(m)
    BY <1>1 DEF WholeValue
<1>3. StoreSources'
    <2>1. \A n, fd : SentOn(n, fd) => SentOn(n, fd)'
        BY SentStays
    <2> QED
        BY <2>1 DEF ServerInv, StoreSources
<1>4. StoredWhole'
    BY <1>1, <1>2, StoredSent DEF ServerInv, StoredWhole
<1> QED BY <1>3, <1>4

\* A step in which nobody gets a reply.
LEMMA RepliesKept ==
    ASSUME ServerInv, sent' = sent, torn \subseteq torn'
    PROVE  RepliesSuit' /\ SentKept /\ Len(sent') \in Nat
<1>1. Len(sent) \in Nat
    BY LenProperties DEF ServerInv, ServerTypeOK
<1>2. RepliesSuit'
    BY DEF ServerInv, RepliesSuit, Suits, Fits, ValueFits
<1>3. SentKept
    BY <1>1 DEF SentKept
<1> QED BY <1>1, <1>2, <1>3

\* What is left to show of a step of one descriptor.
LEMMA OneDescriptor ==
    ASSUME ServerInv, NEW fd \in Fds, SentKept, torn \subseteq torn',
           \A v \in Fds \ {fd} : Untouched(v),
           ServerTypeOK', Sources(fd)', fd \notin torn' => InStep(fd)',
           StoreSources', StoredWhole', RepliesSuit'
    PROVE  ServerInv'
<1>1. Len(sent') \in Nat
    BY LenProperties DEF ServerTypeOK
<1>2. ASSUME NEW v \in Fds PROVE Sources(v)' /\ (v \notin torn' => InStep(v)')
    <2>1. CASE v = fd
        BY <2>1
    <2>2. CASE v # fd
        BY <1>1, <2>2, OthersKept
    <2> QED BY <2>1, <2>2
<1> QED
    BY <1>2 DEF ServerInv

LEMMA Silent ==
    ASSUME ServerInv, NEW fd \in Fds, UNCHANGED <<store, sent>>, torn \subseteq torn',
           \A v \in Fds \ {fd} : Untouched(v),
           ServerTypeOK', Sources(fd)', fd \notin torn' => InStep(fd)'
    PROVE  ServerInv'
BY RepliesKept, StoreKept, OneDescriptor

-----------------------------------------------------------------------------
(* Connections and clients.                                                *)

\* The reply of a slot is gone.
LEMMA ReplyGone ==
    ASSUME ServerInv, NEW fd \in Fds, slot' = [slot EXCEPT ![fd].reply = NoAnswer]
    PROVE  /\ slot'[fd].reply = NoAnswer /\ slot'[fd].need = slot[fd].need
           /\ slot'[fd].buf = slot[fd].buf /\ slot'[fd].key = slot[fd].key
           /\ \A v \in Fds \ {fd} : slot'[v] = slot[v]
           /\ slot' \in [Fds -> [need : Nat, buf : Seq(Byte), key : Keys \cup {"none"}, reply : Replies]]
           /\ slot[fd] = EmptySlot => slot'[fd] = EmptySlot
<1>1. NoAnswer \in Replies
    BY DEF Replies
<1>2. slot \in [Fds -> [need : Nat, buf : Seq(Byte), key : Keys \cup {"none"}, reply : Replies]]
    BY DEF ServerInv, ServerTypeOK
<1>3. slot'[fd] = [slot[fd] EXCEPT !.reply = NoAnswer] /\ \A v \in Fds \ {fd} : slot'[v] = slot[v]
    BY <1>2
<1>4. /\ slot'[fd].reply = NoAnswer /\ slot'[fd].need = slot[fd].need
      /\ slot'[fd].buf = slot[fd].buf /\ slot'[fd].key = slot[fd].key
    BY <1>2, <1>3
<1>5. slot' \in [Fds -> [need : Nat, buf : Seq(Byte), key : Keys \cup {"none"}, reply : Replies]]
    BY <1>1, <1>2
<1>6. slot[fd] = EmptySlot => slot'[fd] = EmptySlot
    BY <1>3 DEF EmptySlot
<1> QED
    BY <1>3, <1>4, <1>5, <1>6

LEMMA AcceptInv ==
    ASSUME ServerInv, NEW fd \in Fds, Accept(fd)
    PROVE  ServerInv'
<1>1. /\ conn[fd] = "free" /\ conn' = [conn EXCEPT ![fd] = "open"] /\ watch' = [watch EXCEPT ![fd] = "in"]
      /\ UNCHANGED <<slot, store, net, sent, waits, torn>>
    BY DEF Accept
<1>2. ServerTypeOK' /\ conn'[fd] = "open" /\ watch'[fd] = "in" /\ \A v \in Fds \ {fd} : Untouched(v)
    BY <1>1 DEF ServerInv, ServerTypeOK, Untouched
<1>3. Sources(fd) /\ Len(net[fd]) = 0
    BY <1>1, EmptySeq DEF ServerInv, Sources
<1>4. Sources(fd)'
    BY <1>1, <1>2, <1>3 DEF Sources, SentOn
<1>5. ASSUME fd \notin torn' PROVE InStep(fd)'
    <2>1. InStep(fd)
        BY <1>1, <1>5 DEF ServerInv
    <2>2. slot[fd].need = 0 /\ slot[fd].reply = NoAnswer
        BY <1>1, <2>1 DEF InStep, BodyUnderWay, BetweenCommands
    <2>3. HeaderNext(fd)' /\ BodyUnderWay(fd)'
        BY <1>1, <1>3, <2>2 DEF HeaderNext, BodyUnderWay
    <2>4. BetweenCommands(fd)' /\ ReplyDue(fd)'
        BY <1>1, <1>2, <2>1, <2>2 DEF InStep, BetweenCommands, ReplyDue
    <2> QED BY <2>3, <2>4 DEF InStep
<1> QED
    BY <1>1, <1>2, <1>4, <1>5, Silent

LEMMA LeaveInv ==
    ASSUME ServerInv, NEW fd \in Fds, Leave(fd)
    PROVE  ServerInv'
<1>1. /\ conn[fd] = "open" /\ conn' = [conn EXCEPT ![fd] = "left"] /\ waits' = [waits EXCEPT ![fd] = 0]
      /\ UNCHANGED <<watch, slot, store, sent, torn>>
    BY DEF Leave
<1>2. PICK n \in 0..Len(net[fd]) : net' = [net EXCEPT ![fd] = SubSeq(net[fd], 1, n)]
    BY DEF Leave
<1>3. /\ SubSeq(net[fd], 1, n) \in Seq(Byte) /\ Len(SubSeq(net[fd], 1, n)) = n
      /\ \A i \in 1..n : SubSeq(net[fd], 1, n)[i] = net[fd][i]
      /\ n \in Nat /\ n <= Len(net[fd]) /\ Len(net[fd]) \in Nat
    <2>1. Len(net[fd]) \in Nat /\ \A i \in 1..n : net[fd][i] \in Byte
        BY ServerTypes, ElementOfSeq
    <2>2. /\ SubSeq(net[fd], 1, n) \in Seq(Byte)
          /\ Len(SubSeq(net[fd], 1, n)) = IF 1 <= n THEN n - 1 + 1 ELSE 0
          /\ \A i \in 1..(n - 1 + 1) : SubSeq(net[fd], 1, n)[i] = net[fd][1 + i - 1]
        BY <2>1, SubSeqProperties
    <2> QED BY <2>1, <2>2
<1>4. /\ net'[fd] \in Seq(Byte) /\ Len(net'[fd]) = n /\ \A i \in 1..n : net'[fd][i] = net[fd][i]
      /\ conn'[fd] = "left" /\ waits'[fd] = 0
    BY <1>1, <1>2, <1>3 DEF ServerInv, ServerTypeOK
<1>5. ServerTypeOK' /\ \A v \in Fds \ {fd} : Untouched(v)
    BY <1>1, <1>2, <1>3 DEF ServerInv, ServerTypeOK, Untouched
<1>6. Sources(fd)'
    BY <1>1, <1>3, <1>4 DEF ServerInv, Sources, SentOn
<1>7. ASSUME fd \notin torn' PROVE InStep(fd)'
    <2>1. InStep(fd)
        BY <1>1, <1>7 DEF ServerInv
    <2>2. ASSUME NEW h \in 1..Len(net'[fd]), net'[fd][h][2] = 1
          PROVE  /\ slot[fd].need = 0 /\ watch[fd] = "in"
                 /\ \A j \in h..Len(net'[fd]) : net'[fd][j] = <<net'[fd][h][1], j - h + 1>>
        <3>1. h \in 1..Len(net[fd]) /\ net[fd][h][2] = 1 /\ net'[fd][h] = net[fd][h]
            BY <1>3, <1>4, <2>2
        <3>2. /\ slot[fd].need = 0 /\ watch[fd] = "in"
              /\ \A j \in h..Len(net[fd]) : net[fd][j] = <<net[fd][h][1], j - h + 1>>
            BY <2>1, <3>1 DEF InStep, HeaderNext
        <3>3. \A j \in h..n : j \in h..Len(net[fd]) /\ j \in 1..n
            BY <1>3
        <3> QED BY <1>4, <3>1, <3>2, <3>3
    <2>3. HeaderNext(fd)'
        BY <1>1, <1>4, <2>2 DEF HeaderNext
    <2>4. BodyUnderWay(fd)'
        <3>1. \A i \in 1..n : i \in 1..Len(net[fd])
            BY <1>3
        <3> QED
            BY <1>1, <1>4, <2>1, <3>1 DEF InStep, BodyUnderWay
    <2>5. BetweenCommands(fd)' /\ ReplyDue(fd)'
        BY <1>1, <1>4, <2>1 DEF InStep, BetweenCommands, ReplyDue
    <2> QED BY <2>3, <2>4, <2>5 DEF InStep
<1> QED
    BY <1>1, <1>5, <1>6, <1>7, Silent

LEMMA EndOfInputInv ==
    ASSUME ServerInv, NEW fd \in Fds, EndOfInput(fd)
    PROVE  ServerInv'
<1>1. /\ fd \notin High /\ watch[fd] = "in" /\ net[fd] = << >> /\ conn' = [conn EXCEPT ![fd] = "free"]
      /\ torn' = IF slot[fd].buf = << >> THEN torn ELSE torn \cup {fd}
      /\ UNCHANGED <<watch, slot, store, net, sent, waits>> /\ conn[fd] = "left"
    BY DEF EndOfInput, Closes
<1>2. /\ Len(net'[fd]) = 0 /\ conn'[fd] = "free" /\ torn \subseteq torn'
      /\ ServerTypeOK' /\ \A v \in Fds \ {fd} : Untouched(v)
    BY <1>1, EmptySeq DEF ServerInv, ServerTypeOK, Untouched
<1>3. Sources(fd)'
    BY <1>1, <1>2 DEF ServerInv, Sources, SentOn
<1>4. ASSUME fd \notin torn' PROVE InStep(fd)'
    <2>1. slot[fd].buf = << >> /\ InStep(fd)
        BY <1>1, <1>4 DEF ServerInv
    <2>2. slot[fd].need = 0
        BY <2>1 DEF ServerInv, Sources
    <2> QED
        BY <1>1, <1>2, <2>1, <2>2
           DEF InStep, HeaderNext, BodyUnderWay, BetweenCommands, ReplyDue
<1> QED
    BY <1>1, <1>2, <1>3, <1>4, Silent

LEMMA TooHighInv ==
    ASSUME ServerInv, NEW fd \in Fds, TooHigh(fd)
    PROVE  ServerInv'
<1>1. /\ fd \in High /\ conn' = [conn EXCEPT ![fd] = "free"] /\ net' = [net EXCEPT ![fd] = << >>]
      /\ waits' = [waits EXCEPT ![fd] = 0]
      /\ UNCHANGED <<watch, slot, store, sent, torn>>
    BY DEF TooHigh
<1>2. << >> \in Seq(Byte) /\ Len(<< >>) = 0
    BY EmptySeq
<1>3. /\ Len(net'[fd]) = 0 /\ net'[fd] = << >> /\ conn'[fd] = "free" /\ waits'[fd] = 0
      /\ ServerTypeOK' /\ \A v \in Fds \ {fd} : Untouched(v)
    BY <1>1, <1>2 DEF ServerInv, ServerTypeOK, Untouched
<1>4. Sources(fd)' /\ slot[fd] = EmptySlot
    <2>1. Sources(fd)
        BY DEF ServerInv
    <2> QED BY <1>1, <1>3, <2>1 DEF Sources, SentOn
<1>5. fd \notin torn' => InStep(fd)'
    BY <1>1, <1>3, <1>4
       DEF InStep, HeaderNext, BodyUnderWay, BetweenCommands, ReplyDue, EmptySlot
<1> QED
    BY <1>1, <1>3, <1>4, <1>5, Silent

LEMMA OutputLostInv ==
    ASSUME ServerInv, NEW fd \in Fds, OutputLost(fd)
    PROVE  ServerInv'
<1>1. /\ conn[fd] = "left" /\ watch[fd] = "out" /\ slot' = [slot EXCEPT ![fd].reply = NoAnswer]
      /\ UNCHANGED <<store, sent, waits>>
    BY DEF OutputLost
<1>2. /\ slot'[fd].reply = NoAnswer /\ slot'[fd].need = slot[fd].need
      /\ slot'[fd].buf = slot[fd].buf /\ slot'[fd].key = slot[fd].key
      /\ slot' \in [Fds -> [need : Nat, buf : Seq(Byte), key : Keys \cup {"none"}, reply : Replies]]
      /\ \A v \in Fds \ {fd} : slot'[v] = slot[v]
      /\ slot[fd] = EmptySlot => slot'[fd] = EmptySlot
    BY <1>1, ReplyGone
<1>3. CASE watch' = [watch EXCEPT ![fd] = "in"] /\ UNCHANGED <<conn, net, torn>>
    <2>1. ServerTypeOK' /\ watch'[fd] = "in" /\ \A v \in Fds \ {fd} : Untouched(v)
        BY <1>1, <1>2, <1>3 DEF ServerInv, ServerTypeOK, Untouched
    <2>2. Sources(fd)'
        BY <1>1, <1>2, <1>3 DEF ServerInv, Sources, SentOn
    <2>3. fd \notin torn' => InStep(fd)'
        BY <1>1, <1>2, <1>3, <2>1
           DEF ServerInv, InStep, HeaderNext, BodyUnderWay, BetweenCommands, ReplyDue
    <2> QED
        BY <1>1, <1>3, <2>1, <2>2, <2>3, Silent
<1>4. CASE Closes(fd) /\ net' = [net EXCEPT ![fd] = << >>] /\ UNCHANGED watch
    <2>1. << >> \in Seq(Byte) /\ Len(<< >>) = 0
        BY EmptySeq
    <2>2. /\ conn' = [conn EXCEPT ![fd] = "free"] /\ torn \subseteq torn'
          /\ torn' = IF slot[fd].buf = << >> THEN torn ELSE torn \cup {fd}
        BY <1>4 DEF Closes
    <2>3. /\ ServerTypeOK' /\ Len(net'[fd]) = 0 /\ net'[fd] = << >> /\ conn'[fd] = "free"
          /\ \A v \in Fds \ {fd} : Untouched(v)
        BY <1>1, <1>2, <1>4, <2>1, <2>2 DEF ServerInv, ServerTypeOK, Untouched
    <2>4. Sources(fd)'
        BY <1>1, <1>2, <2>3 DEF ServerInv, Sources, SentOn
    <2>5. ASSUME fd \notin torn' PROVE InStep(fd)'
        <3>1. slot[fd].buf = << >> /\ InStep(fd)
            BY <2>2, <2>5 DEF ServerInv
        <3>2. slot[fd].need = 0
            BY <3>1 DEF ServerInv, Sources
        <3> QED
            BY <1>1, <1>2, <2>3, <3>1, <3>2
               DEF InStep, HeaderNext, BodyUnderWay, BetweenCommands, ReplyDue
    <2> QED
        BY <1>1, <2>2, <2>3, <2>4, <2>5, Silent
<1> QED
    BY <1>3, <1>4 DEF OutputLost

LEMMA OutputInv ==
    ASSUME ServerInv, NEW fd \in Fds, Output(fd)
    PROVE  ServerInv'
<1>1. /\ conn[fd] = "open" /\ watch[fd] = "out" /\ watch' = [watch EXCEPT ![fd] = "in"]
      /\ slot' = [slot EXCEPT ![fd].reply = NoAnswer]
      /\ UNCHANGED <<conn, store, net, torn>>
    BY DEF Output, Rewatch
<1>2. /\ slot'[fd].reply = NoAnswer /\ slot'[fd].need = slot[fd].need
      /\ slot'[fd].buf = slot[fd].buf /\ slot'[fd].key = slot[fd].key /\ watch'[fd] = "in"
      /\ slot' \in [Fds -> [need : Nat, buf : Seq(Byte), key : Keys \cup {"none"}, reply : Replies]]
      /\ \A v \in Fds \ {fd} : slot'[v] = slot[v]
      /\ slot[fd] = EmptySlot => slot'[fd] = EmptySlot
    BY <1>1, ReplyGone DEF ServerInv, ServerTypeOK
<1>3. fd \notin torn => /\ slot[fd].need = 0 /\ slot[fd].buf = << >> /\ slot[fd].key = "none"
                        /\ \A h \in 1..Len(net[fd]) : net[fd][h][2] # 1
    BY <1>1 DEF ServerInv, InStep, HeaderNext, BodyUnderWay, BetweenCommands
<1>4. InStep(fd)' \/ fd \in torn'
    BY <1>1, <1>2, <1>3 DEF InStep, HeaderNext, BodyUnderWay, BetweenCommands, ReplyDue
<1>5. CASE UNCHANGED <<sent, waits>>
    <2>1. ServerTypeOK' /\ \A v \in Fds \ {fd} : Untouched(v)
        BY <1>1, <1>2, <1>5 DEF ServerInv, ServerTypeOK, Untouched
    <2>2. Sources(fd)'
        BY <1>1, <1>2, <1>5 DEF ServerInv, Sources, SentOn
    <2> QED
        BY <1>1, <1>4, <1>5, <2>1, <2>2, Silent
<1>6. CASE /\ waits[fd] # 0 /\ slot[fd].reply # NoAnswer
           /\ sent' = [sent EXCEPT ![waits[fd]].reply = slot[fd].reply]
           /\ waits' = [waits EXCEPT ![fd] = 0]
    <2> DEFINE new == [sent[waits[fd]] EXCEPT !.reply = slot[fd].reply]
    <2>1. SentOn(waits[fd], fd) /\ waits[fd] \in 1..Len(sent)
        BY <1>6 DEF ServerInv, Sources, SentOn
    <2>2. /\ new \in [req : Requests, fd : Fds, reply : Replies]
          /\ new.req = sent[waits[fd]].req /\ new.fd = sent[waits[fd]].fd /\ new.reply = slot[fd].reply
        <3>1. PICK old, reply : old = sent[waits[fd]] /\ reply = slot[fd].reply
            OBVIOUS
        <3>2. old \in [req : Requests, fd : Fds, reply : Replies] /\ reply \in Replies
            BY <2>1, <3>1, ServerTypes
        <3>3. new = [old EXCEPT !.reply = reply]
            BY <3>1, Zenon
        <3> QED
            BY <3>1, <3>2, <3>3
    <2>3. sent' = [sent EXCEPT ![waits[fd]] = new]
        BY <1>6
    <2> HIDE DEF new
    <2>4. sent \in Seq([req : Requests, fd : Fds, reply : Replies])
        BY DEF ServerInv, ServerTypeOK
    <2>5. /\ sent' \in Seq([req : Requests, fd : Fds, reply : Replies]) /\ Len(sent') = Len(sent)
          /\ \A j \in 1..Len(sent) : sent'[j] = IF j = waits[fd] THEN new ELSE sent[j]
        BY <2>1, <2>2, <2>3, <2>4, ExceptSeq
    <2>6. SentKept /\ Len(sent') \in Nat /\ waits'[fd] = 0
        <3>1. Len(sent) \in Nat /\ waits \in [Fds -> Nat]
            BY ServerTypes DEF ServerInv, ServerTypeOK
        <3> QED
            BY <1>6, <2>2, <2>5, <3>1 DEF SentKept
    <2>7. ServerTypeOK' /\ \A v \in Fds \ {fd} : Untouched(v)
        BY <1>1, <1>2, <1>6, <2>5 DEF ServerInv, ServerTypeOK, Untouched
    <2>8. Sources(fd)'
        <3>1. \A n : SentOn(n, fd) => SentOn(n, fd)'
            BY <2>6, SentStays
        <3> QED
            BY <1>1, <1>2, <2>6, <3>1 DEF ServerInv, Sources
    <2>9. RepliesSuit'
        <3>1. ASSUME NEW n \in 1..Len(sent), sent'[n].reply # NoAnswer, sent'[n].fd \notin torn
              PROVE  Suits(sent[n].req, sent[n].reply)'
            <4>1. /\ sent'[n].req = sent[n].req /\ sent'[n].fd = sent[n].fd
                  /\ \A m \in 1..Len(sent) : sent'[m].req = sent[m].req /\ sent'[m].fd = sent[m].fd
                BY <2>6 DEF SentKept
            <4>2. Suits(sent[n].req, sent'[n].reply)
                <5>1. CASE n = waits[fd]
                    BY <1>1, <2>1, <2>2, <2>5, <3>1, <4>1, <5>1
                       DEF ServerInv, InStep, ReplyDue, SentOn
                <5>2. CASE n # waits[fd]
                    BY <2>5, <3>1, <4>1, <5>2 DEF ServerInv, RepliesSuit
                <5> QED BY <5>1, <5>2
            <4> QED
                BY <1>1, <2>5, <4>1, <4>2 DEF Suits, Fits, ValueFits
        <3> QED
            BY <1>1, <2>5, <3>1 DEF RepliesSuit, NoAnswer
    <2>10. StoreSources' /\ StoredWhole'
        BY <1>1, <2>6, StoreKept
    <2> QED
        BY <1>1, <1>4, <2>6, <2>7, <2>8, <2>9, <2>10, OneDescriptor
<1> QED
    BY <1>5, <1>6 DEF Output

\* The bytes of a command.
LEMMA BytesOf ==
    ASSUME NEW r \in Requests, NEW n \in Nat
    PROVE  /\ Length(r) \in Nat /\ r.head \in Nat /\ r.head >= 1 /\ r.total \in Nat
           /\ Bytes(n, r) \in Seq(Byte) /\ Len(Bytes(n, r)) = Length(r)
           /\ \A i \in 1..Length(r) : Bytes(n, r)[i] = <<n, i>>
<1>1. /\ r.head \in Nat /\ r.head >= 1 /\ r.total \in Nat
    BY RequestsAssumption
<1>2. Length(r) \in Nat
    BY <1>1 DEF Length
<1>3. Bytes(n, r) \in [1..Length(r) -> Byte]
    BY <1>2 DEF Bytes, Byte
<1>4. \A i \in 1..Length(r) : Bytes(n, r)[i] = <<n, i>>
    BY DEF Bytes
<1> QED
    BY <1>1, <1>2, <1>3, <1>4, FcnSeq

\* A client that sends has no command under way.
LEMMA SendInv ==
    ASSUME ServerInv, NEW fd \in Fds, Send(fd)
    PROVE  ServerInv'
<1>1. /\ conn[fd] = "open" /\ waits[fd] = 0 /\ waits' = [waits EXCEPT ![fd] = Len(sent) + 1]
      /\ UNCHANGED <<conn, watch, slot, store, torn>>
    BY DEF Send
<1>2. PICK r \in Requests :
          /\ sent' = Append(sent, [req |-> r, fd |-> fd, reply |-> NoAnswer])
          /\ net' = [net EXCEPT ![fd] = net[fd] \o Bytes(Len(sent) + 1, r)]
    BY DEF Send
<1>3. PICK n \in Nat : n = Len(sent) + 1
    BY ServerTypes
<1> DEFINE c == [req |-> r, fd |-> fd, reply |-> NoAnswer]
<1>4. c \in [req : Requests, fd : Fds, reply : Replies] /\ c.req = r /\ c.fd = fd /\ c.reply = NoAnswer
    BY DEF Replies
<1>5. sent' = Append(sent, c)
    BY <1>2
<1> HIDE DEF c
<1>6. /\ sent' \in Seq([req : Requests, fd : Fds, reply : Replies])
      /\ Len(sent') = Len(sent) + 1 /\ Len(sent) \in Nat
      /\ \A i \in 1..Len(sent) : sent'[i] = sent[i]
      /\ sent'[Len(sent) + 1] = c
    <2>1. sent \in Seq([req : Requests, fd : Fds, reply : Replies])
        BY DEF ServerInv, ServerTypeOK
    <2> QED BY <1>4, <1>5, <2>1, AppendProperties, LenProperties
<1>7. SentKept /\ Len(sent') \in Nat
    BY <1>6 DEF SentKept
<1>8. /\ net[fd] \in Seq(Byte) /\ Len(net[fd]) \in Nat
      /\ net'[fd] = net[fd] \o Bytes(n, r)
      /\ net'[fd] \in Seq(Byte) /\ Len(net'[fd]) = Len(net[fd]) + Length(r) /\ Length(r) \in Nat
      /\ \A i \in 1..Len(net[fd]) + Length(r) :
            net'[fd][i] = IF i <= Len(net[fd]) THEN net[fd][i] ELSE <<n, i - Len(net[fd])>>
    <2>1. net \in [Fds -> Seq(Byte)] /\ net[fd] \in Seq(Byte) /\ Len(net[fd]) \in Nat
        BY ServerTypes DEF ServerInv, ServerTypeOK
    <2>2. net'[fd] = net[fd] \o Bytes(n, r)
        BY <1>2, <1>3, <2>1
    <2>3. /\ net'[fd] \in Seq(Byte) /\ Len(net'[fd]) = Len(net[fd]) + Length(r)
          /\ \A i \in 1..Len(net[fd]) + Length(r) :
                net'[fd][i] = IF i <= Len(net[fd]) THEN net[fd][i] ELSE Bytes(n, r)[i - Len(net[fd])]
        BY <2>1, <2>2, BytesOf, ConcatProperties
    <2>4. Length(r) \in Nat /\ \A i \in 1..Length(r) : Bytes(n, r)[i] = <<n, i>>
        BY BytesOf
    <2>5. \A i \in 1..Len(net[fd]) + Length(r) : ~(i <= Len(net[fd])) => i - Len(net[fd]) \in 1..Length(r)
        BY <2>1, <2>4
    <2> QED BY <2>1, <2>2, <2>3, <2>4, <2>5
<1>9. waits'[fd] = n
    BY <1>1, <1>3 DEF ServerInv, ServerTypeOK
<1>10. ServerTypeOK' /\ \A v \in Fds \ {fd} : Untouched(v)
    <2>1. net' \in [Fds -> Seq(Byte)] /\ \A v \in Fds \ {fd} : net'[v] = net[v]
        BY <1>2, <1>3, <1>8 DEF ServerInv, ServerTypeOK
    <2> QED
        BY <1>1, <1>3, <1>6, <2>1 DEF ServerInv, ServerTypeOK, Untouched
<1>11. Sources(fd) /\ \A m : SentOn(m, fd) => SentOn(m, fd)'
    BY <1>7, SentStays DEF ServerInv
<1>12. SentOn(n, fd)'
    BY <1>3, <1>4, <1>6 DEF SentOn
<1>13. Sources(fd)'
    <2>1. ASSUME NEW i \in 1..Len(net'[fd]) PROVE SentOn(net[fd][i][1], fd)'
        <3>1. i \in 1..(Len(net[fd]) + Length(r))
            BY <1>8
        <3>2. CASE i <= Len(net[fd])
            <4>1. i \in 1..Len(net[fd]) /\ net'[fd][i] = net[fd][i]
                BY <1>8, <3>1, <3>2
            <4>2. SentOn(net[fd][i][1], fd)
                BY <1>11, <4>1 DEF Sources
            <4>3. PICK m : m = net[fd][i][1]
                OBVIOUS
            <4>4. SentOn(m, fd)'
                BY <1>11, <4>2, <4>3
            <4> QED BY <4>1, <4>3, <4>4 DEF SentOn
        <3>3. CASE ~(i <= Len(net[fd]))
            <4>1. net'[fd][i] = <<n, i - Len(net[fd])>>
                BY <1>8, <3>1, <3>3
            <4>2. net'[fd][i][1] = n
                BY <4>1
            <4> QED BY <1>12, <4>2 DEF SentOn
        <3> QED BY <3>2, <3>3
    <2>2. SentOn(waits[fd], fd)'
        BY <1>9, <1>12 DEF SentOn
    <2>3. \A i \in 1..Len(slot[fd].buf) : SentOn(slot[fd].buf[i][1], fd)'
        BY <1>1, <1>11 DEF Sources, SentOn
    <2> QED
        BY <1>1, <1>11, <2>1, <2>2, <2>3 DEF Sources
<1>14. ASSUME fd \notin torn' PROVE InStep(fd)'
    <2>1. InStep(fd)
        BY <1>1, <1>14 DEF ServerInv
    <2>2. slot[fd].need = 0 /\ watch[fd] = "in"
        <3>1. slot[fd].need # 0 => SentOn(0, fd)
            BY <1>1, <2>1, Begun DEF InStep, BodyUnderWay
        <3>2. ~SentOn(0, fd)
            BY DEF SentOn
        <3>3. watch[fd] # "out"
            BY <1>1, <2>1 DEF InStep, ReplyDue
        <3> QED BY <3>1, <3>2, <3>3, ServerTypes
    <2>3. \A h \in 1..Len(net[fd]) : net[fd][h][2] # 1
        BY <1>1, <1>11, <2>1 DEF Sources, SentOn, InStep, HeaderNext
    <2>4. ASSUME NEW h \in 1..Len(net'[fd]), net'[fd][h][2] = 1
          PROVE  /\ net'[fd][h][1] = n
                 /\ \A j \in h..Len(net'[fd]) : net'[fd][j] = <<net'[fd][h][1], j - h + 1>>
        <3>1. ~(h <= Len(net[fd]))
            <4>1. h <= Len(net[fd]) => h \in 1..Len(net[fd]) /\ net'[fd][h] = net[fd][h]
                BY <1>8
            <4> QED BY <2>3, <2>4, <4>1
        <3>2. net'[fd][h] = <<n, h - Len(net[fd])>>
            BY <1>8, <3>1
        <3>3. h = Len(net[fd]) + 1
            BY <1>8, <2>4, <3>2
        <3>4. net'[fd][h][1] = n
            BY <3>2
        <3>5. ASSUME NEW j \in h..Len(net'[fd]) PROVE net'[fd][j] = <<n, j - h + 1>>
            <4>1. j \in 1..(Len(net[fd]) + Length(r)) /\ ~(j <= Len(net[fd]))
                BY <1>8, <3>3
            <4>2. net'[fd][j] = <<n, j - Len(net[fd])>>
                BY <1>8, <4>1
            <4>3. j - h + 1 = j - Len(net[fd])
                BY <1>8, <3>3, <4>1
            <4> QED BY <4>2, <4>3
        <3> QED
            BY <3>4, <3>5
    <2>5. HeaderNext(fd)'
        BY <1>1, <1>9, <2>2, <2>4 DEF HeaderNext
    <2>6. BodyUnderWay(fd)' /\ BetweenCommands(fd)' /\ ReplyDue(fd)'
        BY <1>1, <2>1, <2>2 DEF InStep, BodyUnderWay, BetweenCommands, ReplyDue
    <2> QED BY <2>5, <2>6 DEF InStep
<1>15. StoreSources' /\ StoredWhole'
    BY <1>1, <1>7, StoreKept
<1>16. RepliesSuit'
    <2>1. ASSUME NEW m \in 1..Len(sent), sent'[m].reply # NoAnswer, sent'[m].fd \notin torn
          PROVE  Suits(sent[m].req, sent[m].reply)'
        <3>1. Suits(sent[m].req, sent[m].reply) /\ sent'[m] = sent[m]
            BY <1>6, <2>1 DEF ServerInv, RepliesSuit
        <3>2. \A i \in 1..Len(sent) : i \in 1..Len(sent') /\ sent'[i] = sent[i]
            BY <1>6
        <3> QED
            BY <1>1, <3>1, <3>2 DEF Suits, Fits, ValueFits
    <2>2. \A m \in 1..Len(sent') : m \in 1..Len(sent) \/ sent'[m].reply = NoAnswer
        BY <1>4, <1>6
    <2> QED
        BY <1>1, <2>1, <2>2 DEF RepliesSuit, NoAnswer
<1> QED
    BY <1>1, <1>7, <1>10, <1>13, <1>14, <1>15, <1>16, OneDescriptor

-----------------------------------------------------------------------------
(* What is stored.                                                         *)

LEMMA EmptiedKey ==
    ASSUME ServerInv, NEW k \in Keys, store' = [store EXCEPT ![k] = << >>], sent' = sent, torn \subseteq torn'
    PROVE  store' \in [Keys -> Seq(Byte)] /\ StoreSources' /\ StoredWhole'
<1>1. store \in [Keys -> Seq(Byte)] /\ << >> \in Seq(Byte)
    BY EmptySeq DEF ServerInv, ServerTypeOK
<1>2. store' \in [Keys -> Seq(Byte)] /\ \A j \in Keys : store'[j] = << >> \/ store'[j] = store[j]
    BY <1>1
<1>3. \A m : WholeValue(m)' = WholeValue(m)
    BY DEF WholeValue
<1>4. StoreSources'
    <2>1. \A n, fd : SentOn(n, fd) => SentOn(n, fd)'
        BY DEF SentOn
    <2> QED
        BY <1>2, <2>1 DEF ServerInv, StoreSources
<1>5. StoredWhole'
    BY <1>2, <1>3 DEF ServerInv, StoredWhole
<1> QED
    BY <1>2, <1>4, <1>5

LEMMA FilledKey ==
    ASSUME ServerInv, NEW k \in Keys, NEW v \in Seq(Byte), NEW n \in 1..Len(sent), v # << >>, v[1][1] = n,
           NEW fd \in Fds, \A i \in 1..Len(v) : SentOn(v[i][1], fd),
           sent[n].fd \notin torn' => sent[n].req.op = "set" /\ sent[n].req.key = k /\ v = WholeValue(n),
           store' = [store EXCEPT ![k] = v], sent' = sent, torn \subseteq torn'
    PROVE  store' \in [Keys -> Seq(Byte)] /\ StoreSources' /\ StoredWhole'
<1>1. store \in [Keys -> Seq(Byte)]
    BY DEF ServerInv, ServerTypeOK
<1>2. \A j \in Keys : store'[j] = IF j = k THEN v ELSE store[j]
    BY <1>1
<1>3. WholeValue(n)' = WholeValue(n) /\ \A m : WholeValue(m)' = WholeValue(m)
    BY DEF WholeValue
<1>4. StoreSources'
    <2>1. \A m, f : SentOn(m, f) => SentOn(m, f)'
        BY DEF SentOn
    <2>2. ASSUME NEW j \in Keys, store'[j] # << >>
          PROVE  \E f \in Fds : \A i \in 1..Len(store'[j]) : SentOn(store[j][i][1], f)'
        <3>1. CASE j = k
            BY <1>2, <2>1, <3>1
        <3>2. CASE j # k
            BY <1>2, <2>1, <3>2 DEF ServerInv, StoreSources
        <3> QED BY <3>1, <3>2
    <2> QED
        BY <2>2 DEF StoreSources
<1>5. StoredWhole'
    <2>1. ASSUME NEW j \in Keys, store'[j] # << >>, sent[store'[j][1][1]].fd \notin torn'
          PROVE  /\ sent[store'[j][1][1]].req.op = "set" /\ sent[store'[j][1][1]].req.key = j
                 /\ store'[j] = WholeValue(store'[j][1][1])
        <3>1. CASE j = k
            BY <1>2, <2>1, <3>1
        <3>2. CASE j # k
            BY <1>2, <2>1, <3>2 DEF ServerInv, StoredWhole
        <3> QED BY <3>1, <3>2
    <2> QED
        BY <1>3, <2>1 DEF StoredWhole
<1> QED
    BY <1>1, <1>4, <1>5

\* The flag and the expiry come before the body.
LEMMA Stamped ==
    ASSUME NEW n \in Nat, NEW s \in Seq(Byte)
    PROVE  /\ <<Stamp(n)>> \o s \in Seq(Byte)
           /\ Len(<<Stamp(n)>> \o s) = Len(s) + 1 /\ Len(s) \in Nat
           /\ <<Stamp(n)>> \o s # << >>
           /\ (<<Stamp(n)>> \o s)[1] = <<n, 0>>
           /\ \A i \in 2..(Len(s) + 1) : (<<Stamp(n)>> \o s)[i] = s[i - 1]
<1>1. Stamp(n) \in Byte /\ Stamp(n) = <<n, 0>>
    BY DEF Stamp, Byte
<1>2. <<Stamp(n)>> \in Seq(Byte) /\ Len(<<Stamp(n)>>) = 1 /\ <<Stamp(n)>>[1] = Stamp(n)
    BY <1>1
<1>3. Len(s) \in Nat
    BY LenProperties
<1>4. /\ <<Stamp(n)>> \o s \in Seq(Byte)
      /\ Len(<<Stamp(n)>> \o s) = 1 + Len(s)
      /\ \A i \in 1..(1 + Len(s)) : (<<Stamp(n)>> \o s)[i] = IF i <= 1 THEN <<Stamp(n)>>[i] ELSE s[i - 1]
    BY <1>2, ConcatProperties
<1>5. (<<Stamp(n)>> \o s)[1] = <<n, 0>>
    BY <1>1, <1>2, <1>3, <1>4
<1>6. \A i \in 2..(Len(s) + 1) : (<<Stamp(n)>> \o s)[i] = s[i - 1]
    BY <1>3, <1>4
<1>7. <<Stamp(n)>> \o s # << >>
    BY <1>3, <1>4, EmptySeq
<1> QED
    BY <1>3, <1>4, <1>5, <1>6, <1>7

\* Part of what was received.
LEMMA Part ==
    ASSUME NEW s \in Seq(Byte), NEW a \in Nat, NEW b \in Nat, a <= b, b <= Len(s)
    PROVE  /\ SubSeq(s, a + 1, b) \in Seq(Byte) /\ Len(SubSeq(s, a + 1, b)) = b - a
           /\ \A i \in 1..(b - a) : SubSeq(s, a + 1, b)[i] = s[a + i]
<1>1. Len(s) \in Nat /\ \A i \in 1..Len(s) : s[i] \in Byte
    BY LenProperties, ElementOfSeq
<1>2. \A i \in (a + 1)..b : s[i] \in Byte
    BY <1>1
<1>3. /\ SubSeq(s, a + 1, b) \in Seq(Byte)
      /\ Len(SubSeq(s, a + 1, b)) = IF a + 1 <= b THEN b - (a + 1) + 1 ELSE 0
      /\ \A i \in 1..(b - (a + 1) + 1) : SubSeq(s, a + 1, b)[i] = s[a + 1 + i - 1]
    BY <1>2, SubSeqProperties
<1>4. b - (a + 1) + 1 = b - a /\ (a + 1 <= b \/ b - a = 0)
    OBVIOUS
<1>5. \A i \in 1..(b - a) : a + 1 + i - 1 = a + i
    OBVIOUS
<1> QED
    BY <1>3, <1>4, <1>5

\* The value of a set is known by its bytes.
LEMMA WholeKnown ==
    ASSUME ServerInv, NEW n \in 1..Len(sent), NEW v \in Seq(Byte), Len(v) = sent[n].req.total + 1,
           \A i \in 1..Len(v) : v[i] = <<n, IF i = 1 THEN 0 ELSE sent[n].req.head + i - 1>>
    PROVE  v = WholeValue(n)
<1>1. sent[n].req \in Requests /\ n \in Nat
    <2>1. sent \in Seq([req : Requests, fd : Fds, reply : Replies])
        BY DEF ServerInv, ServerTypeOK
    <2>2. sent[n] \in [req : Requests, fd : Fds, reply : Replies]
        BY <2>1, ElementOfSeq
    <2> QED BY <2>2
<1>2. sent[n].req.total \in Nat /\ sent[n].req.head \in Nat
    BY <1>1, BytesOf
<1>3. v \in [1..(sent[n].req.total + 1) -> Byte]
    BY LenProperties
<1>4. \A i \in 1..(sent[n].req.total + 1) : v[i] = <<n, IF i = 1 THEN 0 ELSE sent[n].req.head + i - 1>>
    OBVIOUS
<1> QED
    BY <1>3, <1>4 DEF WholeValue

-----------------------------------------------------------------------------
(* Input.                                                                  *)

Takes(fd, n) ==
    /\ n \in Counts(fd)
    /\ net' = [net EXCEPT ![fd] = SubSeq(@, n + 1, Len(@))]
    /\ UNCHANGED <<conn, sent, waits>>
    /\ torn \subseteq torn' /\ torn' \subseteq Fds

LEMMA Received ==
    ASSUME ServerInv, NEW fd \in Fds, NEW n, Takes(fd, n)
    PROVE  /\ n \in Nat /\ n >= 1 /\ n <= Len(net[fd]) /\ Len(net[fd]) \in Nat
           /\ SubSeq(net[fd], 1, n) \in Seq(Byte) /\ Len(SubSeq(net[fd], 1, n)) = n
           /\ \A i \in 1..n : SubSeq(net[fd], 1, n)[i] = net[fd][i]
           /\ net' \in [Fds -> Seq(Byte)] /\ \A v \in Fds \ {fd} : net'[v] = net[v]
           /\ Len(net'[fd]) = Len(net[fd]) - n
           /\ \A i \in 1..(Len(net[fd]) - n) : net'[fd][i] = net[fd][n + i]
           /\ slot[fd].need # 0 => n <= slot[fd].need - Len(slot[fd].buf)
<1>1. /\ net \in [Fds -> Seq(Byte)] /\ net[fd] \in Seq(Byte) /\ Len(net[fd]) \in Nat
      /\ slot[fd].need \in Nat /\ Len(slot[fd].buf) \in Nat /\ BufSize \in Nat
    BY ServerTypes, RequestsAssumption DEF ServerInv, ServerTypeOK
<1>2. n \in 1..Min({Limit(fd), Len(net[fd])})
    BY DEF Takes, Counts
<1>3. /\ Limit(fd) \in Int
      /\ slot[fd].need # 0 => Limit(fd) <= slot[fd].need - Len(slot[fd].buf)
    <2>1. CASE slot[fd].need = 0
        BY <1>1, <2>1 DEF Limit
    <2>2. CASE slot[fd].need # 0
        <3>0. slot[fd].need - Len(slot[fd].buf) \in Int /\ BufSize \in Int
            BY <1>1
        <3>d. PICK d \in Int : d = slot[fd].need - Len(slot[fd].buf)
            BY <3>0, Zenon
        <3>b. PICK b \in Int : b = BufSize
            BY <3>0, Zenon
        <3>1. d = slot[fd].need - Len(slot[fd].buf) /\ b = BufSize
            BY <3>d, <3>b
        <3>2. Limit(fd) = Min({b, d})
            BY <2>2, <3>1 DEF Limit
        <3>3. Min({b, d}) \in {b, d} /\ Min({b, d}) <= d
            BY MinOfTwo
        <3> QED BY <1>1, <2>2, <3>1, <3>2, <3>3
    <2> QED BY <2>1, <2>2
<1>4. /\ Min({Limit(fd), Len(net[fd])}) \in Int
      /\ Min({Limit(fd), Len(net[fd])}) <= Limit(fd)
      /\ Min({Limit(fd), Len(net[fd])}) <= Len(net[fd])
    <2>1. PICK a \in Int, b \in Int : a = Limit(fd) /\ b = Len(net[fd])
        BY <1>1, <1>3
    <2>2. Min({a, b}) \in {a, b} /\ Min({a, b}) <= a /\ Min({a, b}) <= b
        BY MinOfTwo
    <2> QED BY <2>1, <2>2
<1>5. n \in Nat /\ n >= 1 /\ n <= Len(net[fd]) /\ n <= Limit(fd)
    BY <1>1, <1>2, <1>3, <1>4
<1>6. n \in 1..Len(net[fd])
    BY <1>1, <1>5
<1>7. /\ SubSeq(net[fd], 1, n) \in Seq(Byte) /\ Len(SubSeq(net[fd], 1, n)) = n
      /\ \A i \in 1..n : SubSeq(net[fd], 1, n)[i] = net[fd][i]
      /\ SubSeq(net[fd], n + 1, Len(net[fd])) \in Seq(Byte)
      /\ Len(SubSeq(net[fd], n + 1, Len(net[fd]))) = Len(net[fd]) - n
      /\ \A i \in 1..(Len(net[fd]) - n) : SubSeq(net[fd], n + 1, Len(net[fd]))[i] = net[fd][n + i]
    BY <1>1, <1>6, Split
<1>8. net'[fd] = SubSeq(net[fd], n + 1, Len(net[fd])) /\ \A v \in Fds \ {fd} : net'[v] = net[v]
    BY <1>1 DEF Takes
<1>9. net' \in [Fds -> Seq(Byte)]
    BY <1>1, <1>7 DEF Takes
<1>10. slot[fd].need # 0 => n <= slot[fd].need - Len(slot[fd].buf)
    BY <1>1, <1>3, <1>5
<1> QED
    BY <1>1, <1>5, <1>7, <1>8, <1>9, <1>10

\* The sources of what is still on its way.
LEMMA RestSources ==
    ASSUME ServerInv, NEW fd \in Fds, NEW n, Takes(fd, n)
    PROVE  /\ waits'[fd] # 0 => SentOn(waits[fd], fd)'
           /\ \A i \in 1..Len(net'[fd]) : SentOn(net[fd][i][1], fd)'
           /\ \A m : SentOn(m, fd) <=> SentOn(m, fd)'
<1>1. Sources(fd) /\ UNCHANGED <<sent, waits>>
    BY DEF ServerInv, Takes
<1>2. ASSUME NEW i \in 1..Len(net'[fd]) PROVE SentOn(net'[fd][i][1], fd)
    <2>1. i \in 1..(Len(net[fd]) - n) /\ n + i \in 1..Len(net[fd])
        BY Received
    <2>2. net'[fd][i] = net[fd][n + i]
        BY <2>1, Received
    <2> QED BY <1>1, <2>1, <2>2 DEF Sources
<1> QED
    BY <1>1, <1>2 DEF Sources, SentOn

SlotType == [need : Nat, buf : Seq(Byte), key : Keys \cup {"none"}, reply : Replies]

\* What is left to show of an input.
LEMMA InputFrame ==
    ASSUME ServerInv, NEW fd \in Fds \ High, NEW n, Takes(fd, n), conn[fd] # "free",
           NEW s \in SlotType, slot' = [slot EXCEPT ![fd] = s],
           watch' = watch \/ watch' = [watch EXCEPT ![fd] = "out"],
           store' \in [Keys -> Seq(Byte)], StoreSources', StoredWhole',
           s.need # 0 => s.buf # << >> /\ s.need >= 3 /\ s.key \in Keys,
           \A i \in 1..Len(s.buf) : SentOn(s.buf[i][1], fd),
           fd \notin torn' => InStep(fd)'
    PROVE  ServerInv'
<1>1. /\ UNCHANGED <<conn, sent, waits>> /\ torn \subseteq torn' /\ torn' \subseteq Fds
      /\ net' \in [Fds -> Seq(Byte)] /\ \A v \in Fds \ {fd} : net'[v] = net[v]
    BY Received DEF Takes
<1>2. slot'[fd] = s /\ slot' \in [Fds -> SlotType] /\ \A v \in Fds \ {fd} : slot'[v] = slot[v]
    BY DEF ServerInv, ServerTypeOK, SlotType
<1>3. watch' \in [Fds -> {"in", "out"}] /\ \A v \in Fds \ {fd} : watch'[v] = watch[v]
    BY DEF ServerInv, ServerTypeOK
<1>4. ServerTypeOK' /\ \A v \in Fds \ {fd} : Untouched(v)
    BY <1>1, <1>2, <1>3 DEF ServerInv, ServerTypeOK, Untouched, SlotType
<1>5. Sources(fd)'
    <2>1. /\ waits'[fd] # 0 => SentOn(waits[fd], fd)'
          /\ \A i \in 1..Len(net'[fd]) : SentOn(net[fd][i][1], fd)'
        BY RestSources
    <2>2. \A i \in 1..Len(s.buf) : SentOn(slot[fd].buf[i][1], fd)'
        BY <1>1, <1>2 DEF SentOn
    <2> QED
        BY <1>1, <1>2, <2>1, <2>2 DEF Sources
<1>6. RepliesSuit' /\ SentKept
    BY <1>1, RepliesKept
<1> QED
    BY <1>1, <1>4, <1>5, <1>6, OneDescriptor

\* What does not begin like a command is dropped.
LEMMA DroppedInv ==
    ASSUME ServerInv, NEW fd \in Fds \ High, NEW n, Takes(fd, n), conn[fd] # "free",
           watch[fd] = "in", slot[fd].need = 0, Dropped(fd)
    PROVE  ServerInv'
<1>1. /\ UNCHANGED <<conn, sent, waits, watch, store>> /\ slot' = [slot EXCEPT ![fd] = slot[fd]]
      /\ torn \subseteq torn'
    BY DEF Takes, Dropped, NoReply
<1>2. slot[fd] \in SlotType /\ slot'[fd] = slot[fd]
    BY <1>1 DEF ServerInv, ServerTypeOK, SlotType
<1>3. store' \in [Keys -> Seq(Byte)] /\ StoreSources' /\ StoredWhole'
    BY <1>1, RepliesKept, StoreKept DEF ServerInv, ServerTypeOK
<1>4. ASSUME fd \notin torn' PROVE InStep(fd)'
    <2>1. InStep(fd)
        BY <1>1, <1>4 DEF ServerInv
    <2>2. ASSUME NEW h \in 1..Len(net'[fd]), net'[fd][h][2] = 1
          PROVE  /\ conn[fd] = "open" => net'[fd][h][1] = waits[fd]
                 /\ \A j \in h..Len(net'[fd]) : net'[fd][j] = <<net'[fd][h][1], j - h + 1>>
        <3>1. /\ n \in Nat /\ Len(net[fd]) \in Nat /\ Len(net'[fd]) = Len(net[fd]) - n
              /\ \A i \in 1..(Len(net[fd]) - n) : net'[fd][i] = net[fd][n + i]
            BY Received
        <3>2. h \in Nat /\ n + h \in 1..Len(net[fd]) /\ net'[fd][h] = net[fd][n + h]
            BY <3>1
        <3>3. /\ conn[fd] = "open" => net[fd][n + h][1] = waits[fd]
              /\ \A j \in (n + h)..Len(net[fd]) : net[fd][j] = <<net[fd][n + h][1], j - (n + h) + 1>>
            BY <2>1, <2>2, <3>2 DEF InStep, HeaderNext
        <3>4. ASSUME NEW j \in h..Len(net'[fd]) PROVE net'[fd][j] = <<net'[fd][h][1], j - h + 1>>
            <4>1. j \in 1..(Len(net[fd]) - n) /\ n + j \in (n + h)..Len(net[fd])
                BY <3>1, <3>2
            <4>2. net'[fd][j] = <<net[fd][n + h][1], (n + j) - (n + h) + 1>>
                BY <3>1, <3>3, <4>1
            <4>3. (n + j) - (n + h) + 1 = j - h + 1
                BY <3>1, <3>2, <4>1
            <4> QED BY <3>2, <4>2, <4>3
        <3> QED BY <3>2, <3>3, <3>4
    <2>3. HeaderNext(fd)'
        BY <1>1, <1>2, <2>2 DEF HeaderNext
    <2>4. BodyUnderWay(fd)' /\ BetweenCommands(fd)' /\ ReplyDue(fd)'
        BY <1>1, <1>2, <2>1 DEF InStep, BodyUnderWay, BetweenCommands, ReplyDue
    <2> QED BY <2>3, <2>4 DEF InStep
<1>5. slot[fd].need # 0 => slot[fd].buf # << >> /\ slot[fd].need >= 3 /\ slot[fd].key \in Keys
    OBVIOUS
<1>6. \A i \in 1..Len(slot[fd].buf) : SentOn(slot[fd].buf[i][1], fd)
    BY DEF ServerInv, Sources
<1> QED
    BY <1>1, <1>2, <1>3, <1>4, <1>5, <1>6, InputFrame

\* A header that is in front is that of the command its client waits for.
\* On a descriptor that is not torn nothing else is carried out.
ServesAs(fd, n, m, r) ==
    /\ Takes(fd, n) /\ conn[fd] # "free" /\ watch[fd] = "in" /\ slot[fd].need = 0
    /\ m = net[fd][1][1]
    /\ r \in Requests /\ r.head <= n
    /\ fd \notin torn' => AtHeader(net[fd]) /\ r = sent[m].req

LEMMA InFront ==
    ASSUME ServerInv, NEW fd \in Fds \ High, NEW n, NEW m, NEW r, ServesAs(fd, n, m, r)
    PROVE  /\ SentOn(m, fd) /\ m \in 1..Len(sent) /\ m \in Nat /\ m # 0
           /\ sent[m].fd = fd
           /\ r.head \in Nat /\ r.head >= 1 /\ r.total \in Nat
           /\ r.op \in Ops /\ r.key \in Keys
           /\ fd \notin torn' => /\ r = sent[m].req
                                 /\ conn[fd] = "open" => waits[fd] = m
                                 /\ \A j \in 1..Len(net[fd]) : net[fd][j] = <<m, j>>
<1>0. /\ Takes(fd, n) /\ conn[fd] # "free" /\ slot[fd].need = 0 /\ m = net[fd][1][1]
      /\ r \in Requests /\ torn \subseteq torn'
      /\ fd \notin torn' => AtHeader(net[fd]) /\ r = sent[m].req
    BY DEF ServesAs, Takes
<1>1. n \in Nat /\ n >= 1 /\ n <= Len(net[fd]) /\ Len(net[fd]) \in Nat
    BY <1>0, Received
<1>2. SentOn(m, fd)
    BY <1>0, <1>1 DEF ServerInv, Sources
<1>3. m \in 1..Len(sent) /\ Len(sent) \in Nat
    BY <1>2, ServerTypes DEF SentOn
<1>4. ASSUME fd \notin torn'
      PROVE  /\ r = sent[m].req
             /\ conn[fd] = "open" => waits[fd] = m
             /\ \A j \in 1..Len(net[fd]) : net[fd][j] = <<m, j>>
    <2>1. HeaderNext(fd) /\ 1 \in 1..Len(net[fd]) /\ net[fd][1][2] = 1
        BY <1>0, <1>1, <1>4 DEF ServerInv, InStep, AtHeader
    <2>2. \A j \in 1..Len(net[fd]) : net[fd][j] = <<m, j - 1 + 1>>
        BY <1>0, <2>1 DEF HeaderNext
    <2>3. \A j \in 1..Len(net[fd]) : j - 1 + 1 = j
        OBVIOUS
    <2> QED BY <1>0, <1>4, <2>1, <2>2, <2>3 DEF HeaderNext
<1>6. /\ r.head \in 1..BufSize /\ r.total \in Nat
      /\ r.op \in Ops /\ r.key \in Keys
    BY <1>0, RequestsAssumption
<1>7. r.head \in Nat /\ r.head >= 1
    <2>1. BufSize \in Nat
        BY RequestsAssumption
    <2> QED BY ONLY <1>6, <2>1
<1>8. sent[m].fd = fd
    BY <1>2 DEF SentOn
<1>9. m \in Nat /\ m # 0
    BY <1>3
<1> QED
    BY <1>2, <1>3, <1>4, <1>6, <1>7, <1>8, <1>9, Zenon

\* A command that is answered at once.
LEMMA AnsweredInv ==
    ASSUME ServerInv, NEW fd \in Fds \ High, NEW n, NEW m, NEW r, ServesAs(fd, n, m, r),
           NEW a \in Replies, Reply(fd, slot[fd], a),
           Suits(r, a),
           store' \in [Keys -> Seq(Byte)], StoreSources', StoredWhole'
    PROVE  ServerInv'
<1> DEFINE s == [slot[fd] EXCEPT !.reply = a]
<1>0. Takes(fd, n) /\ conn[fd] # "free" /\ slot[fd].need = 0
    BY DEF ServesAs
<1>1. /\ UNCHANGED <<conn, sent, waits>> /\ watch' = [watch EXCEPT ![fd] = "out"]
      /\ slot' = [slot EXCEPT ![fd] = s] /\ torn \subseteq torn'
    BY <1>0 DEF Takes, Reply
<1>2. /\ s \in SlotType /\ s.need = 0 /\ s.buf = slot[fd].buf /\ s.key = slot[fd].key /\ s.reply = a
    BY <1>0 DEF ServerInv, ServerTypeOK, SlotType
<1> HIDE DEF s
<1>3. slot'[fd] = s /\ watch'[fd] = "out"
    BY <1>1 DEF ServerInv, ServerTypeOK
<1>4. ASSUME fd \notin torn' PROVE InStep(fd)'
    <2>1. InStep(fd) /\ Suits(sent[m].req, a)
        <3>1. r = sent[m].req
            BY <1>4, InFront
        <3> QED BY <1>1, <1>4, <3>1 DEF ServerInv
    <2>2. /\ \A j \in 1..Len(net[fd]) : net[fd][j] = <<m, j>>
          /\ conn[fd] = "open" => waits[fd] = m
          /\ m # 0
        BY <1>4, InFront
    <2>3. HeaderNext(fd)'
        <3>1. ASSUME NEW h \in 1..Len(net'[fd]) PROVE net'[fd][h][2] # 1
            <4>1. /\ n \in Nat /\ n >= 1 /\ Len(net[fd]) \in Nat /\ Len(net'[fd]) = Len(net[fd]) - n
                  /\ \A i \in 1..(Len(net[fd]) - n) : net'[fd][i] = net[fd][n + i]
                BY <1>0, Received
            <4>2. h \in Nat /\ h >= 1 /\ n + h \in 1..Len(net[fd]) /\ net'[fd][h] = net[fd][n + h]
                BY <4>1
            <4>3. net'[fd][h] = <<m, n + h>>
                BY <2>2, <4>2
            <4> QED BY <4>1, <4>2, <4>3
        <3> QED BY <3>1 DEF HeaderNext
    <2>4. BodyUnderWay(fd)' /\ BetweenCommands(fd)'
        BY <1>0, <1>1, <1>2, <1>3, <2>1 DEF InStep, BodyUnderWay, BetweenCommands
    <2>5. Suits(sent[m].req, a)'
        BY <1>1, <2>1 DEF Suits, Fits, ValueFits
    <2>6. ReplyDue(fd)'
        <3>1. CASE conn[fd] = "open"
            <4>1. waits'[fd] = m /\ slot'[fd].reply = a
                BY <1>1, <1>2, <1>3, <2>2, <3>1
            <4>2. Suits(sent[waits[fd]].req, slot[fd].reply)'
                BY <1>1, <2>5, <4>1 DEF Suits, Fits, ValueFits
            <4> QED BY <2>2, <4>1, <4>2 DEF ReplyDue
        <3>2. CASE conn[fd] # "open"
            BY <1>1, <3>2 DEF ReplyDue
        <3> QED BY <3>1, <3>2
    <2> QED BY <2>3, <2>4, <2>6 DEF InStep
<1>5. \A i \in 1..Len(s.buf) : SentOn(s.buf[i][1], fd)
    BY <1>2 DEF ServerInv, Sources
<1> QED
    BY <1>0, <1>1, <1>2, <1>4, <1>5, InputFrame

\* The replies a command may get.
LEMMA PlainReply ==
    ASSUME NEW r, NEW a \in {<<"END">>, <<"DELETED">>, <<"NOT_FOUND">>, <<"STORED">>, <<"ERROR">>}, Fits(r, a)
    PROVE  a \in Replies /\ Suits(r, a)
<1>1. a[1] # "VALUE"
    OBVIOUS
<1> QED
    BY <1>1 DEF Replies, Suits, ValueFits

\* get, which removes a value it finds expired.
LEMMA ServeGetInv ==
    ASSUME ServerInv, NEW fd \in Fds \ High, NEW n, NEW m, NEW r, ServesAs(fd, n, m, r),
           r.op = "get", ServeGet(fd, r)
    PROVE  ServerInv'
<1>1. sent' = sent /\ torn \subseteq torn'
    BY DEF ServesAs, Takes
<1>3. r.op = "get" /\ r.key \in Keys
    BY InFront
<1>4. Fits(r, <<"END">>)
    BY <1>3 DEF Fits
<1>5. <<"END">> \in Replies /\ Suits(r, <<"END">>)
    BY <1>4, PlainReply
<1>6. CASE store' = [store EXCEPT ![r.key] = << >>] /\ Reply(fd, slot[fd], <<"END">>)
    <2>1. store' \in [Keys -> Seq(Byte)] /\ StoreSources' /\ StoredWhole'
        BY <1>1, <1>3, <1>6, EmptiedKey
    <2> QED
        BY <1>5, <1>6, <2>1, AnsweredInv
<1>7. ASSUME NEW a \in Replies, Suits(r, a), Reply(fd, slot[fd], a), store' = store
      PROVE  ServerInv'
    <2>1. store' \in [Keys -> Seq(Byte)] /\ StoreSources' /\ StoredWhole'
        BY <1>1, <1>7, RepliesKept, StoreKept DEF ServerInv, ServerTypeOK
    <2> QED
        BY <1>7, <2>1, AnsweredInv
<1>8. CASE store[r.key] = << >> /\ Reply(fd, slot[fd], <<"END">>) /\ store' = store
    BY <1>5, <1>7, <1>8
<1>9. CASE store[r.key] # << >> /\ Reply(fd, slot[fd], <<"VALUE", store[r.key]>>) /\ store' = store
    <2>1. PICK v \in Seq(Byte) : v = store[r.key]
        BY <1>3 DEF ServerInv, ServerTypeOK
    <2>2. v # << >> /\ v[1][1] \in 1..Len(sent)
        BY <1>3, <1>9, <2>1, StoredSent
    <2>3. sent[v[1][1]].fd \in torn \/ sent[v[1][1]].req.key = r.key
        BY <1>3, <1>9, <2>1 DEF ServerInv, StoredWhole
    <2>4. PICK a : a = <<"VALUE", v>>
        OBVIOUS
    <2>5. a \in Replies /\ a[1] = "VALUE" /\ a[2] = v
        BY <2>1, <2>4 DEF Replies
    <2>6. Suits(r, a)
        BY <1>3, <2>2, <2>3, <2>5 DEF Suits, Fits, ValueFits
    <2> QED
        BY <1>7, <1>9, <2>1, <2>4, <2>5, <2>6
<1> QED
    BY <1>6, <1>8, <1>9 DEF ServeGet

LEMMA ServeDeleteInv ==
    ASSUME ServerInv, NEW fd \in Fds \ High, NEW n, NEW m, NEW r, ServesAs(fd, n, m, r),
           r.op = "delete", ServeDelete(fd, r)
    PROVE  ServerInv'
<1>1. sent' = sent /\ torn \subseteq torn'
    BY DEF ServesAs, Takes
<1>3. r.op = "delete" /\ r.key \in Keys
    BY InFront
<1>4. PICK a \in {<<"DELETED">>, <<"NOT_FOUND">>} : Reply(fd, slot[fd], a)
    BY DEF ServeDelete
<1>5. Fits(r, a)
    BY <1>3 DEF Fits
<1>6. a \in Replies /\ Suits(r, a)
    BY <1>5, PlainReply
<1>7. store' \in [Keys -> Seq(Byte)] /\ StoreSources' /\ StoredWhole'
    BY <1>1, <1>3, EmptiedKey DEF ServeDelete
<1> QED
    BY <1>4, <1>6, <1>7, AnsweredInv

\* What a set brings with its header: its stamp and the beginning of its body.
Brought(m, s, head, c) == <<Stamp(m)>> \o SubSeq(SubSeq(s, head + 1, Len(s)), 1, c)

IsPiece(v, m, s, head, c) ==
    /\ v = Brought(m, s, head, c) /\ Len(v) = c + 1 /\ v # << >> /\ v[1] = <<m, 0>>
    /\ \A i \in 2..(c + 1) : head + i - 1 \in 1..Len(s) /\ v[i] = s[head + i - 1]

LEMMA FirstPiece ==
    ASSUME NEW s \in Seq(Byte), NEW head \in Nat, NEW c \in Nat, c + head <= Len(s), NEW m \in Nat
    PROVE  \E v \in Seq(Byte) : IsPiece(v, m, s, head, c)
<1> DEFINE body == SubSeq(s, head + 1, Len(s))
           piece == SubSeq(body, 1, c)
<1>1. Len(s) \in Nat /\ head <= Len(s)
    BY LenProperties
<1>2. /\ body \in Seq(Byte) /\ Len(body) = Len(s) - head
      /\ \A i \in 1..(Len(s) - head) : body[i] = s[head + i]
    BY <1>1, Part
<1> HIDE DEF body
<1>3. /\ piece \in Seq(Byte) /\ Len(piece) = c /\ \A i \in 1..c : piece[i] = body[i]
    <2>1. c <= Len(body)
        BY <1>1, <1>2
    <2>2. /\ SubSeq(body, 0 + 1, c) \in Seq(Byte) /\ Len(SubSeq(body, 0 + 1, c)) = c - 0
          /\ \A i \in 1..(c - 0) : SubSeq(body, 0 + 1, c)[i] = body[0 + i]
        BY <1>2, <2>1, Part
    <2> QED BY <1>1, <1>2, <2>2
<1>4. PICK v : v = <<Stamp(m)>> \o piece /\ v = Brought(m, s, head, c)
    BY DEF body, Brought
<1> HIDE DEF piece
<1>5. /\ v \in Seq(Byte) /\ Len(v) = c + 1 /\ v # << >> /\ v[1] = <<m, 0>>
      /\ \A i \in 2..(c + 1) : v[i] = piece[i - 1]
    <2>1. PICK p \in Seq(Byte) : p = piece
        BY <1>3
    <2>2. /\ <<Stamp(m)>> \o p \in Seq(Byte)
          /\ Len(<<Stamp(m)>> \o p) = Len(p) + 1 /\ <<Stamp(m)>> \o p # << >>
          /\ (<<Stamp(m)>> \o p)[1] = <<m, 0>>
          /\ \A i \in 2..(Len(p) + 1) : (<<Stamp(m)>> \o p)[i] = p[i - 1]
        BY Stamped
    <2> QED BY <1>3, <1>4, <2>1, <2>2
<1>6. ASSUME NEW i \in 2..(c + 1)
      PROVE  head + i - 1 \in 1..Len(s) /\ v[i] = s[head + i - 1]
    <2>1. i \in Nat /\ i - 1 \in 1..c /\ i - 1 \in 1..(Len(s) - head)
        BY <1>1
    <2>2. v[i] = s[head + (i - 1)]
        BY <1>2, <1>3, <1>5, <2>1
    <2>3. head + (i - 1) = head + i - 1 /\ head + i - 1 \in 1..Len(s)
        BY <1>1, <2>1
    <2> QED BY <2>2, <2>3
<1> QED
    BY <1>4, <1>5, <1>6 DEF IsPiece

\* A set is refused, stored at once, or its body is begun.
LEMMA ServeSetInv ==
    ASSUME ServerInv, NEW fd \in Fds \ High, NEW n, NEW m, NEW r, ServesAs(fd, n, m, r),
           r.op = "set", ServeSet(fd, r, m, SubSeq(net[fd], 1, n))
    PROVE  ServerInv'
<1>0. /\ Takes(fd, n) /\ conn[fd] # "free" /\ watch[fd] = "in" /\ slot[fd].need = 0
      /\ r \in Requests /\ r.head <= n
    BY DEF ServesAs
<1>1. UNCHANGED <<conn, sent, waits>> /\ torn \subseteq torn'
    BY <1>0 DEF Takes
<1>2. PICK bytes \in Seq(Byte) : /\ bytes = SubSeq(net[fd], 1, n) /\ Len(bytes) = n
                                  /\ \A i \in 1..n : bytes[i] = net[fd][i]
    <2>1. /\ SubSeq(net[fd], 1, n) \in Seq(Byte) /\ Len(SubSeq(net[fd], 1, n)) = n
          /\ \A i \in 1..n : SubSeq(net[fd], 1, n)[i] = net[fd][i]
        BY <1>0, Received
    <2> QED BY ONLY <2>1
<1>3. /\ n \in Nat /\ n >= 1 /\ Len(bytes) = n /\ n <= Len(net[fd])
      /\ Len(net[fd]) \in Nat /\ Len(net'[fd]) = Len(net[fd]) - n
      /\ \A i \in 1..n : bytes[i] = net[fd][i]
      /\ \A i \in 1..(Len(net[fd]) - n) : net'[fd][i] = net[fd][n + i]
    <2>1. /\ n \in Nat /\ n >= 1 /\ n <= Len(net[fd])
          /\ Len(net[fd]) \in Nat /\ Len(net'[fd]) = Len(net[fd]) - n
          /\ \A i \in 1..(Len(net[fd]) - n) : net'[fd][i] = net[fd][n + i]
        BY <1>0, Received
    <2> QED BY <1>2, <2>1
<1>5. PICK head \in Nat, total \in Nat : head = r.head /\ total = r.total /\ head >= 1 /\ head <= n
    BY <1>0, InFront
<1>6. r.op = "set" /\ r.key \in Keys /\ m \in Nat /\ m # 0 /\ SentOn(m, fd) /\ m \in 1..Len(sent) /\ sent[m].fd = fd
    BY InFront
<1>7. fd \notin torn' => /\ r = sent[m].req
                         /\ conn[fd] = "open" => waits[fd] = m
                         /\ \A j \in 1..Len(net[fd]) : net[fd][j] = <<m, j>>
    BY InFront
\* A piece of what has come was sent on this descriptor.
<1>11. ASSUME NEW v \in Seq(Byte), NEW c \in Nat, IsPiece(v, m, bytes, head, c)
      PROVE  \A i \in 1..Len(v) : SentOn(v[i][1], fd)
    <2>1. ASSUME NEW i \in 1..Len(v) PROVE SentOn(v[i][1], fd)
        <3>1. CASE i = 1
            BY <1>6, <1>11, <3>1 DEF IsPiece
        <3>2. CASE i # 1
            <4>1. i \in 2..(c + 1)
                BY <1>11, <2>1, <3>2 DEF IsPiece
            <4>2. head + i - 1 \in 1..Len(bytes) /\ v[i] = bytes[head + i - 1]
                BY <1>11, <4>1 DEF IsPiece
            <4>3. head + i - 1 \in 1..n /\ head + i - 1 \in 1..Len(net[fd])
                BY <1>3, <4>2
            <4>4. v[i] = net[fd][head + i - 1]
                BY <1>3, <4>2, <4>3
            <4> QED BY <4>3, <4>4 DEF ServerInv, Sources
        <3> QED BY <3>1, <3>2
    <2> QED BY <2>1
<1>8. CASE r.huge
    <2>1. Reply(fd, slot[fd], <<"ERROR">>) /\ store' = store
        BY <1>8 DEF ServeSet
    <2>2. Fits(r, <<"ERROR">>)
        BY <1>6, <1>8 DEF Fits
    <2>3. <<"ERROR">> \in Replies /\ Suits(r, <<"ERROR">>)
        BY <2>2, PlainReply
    <2>4. store' \in [Keys -> Seq(Byte)] /\ StoreSources' /\ StoredWhole'
        BY <1>1, <2>1, RepliesKept, StoreKept DEF ServerInv, ServerTypeOK
    <2> QED
        BY <2>1, <2>3, <2>4, AnsweredInv
<1>9. CASE ~r.huge /\ OneRound(r, Len(bytes))
    <2>1. total + head <= Len(bytes)
        BY <1>3, <1>5, <1>9 DEF OneRound
    <2>2. PICK v \in Seq(Byte) :
             /\ v = Brought(m, bytes, head, total) /\ Len(v) = total + 1 /\ v # << >> /\ v[1] = <<m, 0>>
             /\ \A i \in 2..(total + 1) : head + i - 1 \in 1..Len(bytes) /\ v[i] = bytes[head + i - 1]
             /\ IsPiece(v, m, bytes, head, total)
        <3>1. m \in Nat
            BY <1>6
        <3>3. \E v \in Seq(Byte) : IsPiece(v, m, bytes, head, total)
            BY <2>1, <3>1, FirstPiece
        <3> QED BY <3>3 DEF IsPiece
    <2>4. store' = [store EXCEPT ![r.key] = v] /\ Reply(fd, slot[fd], <<"STORED">>)
        BY <1>2, <1>5, <1>9, <2>2 DEF ServeSet, Brought
    <2>5. ASSUME fd \notin torn' PROVE v = WholeValue(m)
        <3>1. ASSUME NEW i \in 1..Len(v)
              PROVE  v[i] = <<m, IF i = 1 THEN 0 ELSE head + i - 1>>
            <4>1. CASE i = 1
                BY <2>2, <4>1
            <4>2. CASE i # 1
                <5>1. i \in 2..(total + 1) /\ head + i - 1 \in 1..n
                    BY <1>3, <2>2, <4>2
                <5>2. v[i] = net[fd][head + i - 1] /\ head + i - 1 \in 1..Len(net[fd])
                    BY <1>3, <2>2, <5>1, SMTT(30)
                <5> QED BY <1>7, <2>5, <4>2, <5>2
            <4> QED BY <4>1, <4>2
        <3>2. /\ Len(v) = sent[m].req.total + 1
              /\ \A i \in 1..Len(v) : v[i] = <<m, IF i = 1 THEN 0 ELSE sent[m].req.head + i - 1>>
            BY <1>5, <1>7, <2>2, <2>5, <3>1, ZenonT(60)
        <3> QED
            BY <1>6, <3>2, WholeKnown
    <2>6. store' \in [Keys -> Seq(Byte)] /\ StoreSources' /\ StoredWhole'
        <3>0. v[1][1] = m
            BY <2>2
        <3>1. \A i \in 1..Len(v) : SentOn(v[i][1], fd)
            BY <1>11, <2>2, Zenon
        <3>2. sent[m].fd \notin torn' =>
                 sent[m].req.op = "set" /\ sent[m].req.key = r.key /\ v = WholeValue(m)
            BY <1>6, <1>7, <2>5
        <3> QED
            BY <1>1, <1>6, <2>4, <2>2, <3>0, <3>1, <3>2, FilledKey, ZenonT(60)
    <2>7. Fits(r, <<"STORED">>)
        BY <1>6, <1>9 DEF Fits
    <2>8. <<"STORED">> \in Replies /\ Suits(r, <<"STORED">>)
        BY <2>7, PlainReply
    <2> QED
        BY <2>4, <2>6, <2>8, AnsweredInv
<1>10. CASE ~r.huge /\ ~OneRound(r, Len(bytes))
    <2>1. PICK c \in Nat : c = n - head
        BY <1>3, <1>5
    <2>2. PICK v \in Seq(Byte) :
             /\ v = Brought(m, bytes, head, c) /\ Len(v) = c + 1 /\ v # << >> /\ v[1] = <<m, 0>>
             /\ \A i \in 2..(c + 1) : head + i - 1 \in 1..Len(bytes) /\ v[i] = bytes[head + i - 1]
             /\ IsPiece(v, m, bytes, head, c)
        <3>2. c + head <= Len(bytes)
            BY <1>3, <2>1
        <3>1. m \in Nat
            BY <1>6
        <3>3. \E v \in Seq(Byte) : IsPiece(v, m, bytes, head, c)
            BY <3>2, <3>1, FirstPiece
        <3> QED BY <3>3 DEF IsPiece
    <2>3. v = <<Stamp(m)>> \o SubSeq(bytes, head + 1, Len(bytes))
        <3>1. head <= Len(bytes) /\ Len(bytes) \in Nat /\ Len(bytes) <= Len(bytes)
            BY <1>3, <1>5
        <3>2. /\ SubSeq(bytes, head + 1, Len(bytes)) \in Seq(Byte)
              /\ Len(SubSeq(bytes, head + 1, Len(bytes))) = Len(bytes) - head
            BY <1>3, <3>1, Part
        <3> QED BY <1>3, <2>1, <2>2, <3>2, SubSeqFull DEF Brought
    <2>4. PICK s : s = [slot[fd] EXCEPT !.buf = v, !.key = r.key, !.need = total + 3]
        OBVIOUS
    <2>5. total + 1 + 2 = total + 3
        OBVIOUS
    <2>6. slot' = [slot EXCEPT ![fd] = s] /\ UNCHANGED <<watch, store>>
        BY <1>2, <1>5, <1>10, <2>3, <2>4, <2>5 DEF ServeSet, NoReply, Needed
    <2>8. slot[fd] \in SlotType
        BY DEF ServerInv, ServerTypeOK, SlotType
    <2>9. /\ s \in SlotType /\ s.buf = v /\ s.key = r.key /\ s.need = total + 3 /\ s.reply = slot[fd].reply
        <3>1. v \in Seq(Byte) /\ r.key \in Keys \cup {"none"} /\ total + 3 \in Nat
            BY <1>6, <2>2
        <3> QED BY <2>4, <2>8, <3>1 DEF SlotType
    <2>10. slot'[fd] = s
        BY <2>6 DEF ServerInv, ServerTypeOK
    <2>11. store' \in [Keys -> Seq(Byte)] /\ StoreSources' /\ StoredWhole'
        BY <1>1, <2>6, RepliesKept, StoreKept DEF ServerInv, ServerTypeOK
    <2>12. s.buf # << >> /\ s.need >= 3 /\ s.key \in Keys /\ s.buf[1][1] = m
        BY <1>6, <2>2, <2>9
    <2>14. \A i \in 1..Len(s.buf) : SentOn(s.buf[i][1], fd)
        BY <1>11, <2>2, <2>9
    <2>13. ASSUME fd \notin torn' PROVE InStep(fd)'
        <3>1. /\ conn[fd] = "open" => waits[fd] = m
              /\ \A j \in 1..Len(net[fd]) : net[fd][j] = <<m, j>>
            BY <1>7, <2>13
        <3>2. ASSUME NEW i \in 1..Len(net'[fd])
              PROVE  /\ n + i \in 1..Len(net[fd]) /\ i \in Nat /\ i >= 1
                     /\ net'[fd][i] = <<m, n + i>>
            <4>1. i \in 1..(Len(net[fd]) - n)
                BY <1>3
            <4>2. n + i \in 1..Len(net[fd]) /\ i \in Nat /\ i >= 1
                BY <1>3, <4>1
            <4>3. net'[fd][i] = net[fd][n + i]
                BY <1>3, <4>1
            <4> QED BY <3>1, <4>2, <4>3
        <3>3. HeaderNext(fd)'
            <4>1. \A i \in 1..Len(net'[fd]) : net'[fd][i][2] # 1
                BY <1>3, <3>2
            <4> QED BY <4>1 DEF HeaderNext
        <3>4. BodyUnderWay(fd)'
            <4>1. Len(v) < total + 3
                <5>1. ~(head + total < n)
                    BY <1>3, <1>5, <1>10 DEF OneRound
                <5>2. Len(v) = c + 1
                    BY <2>2
                <5> QED BY <1>3, <2>1, <5>1, <5>2
            <4>2. ASSUME NEW i \in 1..Len(v)
                  PROVE  v[i] = <<m, IF i = 1 THEN 0 ELSE head + i - 1>>
                <5>1. CASE i = 1
                    BY <2>2, <5>1
                <5>2. CASE i # 1
                    <6>1. i \in 2..(c + 1) /\ head + i - 1 \in 1..n
                        BY <1>3, <2>2, <5>2
                    <6>2. v[i] = bytes[head + i - 1]
                        BY <2>2, <6>1
                    <6>3. bytes[head + i - 1] = net[fd][head + i - 1]
                        BY <1>3, <6>1
                    <6>4. head + i - 1 \in 1..Len(net[fd])
                        BY <1>3, <6>1
                    <6> QED BY <3>1, <5>2, <6>2, <6>3, <6>4
                <5> QED BY <5>1, <5>2
            <4>3. ASSUME NEW i \in 1..Len(net'[fd])
                  PROVE  net'[fd][i] = <<m, head + Len(v) + i - 1>>
                <5>1. n + i = head + Len(v) + i - 1
                    <6>1. Len(v) = c + 1 /\ c = n - head /\ i \in Nat /\ n \in Nat /\ head \in Nat
                        BY <1>3, <2>1, <2>2, <3>2, Zenon
                    <6> QED BY ONLY <6>1
                <5> QED BY <3>2, <5>1
            <4>4. /\ conn'[fd] # "free" /\ watch'[fd] = "in" /\ sent'[m].req = r
                  /\ conn'[fd] = "open" => waits'[fd] = m
                BY <1>0, <1>1, <1>7, <2>6, <2>13, <3>1
            <4>5. slot'[fd].buf = v /\ slot'[fd].key = r.key /\ slot'[fd].need = total + 3 /\ v[1][1] = m
                BY <2>9, <2>10, <2>12
            <4>6. r.op = "set" /\ ~r.huge /\ r.head = head /\ r.total = total
                BY <1>5, <1>6, <1>10
            <4> QED
                BY ONLY <4>1, <4>2, <4>3, <4>4, <4>5, <4>6 DEF BodyUnderWay
        <3>5. BetweenCommands(fd)' /\ ReplyDue(fd)'
            <4>1. InStep(fd)
                BY <1>1, <2>13 DEF ServerInv
            <4>2. s.need # 0
                BY <2>9
            <4> QED
                BY <1>0, <1>1, <2>6, <2>9, <2>10, <4>1, <4>2 DEF InStep, BetweenCommands, ReplyDue
        <3> QED BY <3>3, <3>4, <3>5 DEF InStep
    <2> QED
        BY <1>0, <2>6, <2>9, <2>11, <2>12, <2>13, <2>14, InputFrame
<1> QED
    BY <1>8, <1>9, <1>10

\* A body with the piece that has come.
Joined(buf, old, bytes) ==
    /\ buf = old \o bytes /\ Len(buf) = Len(old) + Len(bytes)
    /\ \A i \in 1..Len(old) : buf[i] = old[i]
    /\ \A i \in 1..Len(bytes) : buf[Len(old) + i] = bytes[i]

LEMMA JoinedBody ==
    ASSUME NEW old \in Seq(Byte), NEW bytes \in Seq(Byte)
    PROVE  \E buf \in Seq(Byte) : Joined(buf, old, bytes)
<1>1. Len(old) \in Nat /\ Len(bytes) \in Nat
    BY LenProperties
<1>2. /\ old \o bytes \in Seq(Byte)
      /\ Len(old \o bytes) = Len(old) + Len(bytes)
      /\ \A i \in 1..(Len(old) + Len(bytes)) :
            (old \o bytes)[i] = IF i <= Len(old) THEN old[i] ELSE bytes[i - Len(old)]
    BY ConcatProperties
<1>3. PICK buf \in Seq(Byte) : /\ buf = old \o bytes /\ Len(buf) = Len(old) + Len(bytes)
                               /\ \A i \in 1..(Len(old) + Len(bytes)) :
                                     buf[i] = IF i <= Len(old) THEN old[i] ELSE bytes[i - Len(old)]
    BY ONLY <1>2
<1>4. ASSUME NEW i \in 1..Len(old) PROVE buf[i] = old[i]
    BY <1>1, <1>3
<1>5. ASSUME NEW i \in 1..Len(bytes) PROVE buf[Len(old) + i] = bytes[i]
    <2>1. Len(old) + i \in 1..(Len(old) + Len(bytes)) /\ ~(Len(old) + i <= Len(old))
        BY <1>1
    <2>2. (Len(old) + i) - Len(old) = i
        BY <1>1
    <2> QED BY <1>3, <2>1, <2>2
<1> QED
    BY <1>3, <1>4, <1>5 DEF Joined

\* What is known of a slot in the middle of a body, and of what comes for it.
Continues(fd, n, old, buf, need, len, m) ==
    /\ slot[fd].buf = old /\ slot[fd].need = need /\ old[1][1] = m /\ slot[fd].key \in Keys
    /\ buf = old \o SubSeq(net[fd], 1, n) /\ len = Len(old) /\ Len(buf) = len + n
    /\ n \in Nat /\ n >= 1 /\ len >= 1 /\ need >= 3 /\ len + n <= need
    /\ \A i \in 1..len : buf[i] = old[i]
    /\ \A i \in 1..n : i \in 1..Len(net[fd]) /\ buf[len + i] = net[fd][i]
    /\ SentOn(m, fd) /\ m \in 1..Len(sent) /\ sent[m].fd = fd

LEMMA MidBody ==
    ASSUME ServerInv, NEW fd \in Fds \ High, NEW n, Takes(fd, n), slot[fd].need # 0
    PROVE  \E old \in Seq(Byte), buf \in Seq(Byte), need \in Nat, len \in Nat, m \in Nat :
              Continues(fd, n, old, buf, need, len, m)
<1>1. /\ slot[fd].buf # << >> /\ slot[fd].need >= 3 /\ SentOn(slot[fd].buf[1][1], fd)
      /\ slot[fd].key \in Keys
    BY Begun DEF ServerInv, Sources
<1>2. PICK old \in Seq(Byte), need \in Nat, len \in Nat :
         old = slot[fd].buf /\ need = slot[fd].need /\ len = Len(old)
    BY ServerTypes
<1>3. PICK m : m = old[1][1]
    OBVIOUS
<1>4. SentOn(m, fd) /\ m \in 1..Len(sent) /\ sent[m].fd = fd /\ m \in Nat
    BY <1>1, <1>2, <1>3, ServerTypes DEF SentOn
<1>5. /\ n \in Nat /\ n >= 1 /\ n <= Len(net[fd]) /\ Len(net[fd]) \in Nat
      /\ SubSeq(net[fd], 1, n) \in Seq(Byte) /\ Len(SubSeq(net[fd], 1, n)) = n
      /\ \A i \in 1..n : SubSeq(net[fd], 1, n)[i] = net[fd][i]
      /\ n <= slot[fd].need - Len(slot[fd].buf)
    BY Received
<1>6. PICK bytes \in Seq(Byte) : /\ bytes = SubSeq(net[fd], 1, n) /\ Len(bytes) = n
                                 /\ \A i \in 1..n : bytes[i] = net[fd][i]
    BY ONLY <1>5
<1>7. PICK buf \in Seq(Byte) : Joined(buf, old, bytes)
    BY JoinedBody
<1>8. buf = old \o SubSeq(net[fd], 1, n) /\ Len(buf) = len + n
    BY <1>2, <1>6, <1>7 DEF Joined
<1>9. len >= 1 /\ len + n <= need
    <2>1. len # 0
        BY <1>1, <1>2, EmptySeq
    <2>2. n <= need - len
        BY <1>2, <1>5
    <2> QED BY <1>5, <2>1, <2>2
<1>10. \A i \in 1..len : buf[i] = old[i]
    BY <1>2, <1>7 DEF Joined
<1>11. ASSUME NEW i \in 1..n PROVE i \in 1..Len(net[fd]) /\ buf[len + i] = net[fd][i]
    <2>1. buf[len + i] = bytes[i]
        BY <1>2, <1>6, <1>7 DEF Joined
    <2> QED BY <1>5, <1>6, <2>1
<1>12. Continues(fd, n, old, buf, need, len, m)
    <2>1. need >= 3 /\ slot[fd].key \in Keys
        BY <1>1, <1>2
    <2> QED
        BY <1>2, <1>3, <1>4, <1>5, <1>8, <1>9, <1>10, <1>11, <2>1 DEF Continues
<1> QED
    BY <1>4, <1>12

\* Of a descriptor that is not torn, what has been read of a body is its
\* beginning, and what is on its way the rest.
IsBody(fd, n, buf, need, len, m, head, total) ==
    /\ sent[m].req.head = head /\ sent[m].req.total = total /\ head >= 1
    /\ sent[m].req.op = "set" /\ ~sent[m].req.huge /\ sent[m].req.key = slot[fd].key
    /\ need = total + 3
    /\ conn[fd] # "free" /\ watch[fd] = "in"
    /\ conn[fd] = "open" => waits[fd] = m
    /\ \A i \in 1..(len + n) : buf[i] = <<m, IF i = 1 THEN 0 ELSE head + i - 1>>
    /\ \A i \in 1..Len(net'[fd]) :
          i \in Nat /\ i >= 1 /\ net'[fd][i] = <<m, head + (len + n) + i - 1>>

LEMMA Continued ==
    ASSUME ServerInv, NEW fd \in Fds \ High, NEW n, Takes(fd, n), slot[fd].need # 0, fd \notin torn,
           NEW old \in Seq(Byte), NEW buf \in Seq(Byte), NEW need \in Nat, NEW len \in Nat, NEW m \in Nat,
           Continues(fd, n, old, buf, need, len, m)
    PROVE  \E head \in Nat, total \in Nat : IsBody(fd, n, buf, need, len, m, head, total)
<1>1. /\ slot[fd].buf = old /\ slot[fd].need = need /\ old[1][1] = m /\ len = Len(old)
      /\ n \in Nat /\ n >= 1 /\ len >= 1 /\ m \in 1..Len(sent)
    BY DEF Continues
<1>2. BodyUnderWay(fd) /\ sent[m].req \in Requests
    BY <1>1, ServerTypes DEF ServerInv, InStep
<1>3. PICK r : r = sent[m].req
    OBVIOUS
<1>4. PICK head \in Nat, total \in Nat : head = r.head /\ total = r.total /\ head >= 1
    BY <1>2, <1>3, BytesOf
<1>5. /\ conn[fd] # "free" /\ watch[fd] = "in"
      /\ conn[fd] = "open" => waits[fd] = m
      /\ r.op = "set" /\ ~r.huge /\ slot[fd].key = r.key
      /\ need = r.total + 3
      /\ \A i \in 1..len : old[i] = <<m, IF i = 1 THEN 0 ELSE r.head + i - 1>>
      /\ \A i \in 1..Len(net[fd]) : net[fd][i] = <<m, r.head + len + i - 1>>
    BY <1>1, <1>2, <1>3 DEF BodyUnderWay
<1>6. ASSUME NEW i \in 1..(len + n)
      PROVE  buf[i] = <<m, IF i = 1 THEN 0 ELSE head + i - 1>>
    <2>1. CASE i <= len
        <3>1. i \in 1..len
            BY <1>1, <2>1
        <3> QED BY <1>4, <1>5, <3>1 DEF Continues
    <2>2. CASE ~(i <= len)
        <3>1. i - len \in 1..n /\ len + (i - len) = i /\ i # 1 /\ head + len + (i - len) - 1 = head + i - 1
            BY <1>1, <2>2, SMTT(30)
        <3>2. i - len \in 1..Len(net[fd]) /\ buf[len + (i - len)] = net[fd][i - len]
            BY <3>1 DEF Continues
        <3>3. net[fd][i - len] = <<m, head + len + (i - len) - 1>>
            BY <1>4, <1>5, <3>2
        <3> QED BY <3>1, <3>2, <3>3
    <2> QED BY <2>1, <2>2
<1>7. ASSUME NEW i \in 1..Len(net'[fd])
      PROVE  i \in Nat /\ i >= 1 /\ net'[fd][i] = <<m, head + (len + n) + i - 1>>
    <2>1. /\ Len(net[fd]) \in Nat /\ Len(net'[fd]) = Len(net[fd]) - n
          /\ \A j \in 1..(Len(net[fd]) - n) : net'[fd][j] = net[fd][n + j]
        BY Received
    <2>2. i \in Nat /\ i >= 1 /\ n + i \in 1..Len(net[fd]) /\ net'[fd][i] = net[fd][n + i]
        BY <1>1, <2>1
    <2>3. net[fd][n + i] = <<m, head + len + (n + i) - 1>>
        BY <1>4, <1>5, <2>2
    <2>4. head + len + (n + i) - 1 = head + (len + n) + i - 1
        BY <1>1, <2>2
    <2> QED BY <2>2, <2>3, <2>4
<1> QED
    BY <1>3, <1>4, <1>5, <1>6, <1>7 DEF IsBody

\* The rest of a body, or a part of it.
LEMMA ServeBodyInv ==
    ASSUME ServerInv, NEW fd \in Fds \ High, NEW n, Takes(fd, n), conn[fd] # "free",
           watch[fd] = "in", slot[fd].need # 0, ServeBody(fd, SubSeq(net[fd], 1, n))
    PROVE  ServerInv'
<1>1. UNCHANGED <<conn, sent, waits>> /\ torn \subseteq torn'
    BY DEF Takes
<1>2. PICK old \in Seq(Byte), buf \in Seq(Byte), need \in Nat, len \in Nat, m \in Nat :
          Continues(fd, n, old, buf, need, len, m)
    BY MidBody
<1>3. /\ slot[fd].buf = old /\ slot[fd].need = need /\ old[1][1] = m /\ slot[fd].key \in Keys
      /\ buf = old \o SubSeq(net[fd], 1, n) /\ Len(buf) = len + n
      /\ n \in Nat /\ n >= 1 /\ len >= 1 /\ need >= 3 /\ len + n <= need
      /\ SentOn(m, fd) /\ m \in 1..Len(sent) /\ sent[m].fd = fd
    BY <1>2 DEF Continues
<1>4. buf # << >> /\ buf[1][1] = m
    <2>1. 1 \in 1..len
        BY <1>3
    <2>2. buf[1] = old[1]
        BY <1>2, <2>1 DEF Continues
    <2> QED BY <1>3, <2>2, EmptySeq
<1>5. slot[fd] \in SlotType /\ slot \in [Fds -> SlotType]
    BY DEF ServerInv, ServerTypeOK, SlotType
<1>8. ASSUME NEW i \in 1..Len(buf) PROVE SentOn(buf[i][1], fd)
    <2>1. CASE i <= len
        <3>1. i \in 1..len /\ buf[i] = old[i] /\ len = Len(old)
            BY <1>2, <2>1 DEF Continues
        <3> QED BY <1>3, <3>1 DEF ServerInv, Sources
    <2>2. CASE ~(i <= len)
        <3>1. i - len \in 1..n /\ len + (i - len) = i
            <4>1. Len(buf) = len + n /\ n \in Nat
                BY <1>3
            <4>2. i \in 1..(len + n)
                BY <4>1
            <4> QED BY ONLY <2>2, <4>1, <4>2, len \in Nat
        <3>2. i - len \in 1..Len(net[fd]) /\ buf[len + (i - len)] = net[fd][i - len]
            BY <1>2, <3>1 DEF Continues
        <3> QED BY <3>1, <3>2 DEF ServerInv, Sources
    <2> QED BY <2>1, <2>2
<1>6. CASE len + n = need
    <2>1. PICK k \in Keys : k = slot[fd].key
        BY <1>3
    <2>2. PICK d \in Nat : d = need - 2 /\ d >= 1 /\ d <= Len(buf)
        BY <1>3, <1>6
    <2>3. PICK v \in Seq(Byte) : v = SubSeq(buf, 1, d) /\ Len(v) = d /\ \A i \in 1..d : v[i] = buf[i]
        <3>1. /\ SubSeq(buf, 0 + 1, d) \in Seq(Byte) /\ Len(SubSeq(buf, 0 + 1, d)) = d - 0
              /\ \A i \in 1..(d - 0) : SubSeq(buf, 0 + 1, d)[i] = buf[0 + i]
            BY <2>2, Part
        <3>2. /\ SubSeq(buf, 1, d) \in Seq(Byte) /\ Len(SubSeq(buf, 1, d)) = d
              /\ \A i \in 1..d : SubSeq(buf, 1, d)[i] = buf[i]
            BY <2>2, <3>1
        <3> QED BY ONLY <3>2
    <2>4. PICK s : s = [slot[fd] EXCEPT !.need = 0, !.buf = << >>, !.key = "none", !.reply = <<"STORED">>]
        OBVIOUS
    <2>5. /\ store' = [store EXCEPT ![k] = v] /\ slot' = [slot EXCEPT ![fd] = s]
          /\ watch' = [watch EXCEPT ![fd] = "out"]
        <3>1. Len(buf) - 2 = d /\ Len(buf) = need
            BY <1>3, <1>6, <2>2
        <3>2. s = [Finished(slot[fd]) EXCEPT !.reply = <<"STORED">>]
            BY <1>5, <2>4 DEF Finished, SlotType
        <3> QED
            BY <1>3, <2>1, <2>3, <3>1, <3>2 DEF ServeBody, Reply
    <2>6. /\ s \in SlotType /\ s.need = 0 /\ s.buf = << >> /\ s.key = "none" /\ s.reply = <<"STORED">>
        <3>1. <<"STORED">> \in Replies /\ << >> \in Seq(Byte)
            BY EmptySeq DEF Replies
        <3> QED BY <1>5, <2>4, <3>1 DEF SlotType
    <2>7. slot'[fd] = s /\ watch'[fd] = "out"
        BY <1>5, <2>5 DEF ServerInv, ServerTypeOK
    <2>8. ASSUME fd \notin torn'
          PROVE  /\ sent[m].req.op = "set" /\ ~sent[m].req.huge /\ sent[m].req.key = k
                 /\ v = WholeValue(m)
                 /\ conn[fd] = "open" => waits[fd] = m
                 /\ \A i \in 1..Len(net'[fd]) : net'[fd][i][2] # 1
        <3>0. PICK head \in Nat, total \in Nat : IsBody(fd, n, buf, need, len, m, head, total)
            BY <1>1, <1>2, <2>8, Continued
        <3>1. /\ sent[m].req.head = head /\ sent[m].req.total = total /\ head >= 1
              /\ sent[m].req.op = "set" /\ ~sent[m].req.huge /\ sent[m].req.key = slot[fd].key
              /\ need = total + 3
              /\ conn[fd] # "free" /\ watch[fd] = "in"
              /\ conn[fd] = "open" => waits[fd] = m
              /\ \A i \in 1..(len + n) : buf[i] = <<m, IF i = 1 THEN 0 ELSE head + i - 1>>
              /\ \A i \in 1..Len(net'[fd]) :
                     i \in Nat /\ i >= 1 /\ net'[fd][i] = <<m, head + (len + n) + i - 1>>
            BY <3>0 DEF IsBody
        <3>2. d = total + 1
            BY <2>2, <3>1
        <3>3. ASSUME NEW i \in 1..d PROVE v[i] = <<m, IF i = 1 THEN 0 ELSE head + i - 1>>
            <4>1. i \in 1..(len + n)
                BY <1>3, <2>2
            <4> QED BY <2>3, <3>1, <4>1
        <3>4. /\ Len(v) = sent[m].req.total + 1
              /\ \A i \in 1..Len(v) : v[i] = <<m, IF i = 1 THEN 0 ELSE sent[m].req.head + i - 1>>
            BY <2>3, <3>1, <3>2, <3>3
        <3>5. v = WholeValue(m)
            BY <1>3, <3>4, WholeKnown
        <3>6. ASSUME NEW i \in 1..Len(net'[fd]) PROVE net'[fd][i][2] # 1
            <4>1. i \in Nat /\ i >= 1 /\ net'[fd][i] = <<m, head + (len + n) + i - 1>>
                BY <3>1
            <4>2. head + (len + n) + i - 1 # 1
                BY <1>3, <3>1, <4>1
            <4> QED BY <4>1, <4>2
        <3> QED
            BY <2>1, <3>1, <3>5, <3>6
    <2>11. \A i \in 1..Len(v) : SentOn(v[i][1], fd)
        <3>1. \A i \in 1..d : i \in 1..Len(buf)
            BY <1>3, <2>2
        <3> QED BY <1>8, <2>3, <3>1
    <2>9. store' \in [Keys -> Seq(Byte)] /\ StoreSources' /\ StoredWhole'
        <3>1. v # << >> /\ v[1][1] = m
            <4>1. 1 \in 1..d
                BY <2>2
            <4> QED BY <1>4, <2>2, <2>3, <4>1, EmptySeq
        <3> QED
            BY <1>1, <1>3, <2>5, <2>8, <2>11, <3>1, FilledKey
    <2>10. ASSUME fd \notin torn' PROVE InStep(fd)'
        <3>1. HeaderNext(fd)' /\ BodyUnderWay(fd)' /\ BetweenCommands(fd)'
            BY <1>1, <2>6, <2>7, <2>8, <2>10 DEF HeaderNext, BodyUnderWay, BetweenCommands
        <3>2. PICK r : r = sent[m].req
            OBVIOUS
        <3>3. Fits(r, <<"STORED">>)
            BY <2>8, <2>10, <3>2 DEF Fits
        <3>4. Suits(r, <<"STORED">>)
            BY <3>3, PlainReply
        <3>5. Suits(r, <<"STORED">>)'
            BY <1>1, <3>4 DEF Suits, Fits, ValueFits
        <3>6. ReplyDue(fd)'
            <4>1. CASE conn[fd] = "open"
                <5>1. waits'[fd] = m /\ slot'[fd].reply = <<"STORED">> /\ r = sent'[m].req /\ m # 0
                    BY <1>1, <1>3, <2>6, <2>7, <2>8, <2>10, <3>2, <4>1
                <5>2. Suits(sent[waits[fd]].req, slot[fd].reply)'
                    BY <3>5, <5>1 DEF Suits, Fits, ValueFits
                <5> QED BY <5>1, <5>2 DEF ReplyDue
            <4>2. CASE conn[fd] # "open"
                BY <1>1, <4>2 DEF ReplyDue
            <4> QED BY <4>1, <4>2
        <3> QED BY <3>1, <3>6 DEF InStep
    <2>12. \A i \in 1..Len(s.buf) : SentOn(s.buf[i][1], fd)
        BY <2>6, EmptySeq
    <2> QED
        BY <2>5, <2>6, <2>9, <2>10, <2>12, InputFrame
<1>7. CASE len + n # need
    <2>1. PICK s : s = [slot[fd] EXCEPT !.buf = buf]
        OBVIOUS
    <2>2. slot' = [slot EXCEPT ![fd] = s] /\ UNCHANGED <<watch, store>>
        BY <1>3, <1>7, <2>1 DEF ServeBody, NoReply
    <2>3. /\ s \in SlotType /\ s.need = need /\ s.buf = buf /\ s.key = slot[fd].key
          /\ s.reply = slot[fd].reply
        BY <1>3, <1>5, <2>1 DEF SlotType
    <2>4. slot'[fd] = s
        BY <1>5, <2>2
    <2>5. store' \in [Keys -> Seq(Byte)] /\ StoreSources' /\ StoredWhole'
        BY <1>1, <2>2, RepliesKept, StoreKept DEF ServerInv, ServerTypeOK
    <2>6. s.buf # << >> /\ s.need >= 3 /\ s.key \in Keys
        BY <1>3, <1>4, <2>3
    <2>8. \A i \in 1..Len(s.buf) : SentOn(s.buf[i][1], fd)
        BY <1>8, <2>3
    <2>7. ASSUME fd \notin torn' PROVE InStep(fd)'
        <3>0. PICK head \in Nat, total \in Nat : IsBody(fd, n, buf, need, len, m, head, total)
            BY <1>1, <1>2, <2>7, Continued
        <3>1. /\ sent[m].req.head = head /\ sent[m].req.total = total /\ head >= 1
              /\ sent[m].req.op = "set" /\ ~sent[m].req.huge /\ sent[m].req.key = slot[fd].key
              /\ need = total + 3
              /\ conn[fd] # "free" /\ watch[fd] = "in"
              /\ conn[fd] = "open" => waits[fd] = m
              /\ \A i \in 1..(len + n) : buf[i] = <<m, IF i = 1 THEN 0 ELSE head + i - 1>>
              /\ \A i \in 1..Len(net'[fd]) :
                     i \in Nat /\ i >= 1 /\ net'[fd][i] = <<m, head + (len + n) + i - 1>>
            BY <3>0 DEF IsBody
        <3>2. HeaderNext(fd)'
            <4>1. ASSUME NEW i \in 1..Len(net'[fd]) PROVE net'[fd][i][2] # 1
                <5>1. i \in Nat /\ i >= 1 /\ net'[fd][i] = <<m, head + (len + n) + i - 1>>
                    BY <3>1
                <5>2. head + (len + n) + i - 1 # 1
                    BY <1>3, <3>1, <5>1
                <5> QED BY <5>1, <5>2
            <4> QED BY <4>1 DEF HeaderNext
        <3>3. BodyUnderWay(fd)'
            <4>1. /\ conn'[fd] # "free" /\ watch'[fd] = "in" /\ sent'[m].req = sent[m].req
                  /\ conn'[fd] = "open" => waits'[fd] = m
                BY <1>1, <2>2, <3>1
            <4>2. /\ slot'[fd].buf = buf /\ slot'[fd].key = slot[fd].key /\ slot'[fd].need = need
                  /\ buf[1][1] = m
                BY <1>4, <2>3, <2>4
            <4>3. Len(buf) = len + n /\ Len(buf) < need
                BY <1>3, <1>7
            <4>4. \A i \in 1..Len(buf) : buf[i] = <<m, IF i = 1 THEN 0 ELSE head + i - 1>>
                BY <3>1, <4>3
            <4>5. \A i \in 1..Len(net'[fd]) : net'[fd][i] = <<m, head + Len(buf) + i - 1>>
                BY <3>1, <4>3
            <4>6. /\ sent[m].req.head = head /\ sent[m].req.total = total
                  /\ sent[m].req.op = "set" /\ ~sent[m].req.huge /\ sent[m].req.key = slot[fd].key
                  /\ need = total + 3
                BY <3>1
            <4> QED
                BY ONLY <4>1, <4>2, <4>3, <4>4, <4>5, <4>6, ZenonT(60) DEF BodyUnderWay
        <3>4. BetweenCommands(fd)' /\ ReplyDue(fd)'
            <4>1. InStep(fd)
                BY <1>1, <2>7 DEF ServerInv
            <4>2. s.need # 0
                BY <1>3, <2>3
            <4> QED
                BY <1>1, <2>2, <2>3, <2>4, <3>1, <4>1, <4>2 DEF InStep, BetweenCommands, ReplyDue
        <3> QED BY <3>2, <3>3, <3>4 DEF InStep
    <2> QED
        BY <2>2, <2>3, <2>5, <2>6, <2>7, <2>8, InputFrame
<1> QED
    BY <1>6, <1>7

\* A piece that is carried out as command r.
LEMMA ServeInv ==
    ASSUME ServerInv, NEW fd \in Fds \ High, NEW n, NEW m, NEW r, ServesAs(fd, n, m, r),
           Serve(fd, r, SubSeq(net[fd], 1, n))
    PROVE  ServerInv'
<1>1. SubSeq(net[fd], 1, n)[1] = net[fd][1]
    <2>1. n \in Nat /\ n >= 1 /\ \A i \in 1..n : SubSeq(net[fd], 1, n)[i] = net[fd][i]
        BY Received DEF ServesAs
    <2> QED BY <2>1
<1>2. \/ r.op = "get" /\ ServeGet(fd, r)
      \/ r.op = "delete" /\ ServeDelete(fd, r)
      \/ r.op = "set" /\ ServeSet(fd, r, m, SubSeq(net[fd], 1, n))
    BY <1>1 DEF Serve, ServesAs
<1> QED
    BY <1>2, ServeGetInv, ServeDeleteInv, ServeSetInv

LEMMA InputInv ==
    ASSUME ServerInv, NEW fd \in Fds, Input(fd)
    PROVE  ServerInv'
<1>1. PICK n \in Counts(fd) : /\ Handle(fd, SubSeq(net[fd], 1, n))
                              /\ net' = [net EXCEPT ![fd] = SubSeq(@, n + 1, Len(@))]
    BY DEF Input
<1>2. Takes(fd, n) /\ conn[fd] # "free" /\ fd \in Fds \ High /\ watch[fd] = "in"
    <2>1. torn \subseteq torn' /\ torn' \subseteq Fds
        BY <1>1 DEF Handle, ServerInv, ServerTypeOK
    <2> QED BY <1>1, <2>1 DEF Input, Takes
<1>3. /\ n \in Nat /\ Len(SubSeq(net[fd], 1, n)) = n
      /\ SubSeq(net[fd], 1, n)[1] = net[fd][1]
    <2>1. /\ n \in Nat /\ n >= 1 /\ Len(SubSeq(net[fd], 1, n)) = n
          /\ \A i \in 1..n : SubSeq(net[fd], 1, n)[i] = net[fd][i]
        BY <1>2, Received
    <2> QED BY <2>1
<1>4. PICK m : m = net[fd][1][1]
    OBVIOUS
<1>5. CASE slot[fd].need # 0
    BY <1>1, <1>2, <1>5, ServeBodyInv DEF Handle
<1>6. CASE slot[fd].need = 0 /\ Dropped(fd)
    BY <1>2, <1>6, DroppedInv
<1>7. CASE /\ slot[fd].need = 0 /\ AtHeader(SubSeq(net[fd], 1, n))
           /\ Serve(fd, sent[m].req, SubSeq(net[fd], 1, n))
    <2>1. AtHeader(net[fd])
        BY <1>3, <1>7 DEF AtHeader
    <2>2. m \in 1..Len(sent)
        <3>1. 1 \in 1..Len(net[fd])
            BY <1>2, Received
        <3> QED BY <1>4, <3>1 DEF ServerInv, Sources, SentOn
    <2>3. sent[m].req \in Requests /\ sent[m].req.head <= n
        BY <1>3, <1>7, <2>2, ServerTypes DEF Serve
    <2>4. ServesAs(fd, n, m, sent[m].req)
        BY <1>2, <1>4, <1>7, <2>1, <2>3 DEF ServesAs
    <2> QED
        BY <1>2, <1>7, <2>4, ServeInv
<1>8. CASE /\ slot[fd].need = 0 /\ torn' = torn \cup {fd}
           /\ \E r \in Requests : Serve(fd, r, SubSeq(net[fd], 1, n))
    <2>1. PICK r \in Requests : Serve(fd, r, SubSeq(net[fd], 1, n))
        BY <1>8
    <2>2. ServesAs(fd, n, m, r)
        BY <1>2, <1>3, <1>4, <1>8, <2>1 DEF ServesAs, Serve
    <2> QED
        BY <1>2, <2>1, <2>2, ServeInv
<1> QED
    BY <1>1, <1>3, <1>4, <1>5, <1>6, <1>7, <1>8 DEF Handle

-----------------------------------------------------------------------------
(* The invariant, and what it says.                                        *)

LEMMA InitServer == Init => ServerInv
<1> SUFFICES ASSUME Init PROVE ServerInv
    OBVIOUS
<1>1. << >> \in Seq(Byte) /\ NoAnswer \in Replies /\ Len(<< >>) = 0
    BY EmptySeq DEF Replies
<1>2. sent \in Seq([req : Requests, fd : Fds, reply : Replies]) /\ Len(sent) = 0
    BY EmptySeq DEF Init
<1>3. ServerTypeOK
    BY <1>1, <1>2 DEF Init, ServerTypeOK, EmptySlot
<1>4. ASSUME NEW fd \in Fds
      PROVE  Sources(fd) /\ InStep(fd)
    <2>1. /\ conn[fd] = "free" /\ watch[fd] = "in" /\ slot[fd] = EmptySlot /\ Len(net[fd]) = 0
          /\ net[fd] = << >> /\ waits[fd] = 0
        BY <1>1 DEF Init
    <2>2. slot[fd].need = 0 /\ slot[fd].buf = << >> /\ slot[fd].key = "none" /\ slot[fd].reply = NoAnswer
        BY <2>1 DEF EmptySlot
    <2> QED
        BY <2>1, <2>2 DEF Sources, InStep, HeaderNext, BodyUnderWay, BetweenCommands, ReplyDue
<1>5. StoreSources /\ StoredWhole
    BY DEF Init, StoreSources, StoredWhole
<1>6. RepliesSuit
    BY <1>2 DEF RepliesSuit
<1> QED
    BY <1>3, <1>4, <1>5, <1>6 DEF ServerInv

LEMMA ServerIdle ==
    ASSUME ServerInv, UNCHANGED vars
    PROVE  ServerInv'
<1>1. UNCHANGED <<conn, watch, slot, store, net, sent, waits, torn>>
    BY DEF vars
<1>2. SentKept /\ RepliesSuit' /\ Len(sent') \in Nat
    BY <1>1, RepliesKept
<1>3. StoreSources' /\ StoredWhole'
    BY <1>1, <1>2, StoreKept
<1>4. ServerTypeOK'
    BY <1>1 DEF ServerInv, ServerTypeOK
<1>5. ASSUME NEW fd \in Fds PROVE Sources(fd)' /\ (fd \notin torn' => InStep(fd)')
    <2>1. Untouched(fd)
        BY <1>1 DEF Untouched
    <2> QED BY <1>1, <1>2, <2>1, OthersKept
<1> QED
    BY <1>2, <1>3, <1>4, <1>5 DEF ServerInv

LEMMA ServerNextInv == ServerInv /\ [Next]_vars => ServerInv'
<1> SUFFICES ASSUME ServerInv, [Next]_vars PROVE ServerInv'
    OBVIOUS
<1>1. CASE UNCHANGED vars
    BY <1>1, ServerIdle
<1>2. CASE Rest
    BY <1>2, ServerIdle DEF Rest
<1>3. ASSUME NEW fd \in Fds, Event(fd) PROVE ServerInv'
    BY <1>3, InputInv, EndOfInputInv, TooHighInv, OutputInv, OutputLostInv DEF Event
<1>4. ASSUME NEW fd \in Fds, Accept(fd) \/ Send(fd) \/ Leave(fd) PROVE ServerInv'
    BY <1>4, AcceptInv, SendInv, LeaveInv
<1> QED
    BY <1>1, <1>2, <1>3, <1>4 DEF Next

\* What a slot holds and what is stored was sent on one descriptor, and on a
\* descriptor that is not torn what is on its way, what its slot holds and what
\* its client waits for belong to one command.  It is torn when a connection
\* ends in the middle of a body, or a piece of a refused body is carried out:
\* the slots of dataTable, which handle_func fills and nothing resets when a
\* descriptor is closed (src/v1/tstserver.c).
THEOREM ServerInvariance == Spec => []ServerInv
<1>1. Init => ServerInv
    BY InitServer
<1>2. ServerInv /\ [Next]_vars => ServerInv'
    BY ServerNextInv
<1> QED
    BY <1>1, <1>2, PTL DEF Spec

\* Whatever way a body comes in pieces, in one round with its header or in
\* many, next to those of other clients: the store has the whole of it, with
\* its flag and expiry before it and without its line's end, under its key
\* (handle_func's branches "one round enough" and "need_read!=0").  What was
\* begun on a torn descriptor is exempt.
THEOREM ValuesWhole == Spec => []StoredWhole
<1>1. ServerInv => StoredWhole
    BY DEF ServerInv
<1> QED
    BY <1>1, ServerInvariance, PTL

\* Where the descriptor is not torn, a connection finds nothing in its slot,
\* and a client is not given the reply to another command, nor the value of
\* another key; and on every descriptor, torn or not, no value or body under
\* way has a byte of another one's (handle_func's EPOLLIN and EPOLLOUT branches,
\* and its close, which leaves the slot alone).
THEOREM NothingCrosses == Spec => []ConnectionsApart
<1>1. ASSUME ServerInv PROVE SlotsEmpty
    <2>1. ASSUME NEW fd \in Fds \ torn, conn[fd] = "free" PROVE slot[fd] = EmptySlot
        <3>1. BodyUnderWay(fd) /\ BetweenCommands(fd)
            BY <1>1, <2>1 DEF ServerInv, InStep
        <3>2. slot[fd].need = 0 /\ slot[fd].buf = << >> /\ slot[fd].key = "none" /\ slot[fd].reply = NoAnswer
            BY <2>1, <3>1 DEF BodyUnderWay, BetweenCommands
        <3>3. slot[fd] \in [need : Nat, buf : Seq(Byte), key : Keys \cup {"none"}, reply : Replies]
            BY <1>1, ServerTypes
        <3> QED BY <3>2, <3>3 DEF EmptySlot
    <2> QED BY <2>1 DEF SlotsEmpty
<1>2. ASSUME ServerInv PROVE RepliesFit
    <2>1. sent \in Seq([req : Requests, fd : Fds, reply : Replies])
        BY <1>2 DEF ServerInv, ServerTypeOK
    <2>2. DOMAIN sent = 1..Len(sent)
        BY <2>1, LenProperties
    <2> QED
        BY <1>2, <2>2 DEF ServerInv, RepliesSuit, Suits, ValueFits, RepliesFit
<1>3. ASSUME ServerInv PROVE Unmixed
    <2>1. ASSUME NEW s \in Seq(Byte), NEW fd \in Fds, \A i \in 1..Len(s) : SentOn(s[i][1], fd)
          PROVE  OneSource(s)
        <3>1. DOMAIN s = 1..Len(s) /\ Len(s) \in Nat
            BY LenProperties
        <3>2. \A i \in 1..Len(s) : 1 \in 1..Len(s)
            BY <3>1
        <3> QED
            BY <2>1, <3>1, <3>2 DEF OneSource, SentOn
    <2>2. ASSUME NEW k \in Keys PROVE OneSource(store[k])
        <3>1. store[k] \in Seq(Byte)
            BY <1>3 DEF ServerInv, ServerTypeOK
        <3>2. CASE store[k] # << >>
            BY <1>3, <2>1, <3>1, <3>2 DEF ServerInv, StoreSources
        <3>3. CASE store[k] = << >>
            BY <3>3 DEF OneSource
        <3> QED BY <3>2, <3>3
    <2>3. ASSUME NEW fd \in Fds PROVE OneSource(slot[fd].buf)
        <3>1. slot[fd].buf \in Seq(Byte) /\ \A i \in 1..Len(slot[fd].buf) : SentOn(slot[fd].buf[i][1], fd)
            BY <1>3, ServerTypes DEF ServerInv, Sources
        <3> QED BY <2>1, <3>1
    <2> QED
        BY <2>2, <2>3 DEF Unmixed
<1>4. ServerInv => ConnectionsApart
    BY <1>1, <1>2, <1>3 DEF ConnectionsApart
<1> QED
    BY <1>4, ServerInvariance, PTL

=============================================================================
