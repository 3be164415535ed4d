----------------------------- MODULE PushProofs -----------------------------
(***************************************************************************)
(* For any number of connections, pushes and topics, any size of the pools *)
(* and of the hubs' channels: a push is written at most once to a socket,  *)
(* in the order the hub accepted it, and none is lost to a connection that *)
(* it was for and that stays.                                              *)
(***************************************************************************)
EXTENDS Push, TLAPS

(***************************************************************************)
(* The inductive invariant                                                 *)
(***************************************************************************)
HubKinds == {"alias", "topic"}

\* Whatever names a connection names one that was opened.
Born ==
    /\ \A h \in Hubs, c \in Conns : c \in hubConns[h] => life[c] # "none"
    /\ \A p \in Pushes, c \in Conns : c \in sending[p] => life[c] # "none"
    /\ \A g \in Pushes, c \in Conns : c \in loop[g].left => life[c] # "none"
    /\ \A p \in Pushes, c \in Conns : p \in Range(got[c]) => life[c] # "none"

\* Only a task of a push by alias or topic goes through the hub; only the
\* others call SendRequestBytes.
TaskFits(p) ==
    /\ kind[p] = "none" <=> pc[p] = "none"
    /\ pc[p] \in {"lookup", "closed", "start", "send"} => kind[p] \in HubKinds
    /\ pc[p] \in {"closed", "start", "send"} => ptr[p] \in Hubs
    /\ pc[p] = "range" => kind[p] = "all"
    /\ sending[p] # {} => kind[p] \in {"all", "conn"}
    /\ kind[p] = "all" => sending[p] \subseteq visited[p]

\* A push that its task has put into the channel of kind k of hub h.
Passed(p, k, h) == kind[p] = k /\ pc[p] = "done" /\ ptr[p] = h

\* A goroutine belongs to a hub that is running and delivers what was put
\* into one of its channels.
LoopFits(g) ==
    /\ loop[g].at = "none" => loop[g].hub = NoHub
    /\ loop[g].at # "none" => loop[g].hub \in Hubs /\ running[loop[g].hub]
    /\ loop[g].at = "deliver" =>
         loop[g].msg \in Pushes /\ \E k \in HubKinds : Passed(loop[g].msg, k, loop[g].hub)

\* A hub has at most one goroutine, ever.
SingleLoop ==
    \A g1, g2 \in Pushes :
        loop[g1].hub = loop[g2].hub /\ loop[g1].hub # NoHub => g1 = g2

ChannelFits(h) ==
    /\ IsInjective(broadcast[h]) /\ \A p \in Range(broadcast[h]) : Passed(p, "alias", h)
    /\ IsInjective(topicPush[h]) /\ \A p \in Range(topicPush[h]) : Passed(p, "topic", h)

Waiting(p) == \E h \in Hubs : p \in Range(broadcast[h]) \/ p \in Range(topicPush[h])

\* What a goroutine delivers is in no channel any more.
Taken == \A g \in Pushes : loop[g].at = "deliver" => ~Waiting(loop[g].msg)

\* What a socket got is not in a channel, and neither the goroutine that
\* delivers it nor a task has this socket still to come.
GotFits(p, c) ==
    p \in Range(got[c]) =>
        /\ kind[p] # "none" /\ (kind[p] \in HubKinds => pc[p] = "done")
        /\ ~Waiting(p)
        /\ \A g \in Pushes : loop[g].at = "deliver" /\ loop[g].msg = p => c \notin loop[g].left
        /\ c \notin sending[p] /\ (kind[p] = "all" => c \in visited[p])

\* broadcast holds the last pushes that it accepted, and the goroutine
\* delivers the one right before them.
QueueFits(h) ==
    /\ IsInjective(queued[h]) /\ \A p \in Range(queued[h]) : Passed(p, "alias", h)
    /\ Len(broadcast[h]) <= Len(queued[h])
    /\ \A i \in 1 .. Len(broadcast[h]) :
           broadcast[h][i] = queued[h][Len(queued[h]) - Len(broadcast[h]) + i]
    /\ \A g \in Pushes :
           loop[g].at = "deliver" /\ loop[g].hub = h /\ kind[loop[g].msg] = "alias" =>
               /\ Len(broadcast[h]) < Len(queued[h])
               /\ loop[g].msg = queued[h][Len(queued[h]) - Len(broadcast[h])]

IInv ==
    /\ TypeOK /\ Born
    /\ \A p \in Pushes : TaskFits(p) /\ LoopFits(p)
    /\ SingleLoop
    /\ \A h \in Hubs : ChannelFits(h) /\ QueueFits(h)
    /\ Taken
    /\ \A p \in Pushes, c \in Conns : GotFits(p, c)
    /\ DeliveredOnce /\ HubOrder

(***************************************************************************)
(* The invariant for what may not be lost, on top of IInv                  *)
(***************************************************************************)
Stays(c) == life[c] \in {"inHub", "authed"}

\* The connections of the user are in the hub of the map, which is open; a
\* hub is closed after it was made.
Registry ==
    /\ \A h \in Hubs : hubConns[h] = IF h = aliasHub THEN {c \in Conns : InConnIDs(c)} ELSE {}
    /\ aliasHub = NoHub => \A c \in Conns : ~InConnIDs(c)
    /\ aliasHub # NoHub => ~exit[aliasHub] /\ life[aliasHub] \notin {"none", "open"}
    /\ \A h \in Hubs : exit[h] => life[h] \notin {"none", "open"}

\* A connection in the hub was opened by the time of the subscription to its
\* topic, which the user has.
Subscribed ==
    \A c \in Conns :
        /\ connectTime[c] <= now
        /\ InConnIDs(c) => /\ topicOf[c] \in Topics
                           /\ subscribeTs[topicOf[c]] # 0
                           /\ connectTime[c] <= subscribeTs[topicOf[c]]

\* A running hub has its goroutine, which ends only when the hub is closed.
Served ==
    /\ \A h \in Hubs : running[h] => \E g \in Pushes : loop[g].hub = h
    /\ \A g \in Pushes : loop[g].at = "ended" => exit[loop[g].hub]
    /\ \A g \in Pushes : loop[g].at # "none" => pc[g] \in {"send", "done"}

\* Whom a push is for: connections that stay, and for a topic not newer than
\* the subscription.
DueFits(p) ==
    /\ kind[p] = "none" => due[p] = {} /\ visited[p] = {}
    /\ \A c \in due[p] : Stays(c) /\ (kind[p] = "topic" => connectTime[c] <= info[p])

\* The task of a push before it has done something for connection c.
Ahead(p, c) ==
    \/ pc[p] = "lookup" /\ kind[p] \in HubKinds
    \/ pc[p] \in {"closed", "start"} /\ kind[p] \in HubKinds /\ ptr[p] = aliasHub
    \/ pc[p] = "send" /\ kind[p] \in HubKinds /\ ptr[p] = aliasHub /\ running[ptr[p]]
    \/ pc[p] = "range" /\ c \notin visited[p]

\* The two ways through a hub: its goroutine delivers, or a channel holds.
Comes(g, p, c) == loop[g].at = "deliver" /\ loop[g].msg = p /\ c \in loop[g].left
Waits(g, p, c) ==
    LET h == loop[g].hub IN
    /\ loop[g].at \in {"select", "deliver"} /\ c \in hubConns[h] /\ ~exit[h]
    /\ p \in Range(broadcast[h]) \/ p \in Range(topicPush[h])

\* OnItsWay in these terms.
OnWay(p, c) ==
    \/ p \in Range(got[c]) \/ c \in sending[p]
    \/ \E g \in Pushes : Comes(g, p, c) \/ Waits(g, p, c)

Kept(p, c) ==
    c \in due[p] /\ p \notin cancelled =>
        Ahead(p, c) \/ (pc[p] \in {"range", "done"} /\ OnWay(p, c))

LInv ==
    /\ Registry /\ Subscribed /\ Served
    /\ \A p \in Pushes : DueFits(p)
    /\ \A p \in Pushes, c \in Conns : Kept(p, c)

(***************************************************************************)
(* Sequences                                                               *)
(***************************************************************************)
LEMMA Appended ==
    ASSUME NEW S, NEW s \in Seq(S), NEW e \in S
    PROVE  /\ Append(s, e) \in Seq(S) /\ Len(Append(s, e)) = Len(s) + 1 /\ Len(s) \in Nat
           /\ DOMAIN s = 1 .. Len(s) /\ DOMAIN Append(s, e) = 1 .. Len(s) + 1
           /\ \A i \in 1 .. Len(s) : Append(s, e)[i] = s[i]
           /\ Append(s, e)[Len(s) + 1] = e
OBVIOUS

LEMMA AppendedRange ==
    ASSUME NEW S, NEW s \in Seq(S), NEW e \in S
    PROVE  /\ Range(Append(s, e)) = Range(s) \cup {e}
           /\ IsInjective(s) /\ e \notin Range(s) => IsInjective(Append(s, e))
<1> DEFINE t == Append(s, e)
<1>1. /\ t \in Seq(S) /\ Len(t) = Len(s) + 1 /\ Len(s) \in Nat
      /\ DOMAIN s = 1 .. Len(s) /\ DOMAIN t = 1 .. Len(s) + 1
      /\ \A i \in 1 .. Len(s) : t[i] = s[i]
      /\ t[Len(s) + 1] = e
    OBVIOUS
<1> HIDE DEF t
<1>2. \A i \in 1 .. Len(s) + 1 : i \in 1 .. Len(s) \/ i = Len(s) + 1
    BY <1>1
<1>3. Len(s) + 1 \in 1 .. Len(s) + 1 /\ \A i \in 1 .. Len(s) : i \in 1 .. Len(s) + 1
    BY <1>1
<1>4. Range(t) = Range(s) \cup {e}
    <2>1. ASSUME NEW i \in DOMAIN t PROVE t[i] \in Range(s) \cup {e}
        BY <1>1, <1>2 DEF Range
    <2>2. ASSUME NEW i \in DOMAIN s PROVE s[i] \in Range(t)
        BY <1>1, <1>3 DEF Range
    <2>3. e \in Range(t)
        BY <1>1, <1>3 DEF Range
    <2>4. Range(t) \subseteq Range(s) \cup {e}
        BY <2>1 DEF Range
    <2>5. Range(s) \subseteq Range(t)
        BY <2>2 DEF Range
    <2> QED
        BY <2>3, <2>4, <2>5
<1>5. ASSUME IsInjective(s), e \notin Range(s) PROVE IsInjective(t)
    <2> SUFFICES ASSUME NEW a \in DOMAIN t, NEW b \in DOMAIN t, t[a] = t[b] PROVE a = b
        BY DEF IsInjective
    <2>1. \A i \in 1 .. Len(s) : t[i] # e
        BY <1>1, <1>5 DEF Range
    <2>2. \A i, j \in 1 .. Len(s) : t[i] = t[j] => i = j
        BY <1>1, <1>5 DEF IsInjective
    <2> QED
        BY <1>1, <1>2, <2>1, <2>2
<1> QED
    BY <1>4, <1>5 DEF t

LEMMA Tailed ==
    ASSUME NEW S, NEW s \in Seq(S), s # <<>>, NEW t, t = Tail(s)
    PROVE  /\ t \in Seq(S) /\ Len(t) = Len(s) - 1 /\ Len(s) \in Nat \ {0}
           /\ DOMAIN s = 1 .. Len(s) /\ DOMAIN t = 1 .. Len(s) - 1
           /\ \A i \in 1 .. Len(s) - 1 : t[i] = s[i + 1]
           /\ Head(s) = s[1] /\ Head(s) \in S
           /\ Range(t) \subseteq Range(s) /\ Head(s) \in Range(s)
           /\ IsInjective(s) => IsInjective(t) /\ Head(s) \notin Range(t)
<1>1. /\ t \in Seq(S) /\ Len(t) = Len(s) - 1 /\ Len(s) \in Nat \ {0}
      /\ DOMAIN s = 1 .. Len(s) /\ DOMAIN t = 1 .. Len(s) - 1
      /\ Head(s) = s[1]
    OBVIOUS
<1>2. \A i \in 1 .. Len(s) - 1 : t[i] = s[i + 1]
    OBVIOUS
<1>3. 1 \in 1 .. Len(s) /\ \A i \in 1 .. Len(s) - 1 : i + 1 \in 1 .. Len(s) /\ i + 1 # 1
    BY <1>1
<1>4. Head(s) \in S
    OBVIOUS
<1>5. Range(t) \subseteq Range(s) /\ Head(s) \in Range(s)
    BY <1>1, <1>2, <1>3 DEF Range
<1>6. ASSUME IsInjective(s) PROVE IsInjective(t) /\ Head(s) \notin Range(t)
    <2>1. ASSUME NEW a \in DOMAIN t, NEW b \in DOMAIN t, t[a] = t[b] PROVE a = b
        <3>1. s[a + 1] = s[b + 1] /\ a + 1 \in DOMAIN s /\ b + 1 \in DOMAIN s
            BY <1>1, <1>2, <1>3, <2>1
        <3>2. a + 1 = b + 1
            BY <1>6, <3>1 DEF IsInjective
        <3> QED
            BY <3>2, <1>1
    <2>2. ASSUME NEW a \in DOMAIN t, t[a] = s[1] PROVE FALSE
        <3>1. s[a + 1] = s[1] /\ a + 1 \in DOMAIN s /\ 1 \in DOMAIN s /\ a + 1 # 1
            BY <1>1, <1>2, <1>3, <2>2
        <3> QED
            BY <1>6, <3>1 DEF IsInjective
    <2> QED
        BY <1>1, <2>1, <2>2 DEF IsInjective, Range
<1> QED
    BY <1>1, <1>2, <1>4, <1>5, <1>6

(***************************************************************************)
(* Types                                                                   *)
(***************************************************************************)
Loops == [at : {"none", "select", "deliver", "ended"}, hub : Hubs \cup {NoHub},
          msg : Pushes \cup {NoPush}, left : SUBSET Conns]

LEMMA ChannelTypes ==
    ASSUME TypeOK, NEW h \in Hubs
    PROVE  /\ broadcast[h] \in Seq(Pushes) /\ Len(broadcast[h]) <= HubCap
           /\ topicPush[h] \in Seq(Pushes) /\ Len(topicPush[h]) <= HubCap
           /\ queued[h] \in Seq(Pushes)
BY DEF TypeOK, BoundedSeq

\* Sent appends, to one connection at most.
LEMMA SentDoes ==
    ASSUME TypeOK, NEW p \in Pushes, NEW c \in Conns, Sent(p, c)
    PROVE  /\ got' \in [Conns -> Seq(Pushes)]
           /\ \A d \in Conns \ {c} : got'[d] = got[d]
           /\ got'[c] = got[c] \/ got'[c] = Append(got[c], p)
BY DEF TypeOK, Sent

LEMMA LoopSet ==
    ASSUME NEW old \in [Pushes -> Loops], NEW g \in Pushes, NEW r \in Loops
    PROVE  /\ [old EXCEPT ![g] = r] \in [Pushes -> Loops]
           /\ [old EXCEPT ![g] = r][g] = r
           /\ \A u \in Pushes \ {g} : [old EXCEPT ![g] = r][u] = old[u]
OBVIOUS

LEMMA LoopTyped ==
    ASSUME TypeOK
    PROVE  loop \in [Pushes -> Loops] /\ \A g \in Pushes : loop[g] \in Loops
BY DEF TypeOK, Loops

\* A goroutine takes a message: for nobody, or for all that are in the hub.
LEMMA TakeDoes ==
    ASSUME TypeOK, NEW g \in Pushes, LoopFits(g),
           NEW ch, ch \in [Hubs -> BoundedSeq(Pushes)], Take(g, ch)
    PROVE  /\ loop[g].at = "select" /\ loop[g].hub \in Hubs
           /\ ch[loop[g].hub] # <<>> /\ Head(ch[loop[g].hub]) \in Pushes
           /\ loop' \in [Pushes -> Loops]
           /\ \A u \in Pushes : loop'[u].hub = loop[u].hub
           /\ \A u \in Pushes \ {g} : loop'[u] = loop[u]
           /\ \/ loop'[g] = loop[g] /\ hubConns[loop[g].hub] = {}
              \/ /\ loop'[g].at = "deliver" /\ loop'[g].msg = Head(ch[loop[g].hub])
                 /\ loop'[g].left = hubConns[loop[g].hub]
<1>1. PICK h : h = loop[g].hub
    OBVIOUS
<1>2. loop[g].at = "select" /\ h \in Hubs /\ ch[h] # <<>>
    BY <1>1 DEF Take, LoopFits
<1>3. Head(ch[h]) \in Pushes /\ hubConns[h] \in SUBSET Conns
    <2>1. ch[h] \in Seq(Pushes)
        BY <1>2 DEF BoundedSeq
    <2>2. Head(ch[h]) \in Pushes
        BY <1>2, <2>1, Tailed
    <2>3. hubConns \in [Hubs -> SUBSET Conns]
        BY DEF TypeOK
    <2> QED
        BY <1>2, <2>2, <2>3
<1> DEFINE r == [loop[g] EXCEPT !.at = "deliver", !.msg = Head(ch[h]), !.left = hubConns[h]]
<1>4. loop \in [Pushes -> Loops] /\ loop[g] \in Loops
    BY LoopTyped
<1>5. /\ r \in Loops /\ r.hub = h
      /\ r.at = "deliver" /\ r.msg = Head(ch[h]) /\ r.left = hubConns[h]
    BY <1>1, <1>3, <1>4 DEF Loops
<1>6. (loop' = loop /\ hubConns[h] = {}) \/ loop' = [loop EXCEPT ![g] = r]
    <2>1. CASE hubConns[h] = {}
        BY <1>1, <1>4, <2>1 DEF Take
    <2>2. CASE hubConns[h] # {}
        BY <1>1, <1>4, <2>2 DEF Take
    <2> QED
        BY <2>1, <2>2
<1> HIDE DEF r
<1>7. CASE loop' = loop /\ hubConns[h] = {}
    BY <1>1, <1>2, <1>3, <1>4, <1>7
<1>8. CASE loop' = [loop EXCEPT ![g] = r]
    <2>1. /\ loop' \in [Pushes -> Loops] /\ loop'[g] = r
          /\ \A u \in Pushes \ {g} : loop'[u] = loop[u]
        BY <1>4, <1>5, <1>8, LoopSet
    <2> QED
        BY <1>1, <1>2, <1>3, <1>5, <2>1
<1> QED
    BY <1>6, <1>7, <1>8

\* A goroutine sends to one connection, perhaps the last for its message.
LEMMA LoopSendDoes ==
    ASSUME TypeOK, NEW g \in Pushes, LoopFits(g), NEW c \in Conns, LoopSend(g, c)
    PROVE  /\ loop[g].at = "deliver" /\ c \in loop[g].left /\ loop[g].msg \in Pushes
           /\ loop' \in [Pushes -> Loops]
           /\ \A u \in Pushes : loop'[u].hub = loop[u].hub
           /\ \A u \in Pushes \ {g} : loop'[u] = loop[u]
           /\ \/ /\ loop'[g].at = "deliver" /\ loop'[g].msg = loop[g].msg
                 /\ loop'[g].left = loop[g].left \ {c}
              \/ loop'[g].at = "select" /\ loop'[g].left = {} /\ loop[g].left = {c}
           /\ got' \in [Conns -> Seq(Pushes)]
           /\ \A d \in Conns \ {c} : got'[d] = got[d]
           /\ \/ got'[c] = got[c]
              \/ got'[c] = Append(got[c], loop[g].msg) /\ ~TopicSkips(loop[g].msg, c)
<1>1. loop[g].at = "deliver" /\ c \in loop[g].left /\ loop[g].msg \in Pushes
    BY DEF LoopSend, LoopFits
<1>2. loop \in [Pushes -> Loops] /\ loop[g] \in Loops
    BY LoopTyped
<1> DEFINE r == [loop[g] EXCEPT !.left = loop[g].left \ {c}]
           s == [Idle EXCEPT !.at = "select", !.hub = loop[g].hub]
<1>3. /\ r \in Loops /\ r.hub = loop[g].hub /\ r.at = "deliver" /\ r.msg = loop[g].msg
      /\ r.left = loop[g].left \ {c}
    BY <1>1, <1>2 DEF Loops
<1>4. s \in Loops /\ s.hub = loop[g].hub /\ s.at = "select" /\ s.left = {}
    BY <1>2 DEF Loops, Idle
<1> DEFINE last == loop[g].left = {c}
           stay == loop' = [loop EXCEPT ![g] = r]
           rest == loop' = [loop EXCEPT ![g] = s]
<1>5. stay \/ (rest /\ last)
    <2>1. ASSUME ~last PROVE stay
        BY <1>2, <2>1 DEF LoopSend
    <2>2. ASSUME last PROVE rest
        BY <1>2, <2>2 DEF LoopSend
    <2> HIDE DEF last, stay, rest
    <2> QED
        BY <2>1, <2>2
<1>6. /\ got' \in [Conns -> Seq(Pushes)]
      /\ \A d \in Conns \ {c} : got'[d] = got[d]
      /\ \/ got'[c] = got[c]
         \/ got'[c] = Append(got[c], loop[g].msg) /\ ~TopicSkips(loop[g].msg, c)
    <2>1. CASE TopicSkips(loop[g].msg, c)
        BY <2>1 DEF LoopSend, TypeOK
    <2>2. CASE ~TopicSkips(loop[g].msg, c)
        BY <1>1, <2>2, SentDoes DEF LoopSend
    <2> QED
        BY <2>1, <2>2
<1> HIDE DEF r, s
<1>7. /\ loop' \in [Pushes -> Loops] /\ (loop'[g] = r \/ (loop'[g] = s /\ last))
      /\ \A u \in Pushes \ {g} : loop'[u] = loop[u]
    <2> HIDE DEF last
    <2>1. CASE stay
        BY <1>2, <1>3, <2>1, LoopSet
    <2>2. CASE rest /\ last
        BY <1>2, <1>4, <2>2, LoopSet
    <2> QED
        BY <1>5, <2>1, <2>2
<1> QED
    BY <1>1, <1>3, <1>4, <1>6, <1>7

LEMMA LoopExitDoes ==
    ASSUME TypeOK, NEW g \in Pushes, LoopExit(g)
    PROVE  /\ loop' \in [Pushes -> Loops]
           /\ \A u \in Pushes \ {g} : loop'[u] = loop[u]
           /\ loop[g].at = "select" /\ loop'[g].at = "ended"
           /\ loop'[g].hub = loop[g].hub /\ loop'[g].left = loop[g].left
<1>1. loop \in [Pushes -> Loops] /\ loop[g] \in Loops
    BY LoopTyped
<1> DEFINE r == [loop[g] EXCEPT !.at = "ended"]
<1>2. r \in Loops /\ r.at = "ended" /\ r.hub = loop[g].hub /\ r.left = loop[g].left
    BY <1>1 DEF Loops
<1>3. loop' = [loop EXCEPT ![g] = r] /\ loop[g].at = "select"
    BY <1>1 DEF LoopExit
<1> HIDE DEF r
<1> QED
    BY <1>1, <1>2, <1>3, LoopSet

\* The task of a push starts the goroutine of a hub that is not running.
LEMMA TaskStartDoes ==
    ASSUME TypeOK, NEW p \in Pushes, TaskFits(p), TaskStart(p)
    PROVE  /\ pc[p] = "start" /\ ptr[p] \in Hubs
           /\ running' = [running EXCEPT ![ptr[p]] = TRUE]
           /\ loop' \in [Pushes -> Loops]
           /\ \A u \in Pushes \ {p} : loop'[u] = loop[u]
           /\ \/ running[ptr[p]] /\ loop'[p] = loop[p]
              \/ /\ ~running[ptr[p]] /\ loop'[p].at = "select"
                 /\ loop'[p].hub = ptr[p] /\ loop'[p].left = {}
<1>1. pc[p] = "start" /\ ptr[p] \in Hubs /\ running' = [running EXCEPT ![ptr[p]] = TRUE]
    BY DEF TaskStart, Task, TaskFits
<1>2. loop \in [Pushes -> Loops]
    BY LoopTyped
<1> DEFINE r == [Idle EXCEPT !.at = "select", !.hub = ptr[p]]
<1>3. r \in Loops /\ r.at = "select" /\ r.hub = ptr[p] /\ r.left = {}
    BY <1>1 DEF Loops, Idle
<1>4. \/ loop' = loop /\ running[ptr[p]]
      \/ loop' = [loop EXCEPT ![p] = r] /\ ~running[ptr[p]]
    <2>1. CASE running[ptr[p]]
        BY <1>2, <2>1 DEF TaskStart, Starts
    <2>2. CASE ~running[ptr[p]]
        BY <1>2, <2>2 DEF TaskStart, Starts
    <2> QED
        BY <2>1, <2>2
<1> HIDE DEF r
<1> QED
    BY <1>1, <1>2, <1>3, <1>4, LoopSet

\* The task of a push puts it into the channel of its kind.
LEMMA TaskEnqueueDoes ==
    ASSUME TypeOK, NEW p \in Pushes, TaskFits(p), TaskEnqueue(p)
    PROVE  /\ pc[p] = "send" /\ ptr[p] \in Hubs /\ pc' = [pc EXCEPT ![p] = "done"]
           /\ \/ /\ kind[p] = "alias" /\ Room(broadcast[ptr[p]]) /\ topicPush' = topicPush
                 /\ broadcast' = [broadcast EXCEPT ![ptr[p]] = Append(broadcast[ptr[p]], p)]
                 /\ queued' = [queued EXCEPT ![ptr[p]] = Append(queued[ptr[p]], p)]
              \/ /\ kind[p] = "topic" /\ Room(topicPush[ptr[p]])
                 /\ broadcast' = broadcast /\ queued' = queued
                 /\ topicPush' = [topicPush EXCEPT ![ptr[p]] = Append(topicPush[ptr[p]], p)]
<1>1. pc[p] = "send" /\ ptr[p] \in Hubs /\ kind[p] \in HubKinds /\ pc' = [pc EXCEPT ![p] = "done"]
    BY DEF TaskEnqueue, Task, TaskFits
<1>2. CASE kind[p] = "alias"
    BY <1>1, <1>2 DEF TaskEnqueue
<1>3. CASE kind[p] = "topic"
    BY <1>1, <1>3 DEF TaskEnqueue
<1> QED
    BY <1>1, <1>2, <1>3 DEF HubKinds

LEMMA ConnTypes ==
    ASSUME TypeOK, NEW c \in Conns, ConnStep(c)
    PROVE  TypeOK'
<1> USE ConstantsAssumption DEF TypeOK, hub, conn, task, Lives, Hubs
<1>1. CASE OnOpened(c)
    BY <1>1 DEF OnOpened, Step
<1>2. ASSUME NEW t \in Topics, AddAliasConn(c, t) PROVE TypeOK'
    <2>1. PICK h \in Hubs : h = IF aliasHub = NoHub THEN c ELSE aliasHub
        OBVIOUS
    <2> QED
        BY <1>2, <2>1 DEF AddAliasConn, Step
<1>3. CASE AddConn(c)
    BY <1>3 DEF AddConn, Step
<1>6. CASE RemoveConn(c)
    BY <1>6 DEF RemoveConn, Step
<1>4. CASE Exit(c)
    BY <1>4 DEF Exit, Step
<1>5. CASE RemoveAliasConn(c)
    <2>1. CASE aliasHub = NoHub
        BY <1>5, <2>1 DEF RemoveAliasConn, Step
    <2>2. CASE aliasHub # NoHub
        <3>1. PICK h \in Hubs : h = aliasHub
            BY <2>2
        <3>2. life' \in [Conns -> Lives]
            BY <1>5 DEF RemoveAliasConn, Step
        <3>6. hubConns' = [hubConns EXCEPT ![h] = hubConns[h] \ {c}]
            BY <1>5, <2>2, <3>1 DEF RemoveAliasConn
        <3>7. hubConns' \in [Hubs -> SUBSET Conns]
            BY <3>6
        <3>3. exit' \in [Hubs -> BOOLEAN] /\ aliasHub' \in Hubs \cup {NoHub}
            BY <1>5, <2>2, <3>1 DEF RemoveAliasConn, CloseHub
        <3>4. topicSet' \in [Hubs -> SUBSET Topics]
            BY <1>5, <2>2, <3>1 DEF RemoveAliasConn
        <3>5. subscribeTs' \in [Topics -> 0..MaxTime]
            BY <1>5, <2>2, <3>1 DEF RemoveAliasConn
        <3> QED
            BY <1>5, <3>2, <3>3, <3>4, <3>5, <3>7 DEF RemoveAliasConn, Step
    <2> QED
        BY <2>1, <2>2
<1> QED
    BY <1>1, <1>2, <1>3, <1>4, <1>5, <1>6 DEF ConnStep

LEMMA HandlerTypes ==
    ASSUME TypeOK, NEW p \in Pushes, Handler(p)
    PROVE  TypeOK'
<1> USE ConstantsAssumption DEF TypeOK, hub, conn, task, Hubs
<1>1. CASE PushByAliasMessageHandler(p)
    BY <1>1 DEF PushByAliasMessageHandler, Handled
<1>2. ASSUME NEW t \in Topics, PushByTopicMessageHandler(p, t) PROVE TypeOK'
    BY <1>2 DEF PushByTopicMessageHandler, Handled
<1>3. CASE PushAllMessageHandler(p)
    BY <1>3 DEF PushAllMessageHandler, Handled
<1>4. ASSUME NEW c \in Conns, SendMessage(p, c) PROVE TypeOK'
    BY <1>4 DEF SendMessage, Handled
<1>5. CASE Cancel(p)
    BY <1>5 DEF Cancel
<1>6. ASSUME NEW k \in KindsOf[p], HandlerRefuses(p, k) PROVE TypeOK'
    BY <1>6 DEF HandlerRefuses, Handled
<1> QED
    BY <1>1, <1>2, <1>3, <1>4, <1>5, <1>6 DEF Handler

LEMMA TaskTypes ==
    ASSUME TypeOK, NEW p \in Pushes, TaskFits(p), TaskStep(p)
    PROVE  TypeOK'
<1> USE ConstantsAssumption DEF TypeOK, hub, conn, task
<1>1. CASE TaskLookup(p)
    BY <1>1 DEF TaskLookup, Task
<1>2. CASE TaskClosed(p)
    BY <1>2 DEF TaskClosed, Task
<1>3. CASE TaskStart(p)
    <2>1. loop' \in [Pushes -> Loops] /\ ptr[p] \in Hubs
        BY <1>3, TaskStartDoes
    <2> QED
        BY <1>3, <2>1 DEF TaskStart, Task, Loops
<1>4. CASE TaskEnqueue(p)
    <2>1. PICK h \in Hubs : h = ptr[p]
        BY <1>4, TaskEnqueueDoes
    <2>2. ASSUME NEW s \in BoundedSeq(Pushes), Room(s) PROVE Append(s, p) \in BoundedSeq(Pushes)
        BY <2>2 DEF BoundedSeq, Room
    <2>3. ASSUME NEW s \in Seq(Pushes) PROVE Append(s, p) \in Seq(Pushes)
        OBVIOUS
    <2>4. \/ broadcast' = broadcast
          \/ broadcast' = [broadcast EXCEPT ![h] = Append(broadcast[h], p)] /\ Room(broadcast[h])
        BY <1>4, <2>1, TaskEnqueueDoes
    <2>5. \/ topicPush' = topicPush
          \/ topicPush' = [topicPush EXCEPT ![h] = Append(topicPush[h], p)] /\ Room(topicPush[h])
        BY <1>4, <2>1, TaskEnqueueDoes
    <2>6. queued' = queued \/ queued' = [queued EXCEPT ![h] = Append(queued[h], p)]
        BY <1>4, <2>1, TaskEnqueueDoes
    <2>11. broadcast[h] \in BoundedSeq(Pushes) /\ topicPush[h] \in BoundedSeq(Pushes) /\ queued[h] \in Seq(Pushes)
        OBVIOUS
    <2>7. broadcast' \in [Hubs -> BoundedSeq(Pushes)]
        <3>1. Room(broadcast[h]) => Append(broadcast[h], p) \in BoundedSeq(Pushes)
            BY <2>2, <2>11
        <3>2. broadcast \in [Hubs -> BoundedSeq(Pushes)]
            OBVIOUS
        <3> QED
            BY ONLY <3>1, <3>2, <2>4
    <2>8. topicPush' \in [Hubs -> BoundedSeq(Pushes)]
        <3>1. Room(topicPush[h]) => Append(topicPush[h], p) \in BoundedSeq(Pushes)
            BY <2>2, <2>11
        <3>2. topicPush \in [Hubs -> BoundedSeq(Pushes)]
            OBVIOUS
        <3> QED
            BY ONLY <3>1, <3>2, <2>5
    <2>9. queued' \in [Hubs -> Seq(Pushes)]
        <3>1. Append(queued[h], p) \in Seq(Pushes)
            BY <2>3, <2>11
        <3>2. queued \in [Hubs -> Seq(Pushes)]
            OBVIOUS
        <3> QED
            BY ONLY <3>1, <3>2, <2>6
    <2>10. pc' \in [Pushes -> {"none", "lookup", "closed", "start", "send", "range", "done"}]
        BY <1>4 DEF TaskEnqueue, Task
    <2> QED
        BY <1>4, <2>7, <2>8, <2>9, <2>10 DEF TaskEnqueue, Task
<1>5. CASE TaskGivesUp(p)
    BY <1>5 DEF TaskGivesUp, Task
<1>6. ASSUME NEW c \in Conns, RangeVisit(p, c) PROVE TypeOK'
    BY <1>6 DEF RangeVisit
<1>7. ASSUME NEW c \in Conns, SendRequestBytes(p, c) PROVE TypeOK'
    <2>1. got' \in [Conns -> Seq(Pushes)]
        BY <1>7, SentDoes DEF SendRequestBytes
    <2> QED
        BY <1>7, <2>1 DEF SendRequestBytes
<1>8. CASE RangeEnd(p)
    BY <1>8 DEF RangeEnd
<1> QED
    BY <1>1, <1>2, <1>3, <1>4, <1>5, <1>6, <1>7, <1>8 DEF TaskStep

LEMMA LoopTypes ==
    ASSUME TypeOK, NEW g \in Pushes, LoopFits(g), LoopStep(g)
    PROVE  TypeOK'
<1> USE ConstantsAssumption DEF hub, conn, task, LoopRest
<1>1. broadcast \in [Hubs -> BoundedSeq(Pushes)] /\ topicPush \in [Hubs -> BoundedSeq(Pushes)]
    BY DEF TypeOK
<1>2. ASSUME NEW ch \in [Hubs -> BoundedSeq(Pushes)], NEW h \in Hubs, ch[h] # <<>>
      PROVE  [ch EXCEPT ![h] = Tail(ch[h])] \in [Hubs -> BoundedSeq(Pushes)]
    <2>1. ch[h] \in Seq(Pushes) /\ Len(ch[h]) <= HubCap
        BY <1>2 DEF BoundedSeq
    <2>2. /\ Len(Tail(ch[h])) = Len(ch[h]) - 1 /\ Tail(ch[h]) \in Seq(Pushes)
          /\ Len(ch[h]) \in Nat
        BY <1>2, <2>1, Tailed
    <2>3. Tail(ch[h]) \in BoundedSeq(Pushes)
        BY <2>1, <2>2 DEF BoundedSeq
    <2> QED
        BY <2>3
<1>3. CASE LoopBroadcast(g)
    <2>1. /\ loop[g].hub \in Hubs /\ broadcast[loop[g].hub] # <<>>
          /\ loop' \in [Pushes -> Loops]
        BY <1>1, <1>3, TakeDoes DEF LoopBroadcast
    <2>2. broadcast' \in [Hubs -> BoundedSeq(Pushes)]
        BY <1>1, <1>2, <1>3, <2>1 DEF LoopBroadcast
    <2> QED
        BY <1>3, <2>1, <2>2 DEF LoopBroadcast, Loops, TypeOK
<1>4. CASE LoopTopic(g)
    <2>1. /\ loop[g].hub \in Hubs /\ topicPush[loop[g].hub] # <<>>
          /\ loop' \in [Pushes -> Loops]
        BY <1>1, <1>4, TakeDoes DEF LoopTopic
    <2>2. topicPush' \in [Hubs -> BoundedSeq(Pushes)]
        BY <1>1, <1>2, <1>4, <2>1 DEF LoopTopic
    <2> QED
        BY <1>4, <2>1, <2>2 DEF LoopTopic, Loops, TypeOK
<1>5. CASE LoopExit(g)
    <2>1. loop' \in [Pushes -> Loops]
        BY <1>5, LoopExitDoes
    <2> QED
        BY <1>5, <2>1 DEF LoopExit, Loops, TypeOK
<1>6. ASSUME NEW c \in Conns, LoopSend(g, c) PROVE TypeOK'
    <2>1. loop' \in [Pushes -> Loops] /\ got' \in [Conns -> Seq(Pushes)]
        BY <1>6, LoopSendDoes
    <2> QED
        BY <1>6, <2>1 DEF LoopSend, Loops, TypeOK
<1> QED
    BY <1>3, <1>4, <1>5, <1>6 DEF LoopStep

LEMMA NextTypes ==
    ASSUME IInv, [Next]_vars
    PROVE  TypeOK'
<1>1. CASE Tick
    BY <1>1, ConstantsAssumption DEF Tick, IInv, TypeOK, hub, conn, task
<1>2. ASSUME NEW c \in Conns, ConnStep(c) PROVE TypeOK'
    BY <1>2, ConnTypes DEF IInv
<1>3. ASSUME NEW p \in Pushes, Handler(p) \/ TaskStep(p) \/ LoopStep(p) PROVE TypeOK'
    BY <1>3, HandlerTypes, TaskTypes, LoopTypes DEF IInv
<1>4. CASE UNCHANGED vars
    BY <1>4 DEF vars, IInv, TypeOK, hub, conn, task
<1> QED
    BY <1>1, <1>2, <1>3, <1>4 DEF Next

(***************************************************************************)
(* Tasks                                                                   *)
(***************************************************************************)
\* Connections come and go without touching tasks, channels and goroutines.
LEMMA ConnRest ==
    ASSUME NEW c \in Conns, ConnStep(c)
    PROVE  UNCHANGED <<kind, pc, ptr, info, visited, sending, loop, got, queued,
                       broadcast, topicPush, running>>
BY DEF ConnStep, OnOpened, AddAliasConn, AddConn, Exit, RemoveAliasConn, RemoveConn, Step, hub, task

LEMMA TickRest ==
    ASSUME Tick \/ UNCHANGED vars
    PROVE  UNCHANGED <<kind, pc, ptr, info, visited, sending, loop, got, queued,
                       broadcast, topicPush, running, life, connectTime, hubConns>>
BY DEF Tick, vars, hub, task, conn

\* A handler is called once for a push and touches nothing but its task.
LEMMA HandlerDoes ==
    ASSUME TypeOK, NEW p \in Pushes, Handler(p)
    PROVE  /\ UNCHANGED <<life, connectTime, hubConns, running, broadcast, topicPush, ptr, loop, got, queued>>
           /\ \A q \in Pushes \ {p} : /\ kind'[q] = kind[q] /\ pc'[q] = pc[q] /\ info'[q] = info[q]
                                      /\ visited'[q] = visited[q] /\ sending'[q] = sending[q]
           /\ \/ UNCHANGED <<kind, pc, info, visited, sending>>
              \/ /\ kind[p] = "none" /\ visited' = visited
                 /\ \/ kind'[p] = "alias" /\ pc'[p] = "lookup" /\ sending'[p] = sending[p]
                    \/ kind'[p] = "topic" /\ pc'[p] \in {"lookup", "done"} /\ sending'[p] = sending[p]
                    \/ kind'[p] = "all" /\ pc'[p] = "range" /\ sending'[p] = sending[p]
                    \/ /\ kind'[p] \in {"alias", "topic", "all"} /\ pc'[p] = "done"
                       /\ sending'[p] = sending[p]
                    \/ /\ kind'[p] = "conn" /\ pc'[p] = "done"
                       /\ \A c \in sending'[p] : c \in Conns /\ InConnIDs(c)
<1> USE DEF hub, conn, task
<1>t. /\ kind \in [Pushes -> {"none", "alias", "topic", "all", "conn"}]
      /\ pc \in [Pushes -> {"none", "lookup", "closed", "start", "send", "range", "done"}]
      /\ info \in [Pushes -> 0..MaxTime]
      /\ visited \in [Pushes -> SUBSET Conns] /\ sending \in [Pushes -> SUBSET Conns]
    BY DEF TypeOK
<1>1. CASE PushByAliasMessageHandler(p)
    BY <1>t, <1>1 DEF PushByAliasMessageHandler, Handled
<1>2. ASSUME NEW t \in Topics, PushByTopicMessageHandler(p, t)
      PROVE  /\ UNCHANGED <<life, connectTime, hubConns, running, broadcast, topicPush, ptr, loop, got, queued>>
             /\ \A q \in Pushes \ {p} : kind'[q] = kind[q] /\ pc'[q] = pc[q] /\ info'[q] = info[q]
             /\ UNCHANGED <<visited, sending>>
             /\ kind[p] = "none" /\ kind'[p] = "topic" /\ pc'[p] \in {"lookup", "done"}
    BY <1>t, <1>2 DEF PushByTopicMessageHandler, Handled
<1>3. CASE PushAllMessageHandler(p)
    BY <1>t, <1>3 DEF PushAllMessageHandler, Handled
<1>4. ASSUME NEW c \in Conns, SendMessage(p, c)
      PROVE  /\ UNCHANGED <<life, connectTime, hubConns, running, broadcast, topicPush, ptr, loop, got, queued>>
             /\ \A q \in Pushes \ {p} : kind'[q] = kind[q] /\ pc'[q] = pc[q] /\ sending'[q] = sending[q]
             /\ UNCHANGED <<visited, info>>
             /\ kind[p] = "none" /\ kind'[p] = "conn" /\ pc'[p] = "done"
             /\ \A d \in sending'[p] : d \in Conns /\ InConnIDs(d)
    BY <1>t, <1>4 DEF SendMessage, Handled
<1>5. CASE Cancel(p)
    BY <1>5 DEF Cancel
<1>6. CASE \E t \in Topics : PushByTopicMessageHandler(p, t)
    BY <1>2, <1>6
<1>7. CASE \E c \in Conns : SendMessage(p, c)
    BY <1>4, <1>7
<1>8. CASE \E k \in KindsOf[p] : HandlerRefuses(p, k)
    BY <1>t, <1>8 DEF HandlerRefuses, Handled
<1> QED
    BY <1>1, <1>3, <1>5, <1>6, <1>7, <1>8 DEF Handler

\* What the steps of a task leave alone, and how they move it.
LEMMA TaskDoes ==
    ASSUME TypeOK, NEW p \in Pushes, TaskStep(p)
    PROVE  /\ UNCHANGED <<life, connectTime, hubConns, kind, info>>
           /\ \A q \in Pushes \ {p} : /\ pc'[q] = pc[q] /\ ptr'[q] = ptr[q]
                                      /\ visited'[q] = visited[q] /\ sending'[q] = sending[q]
           /\ \/ pc'[p] = pc[p] /\ ptr' = ptr
              \/ /\ pc[p] = "lookup" /\ UNCHANGED <<visited, sending>>
                 /\ pc'[p] \in {"closed", "done"} /\ (pc'[p] = "closed" => ptr'[p] \in Hubs)
              \/ /\ pc[p] = "closed" /\ ptr' = ptr /\ UNCHANGED <<visited, sending>>
                 /\ pc'[p] \in {"start", "done"}
              \/ /\ pc[p] = "start" /\ ptr' = ptr /\ pc'[p] = "send" /\ UNCHANGED <<visited, sending>>
              \/ /\ pc[p] = "send" /\ ptr' = ptr /\ pc'[p] = "done" /\ UNCHANGED <<visited, sending>>
              \/ /\ pc[p] = "range" /\ ptr' = ptr /\ pc'[p] = "done" /\ UNCHANGED <<visited, sending>>
           /\ \/ UNCHANGED <<visited, sending>>
              \/ \E c \in Conns : RangeVisit(p, c) \/ SendRequestBytes(p, c)
<1> USE DEF hub, conn, task
<1>t. /\ pc \in [Pushes -> {"none", "lookup", "closed", "start", "send", "range", "done"}]
      /\ ptr \in [Pushes -> Hubs \cup {NoHub}] /\ aliasHub \in Hubs \cup {NoHub}
      /\ visited \in [Pushes -> SUBSET Conns] /\ sending \in [Pushes -> SUBSET Conns]
    BY DEF TypeOK
<1>1. CASE TaskLookup(p)
    BY <1>t, <1>1 DEF TaskLookup, Task
<1>2. CASE TaskClosed(p)
    BY <1>t, <1>2 DEF TaskClosed, Task
<1>3. CASE TaskStart(p)
    BY <1>t, <1>3 DEF TaskStart, Task
<1>4. CASE TaskEnqueue(p)
    BY <1>t, <1>4 DEF TaskEnqueue, Task
<1>5. CASE TaskGivesUp(p)
    BY <1>t, <1>5 DEF TaskGivesUp, Task
<1>6. ASSUME NEW c \in Conns, RangeVisit(p, c) \/ SendRequestBytes(p, c)
      PROVE  /\ UNCHANGED <<life, connectTime, hubConns, kind, info, pc, ptr>>
             /\ \A q \in Pushes \ {p} : visited'[q] = visited[q] /\ sending'[q] = sending[q]
    BY <1>t, <1>6 DEF RangeVisit, SendRequestBytes
<1>7. CASE RangeEnd(p)
    BY <1>t, <1>7 DEF RangeEnd
<1>8. CASE \E c \in Conns : RangeVisit(p, c) \/ SendRequestBytes(p, c)
    BY <1>6, <1>8
<1> QED
    BY <1>1, <1>2, <1>3, <1>4, <1>5, <1>7, <1>8 DEF TaskStep

LEMMA LoopRests ==
    ASSUME NEW g \in Pushes, LoopStep(g)
    PROVE  UNCHANGED <<life, connectTime, hubConns, running, kind, pc, ptr, info, visited, sending, queued>>
BY DEF LoopStep, LoopBroadcast, LoopTopic, LoopSend, LoopExit, LoopRest, conn, task

\* A push keeps its kind, and one that has left its task stays where it is.
PushStays(p) ==
    kind[p] # "none" =>
        /\ kind'[p] = kind[p] /\ info'[p] = info[p]
        /\ pc[p] = "done" => pc'[p] = "done" /\ ptr'[p] = ptr[p]

LEMMA NextTasks ==
    ASSUME IInv, [Next]_vars
    PROVE  \A p \in Pushes : TaskFits(p)' /\ PushStays(p)
<1> SUFFICES ASSUME NEW p \in Pushes PROVE TaskFits(p)' /\ PushStays(p)
    OBVIOUS
<1>0. TaskFits(p) /\ TypeOK
    BY DEF IInv
<1>1. ASSUME UNCHANGED <<kind, pc, ptr, info, visited, sending>> PROVE TaskFits(p)' /\ PushStays(p)
    BY <1>0, <1>1 DEF TaskFits, PushStays
<1>2. ASSUME NEW q \in Pushes, Handler(q) PROVE TaskFits(p)' /\ PushStays(p)
    <2>1. CASE q = p
        BY <1>0, <1>2, <2>1, HandlerDoes DEF TaskFits, PushStays, HubKinds
    <2>2. CASE q # p
        BY <1>0, <1>2, <2>2, HandlerDoes DEF TaskFits, PushStays
    <2> QED
        BY <2>1, <2>2
<1>3. ASSUME NEW q \in Pushes, TaskStep(q) PROVE TaskFits(p)' /\ PushStays(p)
    <2>1. CASE q # p
        BY <1>0, <1>3, <2>1, TaskDoes DEF TaskFits, PushStays
    <2>2. CASE q = p /\ UNCHANGED <<visited, sending>>
        BY <1>0, <1>3, <2>2, TaskDoes DEF TaskFits, PushStays
    <2>3. ASSUME q = p, NEW c \in Conns, RangeVisit(p, c) \/ SendRequestBytes(p, c)
          PROVE  TaskFits(p)' /\ PushStays(p)
        <3>1. visited \in [Pushes -> SUBSET Conns] /\ sending \in [Pushes -> SUBSET Conns]
            BY <1>0 DEF TypeOK
        <3>2. UNCHANGED <<kind, pc, ptr, info>>
            BY <2>3 DEF RangeVisit, SendRequestBytes
        <3>3. \/ /\ kind[p] = "all" /\ visited'[p] = visited[p] \cup {c} /\ sending'[p] = sending[p] \cup {c}
              \/ visited' = visited /\ sending'[p] = sending[p] \ {c}
            BY <2>3, <3>1, <1>0 DEF RangeVisit, SendRequestBytes, TaskFits
        <3> QED
            BY <1>0, <3>2, <3>3 DEF TaskFits, PushStays
    <2> QED
        BY <1>0, <1>3, <2>1, <2>2, <2>3, TaskDoes
<1> QED
    BY <1>1, <1>2, <1>3, ConnRest, TickRest, LoopRests DEF Next

(***************************************************************************)
(* Connections                                                             *)
(***************************************************************************)
\* A connection that was opened stays so, at its time, and only opened ones
\* come into a hub.
LEMMA ConnDoes ==
    ASSUME TypeOK, NEW c \in Conns, ConnStep(c)
    PROVE  /\ \A d \in Conns : life[d] # "none" => life'[d] # "none" /\ connectTime'[d] = connectTime[d]
           /\ \A h \in Hubs, d \in Conns : d \in hubConns'[h] => d \in hubConns[h] \/ life'[d] # "none"
<1> USE DEF hub, conn, task, Step
<1>t. /\ life \in [Conns -> Lives] /\ connectTime \in [Conns -> 0..MaxTime]
      /\ hubConns \in [Hubs -> SUBSET Conns] /\ aliasHub \in Hubs \cup {NoHub}
    BY DEF TypeOK
<1>1. CASE OnOpened(c)
    BY <1>t, <1>1 DEF OnOpened
<1>2. CASE AddConn(c) \/ Exit(c) \/ RemoveConn(c)
    BY <1>t, <1>2 DEF AddConn, Exit, RemoveConn
<1>3. ASSUME NEW t \in Topics, AddAliasConn(c, t)
      PROVE  /\ \A d \in Conns : life[d] # "none" => life'[d] # "none" /\ connectTime'[d] = connectTime[d]
             /\ \A h \in Hubs, d \in Conns : d \in hubConns'[h] => d \in hubConns[h] \/ life'[d] # "none"
    <2>1. PICK h \in Hubs : hubConns' = [hubConns EXCEPT ![h] = @ \cup {c}]
        <3>1. CASE aliasHub = NoHub
            BY <1>3, <3>1 DEF AddAliasConn, Hubs
        <3>2. CASE aliasHub # NoHub
            BY <1>t, <1>3, <3>2 DEF AddAliasConn
        <3> QED
            BY <3>1, <3>2
    <2>2. life' = [life EXCEPT ![c] = "inHub"] /\ connectTime' = connectTime
        BY <1>3 DEF AddAliasConn
    <2> QED
        BY <1>t, <2>1, <2>2
<1>4. CASE RemoveAliasConn(c)
    <2>1. life' = [life EXCEPT ![c] = "outHub"] /\ connectTime' = connectTime
        BY <1>4 DEF RemoveAliasConn
    <2>2. \A h \in Hubs : hubConns'[h] \subseteq hubConns[h]
        <3>1. CASE aliasHub = NoHub
            BY <1>4, <3>1 DEF RemoveAliasConn
        <3>2. CASE aliasHub # NoHub
            <4>1. hubConns' = [hubConns EXCEPT ![aliasHub] = hubConns[aliasHub] \ {c}]
                BY <1>4, <3>2 DEF RemoveAliasConn
            <4> QED
                BY <1>t, <3>2, <4>1
        <3> QED
            BY <3>1, <3>2
    <2> QED
        BY <1>t, <2>1, <2>2
<1> QED
    BY <1>1, <1>2, <1>3, <1>4 DEF ConnStep

\* SendRequestBytes is called once for a connection it was meant for.
LEMMA SendDoes ==
    ASSUME TypeOK, NEW p \in Pushes, NEW c \in Conns, SendRequestBytes(p, c)
    PROVE  /\ UNCHANGED <<life, connectTime, hubConns, running, broadcast, topicPush, queued,
                          kind, pc, ptr, info, visited, loop>>
           /\ c \in sending[p] /\ sending'[p] = sending[p] \ {c}
           /\ \A q \in Pushes \ {p} : sending'[q] = sending[q]
           /\ \A d \in Conns \ {c} : got'[d] = got[d]
           /\ got'[c] = got[c] \/ got'[c] = Append(got[c], p)
<1>1. sending \in [Pushes -> SUBSET Conns]
    BY DEF TypeOK
<1>2. /\ UNCHANGED <<life, connectTime, hubConns, running, broadcast, topicPush, queued,
                     kind, pc, ptr, info, visited, loop>>
      /\ c \in sending[p] /\ sending' = [sending EXCEPT ![p] = sending[p] \ {c}]
    BY DEF SendRequestBytes, hub, conn, task
<1>3. /\ \A d \in Conns \ {c} : got'[d] = got[d]
      /\ got'[c] = got[c] \/ got'[c] = Append(got[c], p)
    <2>1. CASE p \in cancelled
        BY <2>1 DEF SendRequestBytes
    <2>2. CASE p \notin cancelled
        BY <2>2, SentDoes DEF SendRequestBytes
    <2> QED
        BY <2>1, <2>2
<1> QED
    BY <1>1, <1>2, <1>3

\* The tasks and the handler other than SendRequestBytes do not write.
LEMMA TaskKeepsGot ==
    ASSUME NEW p \in Pushes, TaskStep(p), \A c \in Conns : ~SendRequestBytes(p, c)
    PROVE  got' = got
BY DEF TaskStep, TaskLookup, TaskClosed, TaskStart, TaskEnqueue, TaskGivesUp, Task, RangeVisit, RangeEnd

\* Only TaskStart touches the goroutines.
LEMMA TaskKeepsLoop ==
    ASSUME NEW p \in Pushes, TaskStep(p), ~TaskStart(p)
    PROVE  UNCHANGED <<loop, running>>
BY DEF TaskStep, TaskLookup, TaskClosed, TaskEnqueue, TaskGivesUp, RangeVisit, RangeEnd, SendRequestBytes, hub

\* Only TaskEnqueue touches the channels.
LEMMA TaskKeepsChannels ==
    ASSUME NEW p \in Pushes, TaskStep(p), ~TaskEnqueue(p)
    PROVE  UNCHANGED <<broadcast, topicPush, queued>>
BY DEF TaskStep, TaskLookup, TaskClosed, TaskStart, TaskGivesUp, RangeVisit, RangeEnd, SendRequestBytes, hub

LEMMA GotTyped ==
    ASSUME TypeOK, NEW c \in Conns
    PROVE  got[c] \in Seq(Pushes)
BY DEF TypeOK

LEMMA NextBorn ==
    ASSUME IInv, [Next]_vars
    PROVE  Born'
<1> USE DEF Born
<1>0. TypeOK /\ Born /\ \A p \in Pushes : TaskFits(p) /\ LoopFits(p)
    BY DEF IInv
<1>t. broadcast \in [Hubs -> BoundedSeq(Pushes)] /\ topicPush \in [Hubs -> BoundedSeq(Pushes)]
    BY <1>0 DEF TypeOK
<1>1. CASE Tick \/ UNCHANGED vars
    BY <1>0, <1>1, TickRest
<1>2. ASSUME NEW c \in Conns, ConnStep(c) PROVE Born'
    BY <1>0, <1>2, ConnRest, ConnDoes
<1>3. ASSUME NEW p \in Pushes, Handler(p) PROVE Born'
    <2>1. UNCHANGED <<life, hubConns, loop, got>>
        BY <1>0, <1>3, HandlerDoes
    <2>2. \A q \in Pushes, c \in Conns : c \in sending'[q] => life[c] # "none"
        BY <1>0, <1>3, HandlerDoes DEF InConnIDs
    <2> QED
        BY <1>0, <2>1, <2>2
<1>4. ASSUME NEW p \in Pushes, TaskStep(p) PROVE Born'
    <2>1. CASE TaskStart(p)
        <3>1. UNCHANGED <<life, hubConns, got, sending>>
            BY <2>1 DEF TaskStart, Task, conn
        <3>2. \A g \in Pushes : loop'[g].left \subseteq loop[g].left
            BY <1>0, <2>1, TaskStartDoes
        <3> QED
            BY <1>0, <3>1, <3>2
    <2>2. ASSUME NEW c \in Conns, SendRequestBytes(p, c) PROVE Born'
        <3>1. UNCHANGED <<life, hubConns, loop>> /\ \A q \in Pushes : sending'[q] \subseteq sending[q]
            BY <1>0, <2>2, SendDoes
        <3>2. ASSUME NEW q \in Pushes, NEW d \in Conns, q \in Range(got'[d]) PROVE life[d] # "none"
            <4>1. CASE got'[d] = got[d]
                BY <1>0, <3>2, <4>1
            <4>2. CASE got'[d] # got[d]
                BY <1>0, <2>2, <4>2, SendDoes
            <4> QED
                BY <4>1, <4>2
        <3> QED
            BY <1>0, <3>1, <3>2
    <2>3. ASSUME NEW c \in Conns, RangeVisit(p, c) PROVE Born'
        <3>1. UNCHANGED <<life, hubConns, loop, got>> /\ life[c] # "none"
            BY <2>3 DEF RangeVisit, hub, conn, InAllConns
        <3>2. sending' = [sending EXCEPT ![p] = sending[p] \cup {c}] /\ sending \in [Pushes -> SUBSET Conns]
            BY <1>0, <2>3 DEF RangeVisit, TypeOK
        <3> QED
            BY <1>0, <3>1, <3>2
    <2>4. CASE ~TaskStart(p) /\ \A c \in Conns : ~SendRequestBytes(p, c) /\ ~RangeVisit(p, c)
        <3>1. UNCHANGED <<loop, got>>
            BY <1>4, <2>4, TaskKeepsGot, TaskKeepsLoop
        <3>2. UNCHANGED <<life, hubConns, sending>>
            BY <1>0, <1>4, <2>4, TaskDoes
        <3> QED
            BY <1>0, <3>1, <3>2
    <2> QED
        BY <2>1, <2>2, <2>3, <2>4
<1>5. ASSUME NEW g \in Pushes, LoopStep(g) PROVE Born'
    <2>1. UNCHANGED <<life, hubConns, sending>>
        BY <1>5, LoopRests
    <2>2. CASE LoopBroadcast(g) \/ LoopTopic(g)
        <3>1. got' = got
            BY <2>2 DEF LoopBroadcast, LoopTopic
        <3>2. /\ \A u \in Pushes \ {g} : loop'[u] = loop[u]
              /\ loop[g].hub \in Hubs
              /\ loop'[g] = loop[g] \/ loop'[g].left = hubConns[loop[g].hub]
            BY <1>0, <1>t, <2>2, TakeDoes DEF LoopBroadcast, LoopTopic
        <3>3. \A u \in Pushes, c \in Conns : c \in loop'[u].left => life[c] # "none"
            BY <1>0, <3>2
        <3> QED
            BY <1>0, <2>1, <3>1, <3>3
    <2>3. CASE LoopExit(g)
        <3>1. got' = got
            BY <2>3 DEF LoopExit
        <3>2. \A u \in Pushes : loop'[u].left = loop[u].left
            BY <1>0, <2>3, LoopExitDoes
        <3> QED
            BY <1>0, <2>1, <3>1, <3>2
    <2>4. ASSUME NEW c \in Conns, LoopSend(g, c) PROVE Born'
        <3>1. \A u \in Pushes : loop'[u].left \subseteq loop[u].left
            BY <1>0, <2>4, LoopSendDoes
        <3>2. ASSUME NEW q \in Pushes, NEW d \in Conns, q \in Range(got'[d]) PROVE life[d] # "none"
            <4>1. CASE got'[d] = got[d]
                BY <1>0, <3>2, <4>1
            <4>2. CASE got'[d] # got[d]
                BY <1>0, <2>4, <4>2, LoopSendDoes
            <4> QED
                BY <4>1, <4>2
        <3> QED
            BY <1>0, <2>1, <3>1, <3>2
    <2> QED
        BY <1>5, <2>2, <2>3, <2>4 DEF LoopStep
<1> QED
    BY <1>1, <1>2, <1>3, <1>4, <1>5 DEF Next

\* What a step writes, it appends to one connection: for SendRequestBytes or
\* for a goroutine that has this connection still to come.
GotKept == \A c \in Conns : got'[c] = got[c]
Writes(p, c) ==
    /\ \A d \in Conns \ {c} : got'[d] = got[d]
    /\ got'[c] = Append(got[c], p)

LEMMA NextWrites ==
    ASSUME IInv, [Next]_vars
    PROVE  \/ GotKept
           \/ \E p \in Pushes, c \in Conns : SendRequestBytes(p, c) /\ Writes(p, c)
           \/ \E g \in Pushes, c \in Conns :
                  LoopSend(g, c) /\ Writes(loop[g].msg, c) /\ ~TopicSkips(loop[g].msg, c)
<1> USE DEF GotKept, Writes
<1>0. TypeOK /\ \A p \in Pushes : LoopFits(p)
    BY DEF IInv
<1>1. CASE Tick \/ UNCHANGED vars
    BY <1>1, TickRest
<1>2. ASSUME NEW c \in Conns, ConnStep(c) PROVE GotKept
    BY <1>2, ConnRest
<1>3. ASSUME NEW p \in Pushes, Handler(p) PROVE GotKept
    BY <1>0, <1>3, HandlerDoes
<1>4. ASSUME NEW p \in Pushes, TaskStep(p)
      PROVE  GotKept \/ \E c \in Conns : SendRequestBytes(p, c) /\ Writes(p, c)
    <2>1. ASSUME NEW c \in Conns, SendRequestBytes(p, c) PROVE GotKept \/ Writes(p, c)
        BY <1>0, <2>1, SendDoes
    <2>2. CASE \A c \in Conns : ~SendRequestBytes(p, c)
        BY <1>4, <2>2, TaskKeepsGot
    <2> QED
        BY <2>1, <2>2
<1>5. ASSUME NEW g \in Pushes, LoopStep(g)
      PROVE  GotKept \/ \E c \in Conns :
                  LoopSend(g, c) /\ Writes(loop[g].msg, c) /\ ~TopicSkips(loop[g].msg, c)
    <2>1. CASE LoopBroadcast(g) \/ LoopTopic(g) \/ LoopExit(g)
        BY <2>1 DEF LoopBroadcast, LoopTopic, LoopExit
    <2>2. ASSUME NEW c \in Conns, LoopSend(g, c)
          PROVE  GotKept \/ (Writes(loop[g].msg, c) /\ ~TopicSkips(loop[g].msg, c))
        BY <1>0, <2>2, LoopSendDoes
    <2> QED
        BY <1>5, <2>1, <2>2 DEF LoopStep
<1> QED
    BY <1>1, <1>2, <1>3, <1>4, <1>5 DEF Next

\* The members of a socket's frames after a step.
LEMMA WritesRange ==
    ASSUME TypeOK, NEW p \in Pushes, NEW c \in Conns, Writes(p, c)
    PROVE  /\ \A d \in Conns \ {c} : got'[d] = got[d]
           /\ Range(got'[c]) = Range(got[c]) \cup {p}
           /\ IsInjective(got[c]) /\ p \notin Range(got[c]) => IsInjective(got'[c])
<1>1. got[c] \in Seq(Pushes)
    BY GotTyped
<1>2. PICK t : t = got'[c]
    OBVIOUS
<1>3. t = Append(got[c], p) /\ \A d \in Conns \ {c} : got'[d] = got[d]
    BY <1>2 DEF Writes
<1>4. /\ Range(t) = Range(got[c]) \cup {p}
      /\ IsInjective(got[c]) /\ p \notin Range(got[c]) => IsInjective(t)
    BY <1>1, <1>3, AppendedRange
<1> QED
    BY <1>2, <1>3, <1>4

(***************************************************************************)
(* Goroutines of the hubs                                                  *)
(***************************************************************************)
\* What a step does to the goroutines: nothing, or TaskStart, or their own.
LEMMA NextLoop ==
    ASSUME IInv, [Next]_vars
    PROVE  \/ loop' = loop /\ running' = running
           \/ \E p \in Pushes : TaskStart(p) \/ LoopStep(p)
<1>0. TypeOK
    BY DEF IInv
<1> QED
    BY <1>0, TickRest, ConnRest, HandlerDoes, TaskKeepsLoop DEF Next

\* A push that a task has handed over stays so.
LEMMA PassedStays ==
    ASSUME IInv, [Next]_vars, NEW p \in Pushes, NEW k \in HubKinds, NEW h, Passed(p, k, h)
    PROVE  Passed(p, k, h)'
<1>1. PushStays(p)
    BY NextTasks
<1> QED
    BY <1>1 DEF Passed, PushStays, HubKinds

LEMMA NextSingleLoop ==
    ASSUME IInv, [Next]_vars
    PROVE  SingleLoop'
<1>0. TypeOK /\ SingleLoop /\ \A p \in Pushes : TaskFits(p) /\ LoopFits(p)
    BY DEF IInv
<1>t. broadcast \in [Hubs -> BoundedSeq(Pushes)] /\ topicPush \in [Hubs -> BoundedSeq(Pushes)]
    BY <1>0 DEF TypeOK
<1>1. ASSUME \A g \in Pushes : loop'[g].hub = loop[g].hub PROVE SingleLoop'
    BY <1>0, <1>1 DEF SingleLoop
<1>2. ASSUME NEW p \in Pushes, TaskStart(p) PROVE SingleLoop'
    <2>1. CASE loop'[p] = loop[p]
        BY <1>0, <1>1, <1>2, <2>1, TaskStartDoes
    <2>2. CASE loop'[p] # loop[p]
        <3>1. /\ \A u \in Pushes \ {p} : loop'[u] = loop[u]
              /\ ptr[p] \in Hubs /\ ~running[ptr[p]] /\ loop'[p].hub = ptr[p]
            BY <1>0, <1>2, <2>2, TaskStartDoes
        <3>2. \A u \in Pushes : loop[u].hub # ptr[p]
            BY <1>0, <3>1, ConstantsAssumption DEF LoopFits, Hubs
        <3> QED
            BY <1>0, <3>1, <3>2 DEF SingleLoop
    <2> QED
        BY <2>1, <2>2
<1>3. ASSUME NEW g \in Pushes, LoopStep(g) PROVE \A u \in Pushes : loop'[u].hub = loop[u].hub
    <2>1. CASE LoopBroadcast(g) \/ LoopTopic(g)
        BY <1>0, <1>t, <2>1, TakeDoes DEF LoopBroadcast, LoopTopic
    <2>2. CASE LoopExit(g)
        BY <1>0, <2>2, LoopExitDoes
    <2>3. ASSUME NEW c \in Conns, LoopSend(g, c) PROVE \A u \in Pushes : loop'[u].hub = loop[u].hub
        BY <1>0, <2>3, LoopSendDoes
    <2> QED
        BY <1>3, <2>1, <2>2, <2>3 DEF LoopStep
<1> QED
    BY <1>1, <1>2, <1>3, NextLoop

\* A goroutine that delivers after a step delivered the same before, to as
\* many at least, or has just taken the message out of a channel.
Took(g, ch) ==
    /\ loop[g].at = "select" /\ loop[g].hub \in Hubs /\ ch[loop[g].hub] # <<>>
    /\ loop'[g].hub = loop[g].hub /\ loop'[g].msg = Head(ch[loop[g].hub])
Goes(g) ==
    /\ loop[g].at = "deliver" /\ loop'[g].hub = loop[g].hub /\ loop'[g].msg = loop[g].msg
    /\ loop'[g].left \subseteq loop[g].left

LEMMA NextDelivers ==
    ASSUME IInv, [Next]_vars, NEW g \in Pushes, loop'[g].at = "deliver"
    PROVE  \/ Goes(g)
           \/ LoopBroadcast(g) /\ Took(g, broadcast)
           \/ LoopTopic(g) /\ Took(g, topicPush)
<1>0. TypeOK /\ \A p \in Pushes : TaskFits(p) /\ LoopFits(p)
    BY DEF IInv
<1>t. broadcast \in [Hubs -> BoundedSeq(Pushes)] /\ topicPush \in [Hubs -> BoundedSeq(Pushes)]
    BY <1>0 DEF TypeOK
<1>1. CASE loop'[g] = loop[g]
    BY <1>1 DEF Goes
<1>2. ASSUME loop'[g] # loop[g], NEW p \in Pushes, TaskStart(p) PROVE FALSE
    BY <1>0, <1>2, TaskStartDoes
<1>3. ASSUME loop'[g] # loop[g], NEW p \in Pushes, LoopStep(p)
      PROVE  \/ Goes(g)
             \/ LoopBroadcast(g) /\ Took(g, broadcast)
             \/ LoopTopic(g) /\ Took(g, topicPush)
    <2>1. CASE LoopBroadcast(p)
        <3>1. p = g
            BY <1>0, <1>t, <1>3, <2>1, TakeDoes DEF LoopBroadcast
        <3>2. Took(g, broadcast)
            BY <1>0, <1>t, <1>3, <2>1, <3>1, TakeDoes DEF LoopBroadcast, Took
        <3> QED
            BY <2>1, <3>1, <3>2
    <2>2. CASE LoopTopic(p)
        <3>1. p = g
            BY <1>0, <1>t, <1>3, <2>2, TakeDoes DEF LoopTopic
        <3>2. Took(g, topicPush)
            BY <1>0, <1>t, <1>3, <2>2, <3>1, TakeDoes DEF LoopTopic, Took
        <3> QED
            BY <2>2, <3>1, <3>2
    <2>3. CASE LoopExit(p)
        BY <1>0, <1>3, <2>3, LoopExitDoes
    <2>4. ASSUME NEW c \in Conns, LoopSend(p, c) PROVE Goes(g)
        BY <1>0, <1>3, <2>4, LoopSendDoes DEF Goes
    <2> QED
        BY <1>3, <2>1, <2>2, <2>3, <2>4 DEF LoopStep
<1> QED
    BY <1>1, <1>2, <1>3, NextLoop

(***************************************************************************)
(* Channels                                                                *)
(***************************************************************************)
\* What a step does to the channels of the hubs.
LEMMA NextChannel ==
    ASSUME IInv, [Next]_vars
    PROVE  \/ UNCHANGED <<broadcast, topicPush, queued>>
           \/ \E p \in Pushes : TaskEnqueue(p)
           \/ \E g \in Pushes : LoopBroadcast(g) \/ LoopTopic(g)
<1>0. TypeOK
    BY DEF IInv
<1>1. ASSUME NEW g \in Pushes, LoopStep(g), ~LoopBroadcast(g), ~LoopTopic(g)
      PROVE  UNCHANGED <<broadcast, topicPush, queued>>
    BY <1>1 DEF LoopStep, LoopExit, LoopSend, LoopRest
<1> QED
    BY <1>0, <1>1, TickRest, ConnRest, HandlerDoes, TaskKeepsChannels DEF Next

\* A push comes into a channel or into the history only from its task.
Enters(p, k, h) == TaskEnqueue(p) /\ pc[p] = "send" /\ kind[p] = k /\ ptr[p] = h

LEMMA NextBroadcast ==
    ASSUME IInv, [Next]_vars, NEW h \in Hubs
    PROVE  \/ broadcast'[h] = broadcast[h] /\ queued'[h] = queued[h]
           \/ \E p \in Pushes :
                  /\ Enters(p, "alias", h)
                  /\ broadcast'[h] = Append(broadcast[h], p) /\ queued'[h] = Append(queued[h], p)
           \/ \E g \in Pushes :
                  /\ LoopBroadcast(g) /\ loop[g].hub = h /\ loop[g].at = "select"
                  /\ broadcast[h] # <<>> /\ broadcast'[h] = Tail(broadcast[h])
                  /\ queued'[h] = queued[h]
<1>0. TypeOK /\ \A p \in Pushes : TaskFits(p) /\ LoopFits(p)
    BY DEF IInv
<1>t. broadcast \in [Hubs -> BoundedSeq(Pushes)] /\ queued \in [Hubs -> Seq(Pushes)]
    BY <1>0 DEF TypeOK
<1>1. ASSUME NEW p \in Pushes, TaskEnqueue(p)
      PROVE  \/ broadcast'[h] = broadcast[h] /\ queued'[h] = queued[h]
             \/ /\ Enters(p, "alias", h)
                /\ broadcast'[h] = Append(broadcast[h], p) /\ queued'[h] = Append(queued[h], p)
    BY <1>0, <1>t, <1>1, TaskEnqueueDoes DEF Enters
<1>2. ASSUME NEW g \in Pushes, LoopBroadcast(g)
      PROVE  \/ broadcast'[h] = broadcast[h] /\ queued'[h] = queued[h]
             \/ /\ loop[g].hub = h /\ loop[g].at = "select"
                /\ broadcast[h] # <<>> /\ broadcast'[h] = Tail(broadcast[h])
                /\ queued'[h] = queued[h]
    <2>1. /\ loop[g].at = "select" /\ loop[g].hub \in Hubs /\ broadcast[loop[g].hub] # <<>>
          /\ broadcast' = [broadcast EXCEPT ![loop[g].hub] = Tail(broadcast[loop[g].hub])]
          /\ queued' = queued
        BY <1>0, <1>t, <1>2, TakeDoes DEF LoopBroadcast, LoopRest
    <2> QED
        BY <1>t, <2>1
<1>3. ASSUME NEW g \in Pushes, LoopTopic(g) PROVE broadcast' = broadcast /\ queued' = queued
    BY <1>3 DEF LoopTopic, LoopRest
<1> QED
    BY <1>1, <1>2, <1>3, NextChannel

LEMMA NextTopicPush ==
    ASSUME IInv, [Next]_vars, NEW h \in Hubs
    PROVE  \/ topicPush'[h] = topicPush[h]
           \/ \E p \in Pushes : Enters(p, "topic", h) /\ topicPush'[h] = Append(topicPush[h], p)
           \/ \E g \in Pushes :
                  /\ LoopTopic(g) /\ loop[g].hub = h
                  /\ topicPush[h] # <<>> /\ topicPush'[h] = Tail(topicPush[h])
<1>0. TypeOK /\ \A p \in Pushes : TaskFits(p) /\ LoopFits(p)
    BY DEF IInv
<1>t. topicPush \in [Hubs -> BoundedSeq(Pushes)]
    BY <1>0 DEF TypeOK
<1>1. ASSUME NEW p \in Pushes, TaskEnqueue(p)
      PROVE  \/ topicPush'[h] = topicPush[h]
             \/ Enters(p, "topic", h) /\ topicPush'[h] = Append(topicPush[h], p)
    BY <1>0, <1>t, <1>1, TaskEnqueueDoes DEF Enters
<1>2. ASSUME NEW g \in Pushes, LoopTopic(g)
      PROVE  \/ topicPush'[h] = topicPush[h]
             \/ /\ loop[g].hub = h
                /\ topicPush[h] # <<>> /\ topicPush'[h] = Tail(topicPush[h])
    <2>1. /\ loop[g].hub \in Hubs /\ topicPush[loop[g].hub] # <<>>
          /\ topicPush' = [topicPush EXCEPT ![loop[g].hub] = Tail(topicPush[loop[g].hub])]
        BY <1>0, <1>t, <1>2, TakeDoes DEF LoopTopic
    <2> QED
        BY <1>t, <2>1
<1>3. ASSUME NEW g \in Pushes, LoopBroadcast(g) PROVE topicPush' = topicPush
    BY <1>3 DEF LoopBroadcast
<1> QED
    BY <1>1, <1>2, <1>3, NextChannel

\* The push that enters has been passed on, and was nowhere before.
LEMMA EntersPassed ==
    ASSUME IInv, [Next]_vars, NEW p \in Pushes, NEW k \in HubKinds, NEW h \in Hubs, Enters(p, k, h)
    PROVE  Passed(p, k, h)' /\ p \notin Range(broadcast[h]) /\ p \notin Range(topicPush[h])
           /\ p \notin Range(queued[h]) /\ \A c \in Conns : p \notin Range(got[c])
<1>1. kind' = kind /\ ptr' = ptr /\ pc'[p] = "done"
    BY TaskEnqueueDoes DEF Enters, IInv, TypeOK, TaskEnqueue, Task
<1>2. Passed(p, k, h)'
    BY <1>1 DEF Enters, Passed
<1>3. p \notin Range(broadcast[h]) /\ p \notin Range(topicPush[h]) /\ p \notin Range(queued[h])
    BY DEF IInv, ChannelFits, QueueFits, Passed, Enters
<1>4. ASSUME NEW c \in Conns PROVE p \notin Range(got[c])
    BY DEF IInv, GotFits, Enters
<1> QED
    BY <1>2, <1>3, <1>4

LEMMA RangeTyped ==
    ASSUME NEW S, NEW s \in Seq(S)
    PROVE  Range(s) \subseteq S
BY DEF Range

LEMMA NextChannels ==
    ASSUME IInv, [Next]_vars, NEW h \in Hubs
    PROVE  ChannelFits(h)'
<1>0. ChannelFits(h) /\ broadcast[h] \in Seq(Pushes) /\ topicPush[h] \in Seq(Pushes)
    BY ChannelTypes DEF IInv
<1>1. /\ \A p \in Range(broadcast[h]) : Passed(p, "alias", h)'
      /\ \A p \in Range(topicPush[h]) : Passed(p, "topic", h)'
    BY <1>0, RangeTyped, PassedStays DEF ChannelFits, HubKinds
<1>2. IsInjective(broadcast'[h]) /\ \A p \in Range(broadcast'[h]) : Passed(p, "alias", h)'
    <2>1. CASE broadcast'[h] = broadcast[h]
        BY <1>0, <1>1, <2>1 DEF ChannelFits
    <2>2. ASSUME NEW p \in Pushes, Enters(p, "alias", h), broadcast'[h] = Append(broadcast[h], p)
          PROVE  IsInjective(broadcast'[h]) /\ \A q \in Range(broadcast'[h]) : Passed(q, "alias", h)'
        <3>1. Passed(p, "alias", h)' /\ p \notin Range(broadcast[h])
            BY <2>2, EntersPassed DEF HubKinds
        <3>2. PICK t : t = broadcast'[h]
            OBVIOUS
        <3>3. IsInjective(t) /\ Range(t) = Range(broadcast[h]) \cup {p}
            BY <1>0, <2>2, <3>1, <3>2, AppendedRange DEF ChannelFits
        <3> QED
            BY <1>1, <3>1, <3>2, <3>3
    <2>3. ASSUME broadcast[h] # <<>>, broadcast'[h] = Tail(broadcast[h])
          PROVE  IsInjective(broadcast'[h]) /\ \A q \in Range(broadcast'[h]) : Passed(q, "alias", h)'
        <3>1. PICK t : t = broadcast'[h]
            OBVIOUS
        <3>2. IsInjective(t) /\ Range(t) \subseteq Range(broadcast[h])
            BY <1>0, <2>3, <3>1, Tailed DEF ChannelFits
        <3> QED
            BY <1>1, <3>1, <3>2
    <2> QED
        BY <2>1, <2>2, <2>3, NextBroadcast
<1>3. IsInjective(topicPush'[h]) /\ \A p \in Range(topicPush'[h]) : Passed(p, "topic", h)'
    <2>1. CASE topicPush'[h] = topicPush[h]
        BY <1>0, <1>1, <2>1 DEF ChannelFits
    <2>2. ASSUME NEW p \in Pushes, Enters(p, "topic", h), topicPush'[h] = Append(topicPush[h], p)
          PROVE  IsInjective(topicPush'[h]) /\ \A q \in Range(topicPush'[h]) : Passed(q, "topic", h)'
        <3>1. Passed(p, "topic", h)' /\ p \notin Range(topicPush[h])
            BY <2>2, EntersPassed DEF HubKinds
        <3>2. PICK t : t = topicPush'[h]
            OBVIOUS
        <3>3. IsInjective(t) /\ Range(t) = Range(topicPush[h]) \cup {p}
            BY <1>0, <2>2, <3>1, <3>2, AppendedRange DEF ChannelFits
        <3> QED
            BY <1>1, <3>1, <3>2, <3>3
    <2>3. ASSUME topicPush[h] # <<>>, topicPush'[h] = Tail(topicPush[h])
          PROVE  IsInjective(topicPush'[h]) /\ \A q \in Range(topicPush'[h]) : Passed(q, "topic", h)'
        <3>1. PICK t : t = topicPush'[h]
            OBVIOUS
        <3>2. IsInjective(t) /\ Range(t) \subseteq Range(topicPush[h])
            BY <1>0, <2>3, <3>1, Tailed DEF ChannelFits
        <3> QED
            BY <1>1, <3>1, <3>2
    <2> QED
        BY <2>1, <2>2, <2>3, NextTopicPush
<1> QED
    BY <1>2, <1>3 DEF ChannelFits

\* A push waits after a step only if it did before or has just entered.
LEMMA NextWaiting ==
    ASSUME IInv, [Next]_vars, NEW p \in Pushes, Waiting(p)', ~Waiting(p)
    PROVE  pc[p] = "send" /\ \A c \in Conns : p \notin Range(got[c])
<1>1. PICK h \in Hubs : p \in Range(broadcast'[h]) \/ p \in Range(topicPush'[h])
    BY DEF Waiting
<1>2. /\ p \notin Range(broadcast[h]) /\ p \notin Range(topicPush[h])
      /\ broadcast[h] \in Seq(Pushes) /\ topicPush[h] \in Seq(Pushes)
    BY ChannelTypes DEF Waiting, IInv
<1>3. ASSUME NEW q \in Pushes, NEW k \in HubKinds, Enters(q, k, h), q = p
      PROVE  pc[p] = "send" /\ \A c \in Conns : p \notin Range(got[c])
    BY <1>3, EntersPassed DEF Enters
<1>4. CASE p \in Range(broadcast'[h])
    <2>1. broadcast'[h] # broadcast[h]
        BY <1>2, <1>4
    <2>2. ASSUME broadcast[h] # <<>>, broadcast'[h] = Tail(broadcast[h]) PROVE FALSE
        <3>1. Range(Tail(broadcast[h])) \subseteq Range(broadcast[h])
            BY <1>2, <2>2, Tailed
        <3> QED
            BY <1>2, <1>4, <2>2, <3>1
    <2>3. ASSUME NEW q \in Pushes, Enters(q, "alias", h), broadcast'[h] = Append(broadcast[h], q)
          PROVE  pc[p] = "send" /\ \A c \in Conns : p \notin Range(got[c])
        <3>1. Range(Append(broadcast[h], q)) = Range(broadcast[h]) \cup {q}
            BY <1>2, AppendedRange
        <3>2. q = p
            BY <1>2, <1>4, <2>3, <3>1
        <3> QED
            BY <1>3, <2>3, <3>2 DEF HubKinds
    <2> QED
        BY <2>1, <2>2, <2>3, NextBroadcast
<1>5. CASE p \in Range(topicPush'[h])
    <2>1. topicPush'[h] # topicPush[h]
        BY <1>2, <1>5
    <2>2. ASSUME topicPush[h] # <<>>, topicPush'[h] = Tail(topicPush[h]) PROVE FALSE
        <3>1. Range(Tail(topicPush[h])) \subseteq Range(topicPush[h])
            BY <1>2, <2>2, Tailed
        <3> QED
            BY <1>2, <1>5, <2>2, <3>1
    <2>3. ASSUME NEW q \in Pushes, Enters(q, "topic", h), topicPush'[h] = Append(topicPush[h], q)
          PROVE  pc[p] = "send" /\ \A c \in Conns : p \notin Range(got[c])
        <3>1. Range(Append(topicPush[h], q)) = Range(topicPush[h]) \cup {q}
            BY <1>2, AppendedRange
        <3>2. q = p
            BY <1>2, <1>5, <2>3, <3>1
        <3> QED
            BY <1>3, <2>3, <3>2 DEF HubKinds
    <2> QED
        BY <2>1, <2>2, <2>3, NextTopicPush
<1> QED
    BY <1>1, <1>4, <1>5

\* What a goroutine takes was in the channel of its hub and is in none now.
LEMMA TookFits ==
    ASSUME IInv, [Next]_vars, NEW g \in Pushes,
           (LoopBroadcast(g) /\ Took(g, broadcast)) \/ (LoopTopic(g) /\ Took(g, topicPush))
    PROVE  /\ loop'[g].msg \in Pushes /\ Waiting(loop'[g].msg) /\ ~Waiting(loop[g].msg)'
           /\ loop'[g].hub = loop[g].hub /\ loop[g].hub \in Hubs
           /\ \E k \in HubKinds : Passed(loop'[g].msg, k, loop[g].hub)
<1>1. PICK h \in Hubs : h = loop[g].hub
    BY DEF Took
<1>2. PICK m : m = loop'[g].msg
    OBVIOUS
<1>3. /\ \A u \in Hubs : ChannelFits(u)
      /\ broadcast[h] \in Seq(Pushes) /\ topicPush[h] \in Seq(Pushes)
      /\ broadcast \in [Hubs -> BoundedSeq(Pushes)] /\ topicPush \in [Hubs -> BoundedSeq(Pushes)]
    BY ChannelTypes DEF IInv, TypeOK
<1>4. CASE LoopBroadcast(g) /\ Took(g, broadcast)
    <2>1. /\ m = Head(broadcast[h]) /\ broadcast[h] # <<>>
          /\ broadcast' = [broadcast EXCEPT ![h] = Tail(broadcast[h])] /\ topicPush' = topicPush
        BY <1>1, <1>2, <1>4 DEF Took, LoopBroadcast
    <2>2. /\ m \in Pushes /\ m \in Range(broadcast[h]) /\ m \notin Range(Tail(broadcast[h]))
        BY <1>3, <2>1, Tailed DEF ChannelFits
    <2>3. Passed(m, "alias", h)
        BY <1>3, <2>2 DEF ChannelFits
    <2>4. ASSUME NEW u \in Hubs PROVE m \notin Range(broadcast'[u]) /\ m \notin Range(topicPush'[u])
        <3>1. m \notin Range(topicPush[u]) /\ (u # h => m \notin Range(broadcast[u]))
            BY <1>3, <2>3 DEF ChannelFits, Passed
        <3>2. broadcast'[u] = IF u = h THEN Tail(broadcast[h]) ELSE broadcast[u]
            BY <1>3, <2>1
        <3> QED
            BY <2>1, <2>2, <3>1, <3>2
    <2>5. Waiting(m) /\ ~(\E u \in Hubs : m \in Range(broadcast'[u]) \/ m \in Range(topicPush'[u]))
        BY <2>2, <2>4 DEF Waiting
    <2> QED
        BY <1>1, <1>2, <1>4, <2>2, <2>3, <2>5 DEF Waiting, HubKinds, Took
<1>5. CASE LoopTopic(g) /\ Took(g, topicPush)
    <2>1. /\ m = Head(topicPush[h]) /\ topicPush[h] # <<>>
          /\ topicPush' = [topicPush EXCEPT ![h] = Tail(topicPush[h])] /\ broadcast' = broadcast
        BY <1>1, <1>2, <1>5 DEF Took, LoopTopic
    <2>2. /\ m \in Pushes /\ m \in Range(topicPush[h]) /\ m \notin Range(Tail(topicPush[h]))
        BY <1>3, <2>1, Tailed DEF ChannelFits
    <2>3. Passed(m, "topic", h)
        BY <1>3, <2>2 DEF ChannelFits
    <2>4. ASSUME NEW u \in Hubs PROVE m \notin Range(broadcast'[u]) /\ m \notin Range(topicPush'[u])
        <3>1. m \notin Range(broadcast[u]) /\ (u # h => m \notin Range(topicPush[u]))
            BY <1>3, <2>3 DEF ChannelFits, Passed
        <3>2. topicPush'[u] = IF u = h THEN Tail(topicPush[h]) ELSE topicPush[u]
            BY <1>3, <2>1
        <3> QED
            BY <2>1, <2>2, <3>1, <3>2
    <2>5. Waiting(m) /\ ~(\E u \in Hubs : m \in Range(broadcast'[u]) \/ m \in Range(topicPush'[u]))
        BY <2>2, <2>4 DEF Waiting
    <2> QED
        BY <1>1, <1>2, <1>5, <2>2, <2>3, <2>5 DEF Waiting, HubKinds, Took
<1> QED
    BY <1>4, <1>5

LEMMA NextLoops ==
    ASSUME IInv, [Next]_vars, NEW g \in Pushes
    PROVE  LoopFits(g)' /\ (loop'[g].at = "deliver" => ~Waiting(loop[g].msg)')
<1>0. TypeOK /\ (\A p \in Pushes : TaskFits(p) /\ LoopFits(p)) /\ Taken
    BY DEF IInv
<1>t. broadcast \in [Hubs -> BoundedSeq(Pushes)] /\ topicPush \in [Hubs -> BoundedSeq(Pushes)]
    BY <1>0 DEF TypeOK
<1>1. \A h \in Hubs : running[h] => running'[h]
    <2>1. ASSUME NEW p \in Pushes, TaskStart(p) PROVE \A h \in Hubs : running[h] => running'[h]
        <3>1. running \in [Hubs -> BOOLEAN] /\ running' = [running EXCEPT ![ptr[p]] = TRUE]
            BY <1>0, <2>1, TaskStartDoes DEF TypeOK
        <3> QED
            BY <3>1
    <2>2. ASSUME NEW p \in Pushes, LoopStep(p) PROVE running' = running
        BY <2>2, LoopRests
    <2> QED
        BY <2>1, <2>2, NextLoop
<1>2. /\ loop'[g].at = "none" => loop'[g].hub = NoHub
      /\ loop'[g].at # "none" => loop'[g].hub \in Hubs /\ running'[loop'[g].hub]
    <2>1. CASE loop'[g].at = loop[g].at /\ loop'[g].hub = loop[g].hub
        BY <1>0, <1>1, <2>1 DEF LoopFits
    <2>2. ASSUME NEW p \in Pushes, TaskStart(p), loop'[g] # loop[g]
          PROVE  loop'[g].at # "none" /\ loop'[g].hub \in Hubs /\ running'[loop'[g].hub]
        <3>1. /\ loop'[g].at = "select" /\ loop'[g].hub = ptr[p] /\ ptr[p] \in Hubs
              /\ running' = [running EXCEPT ![ptr[p]] = TRUE] /\ running \in [Hubs -> BOOLEAN]
            BY <1>0, <2>2, TaskStartDoes DEF TypeOK
        <3> QED
            BY <3>1
    <2>3. ASSUME NEW p \in Pushes, LoopStep(p), loop'[g] # loop[g]
          PROVE  /\ loop'[g].at # "none" /\ loop[g].at # "none" /\ loop'[g].hub = loop[g].hub
        <3>1. CASE LoopBroadcast(p) \/ LoopTopic(p)
            BY <1>0, <1>t, <2>3, <3>1, TakeDoes DEF LoopBroadcast, LoopTopic
        <3>2. CASE LoopExit(p)
            BY <1>0, <2>3, <3>2, LoopExitDoes
        <3>3. ASSUME NEW c \in Conns, LoopSend(p, c)
              PROVE  loop'[g].at # "none" /\ loop[g].at # "none" /\ loop'[g].hub = loop[g].hub
            BY <1>0, <2>3, <3>3, LoopSendDoes
        <3> QED
            BY <2>3, <3>1, <3>2, <3>3 DEF LoopStep
    <2>4. CASE loop'[g] = loop[g]
        BY <2>1, <2>4
    <2>5. CASE \E p \in Pushes : LoopStep(p) /\ loop'[g] # loop[g]
        BY <1>0, <1>1, <2>3, <2>5 DEF LoopFits
    <2>6. CASE \E p \in Pushes : TaskStart(p) /\ loop'[g] # loop[g]
        BY <2>2, <2>6
    <2> QED
        BY <2>4, <2>5, <2>6, NextLoop
<1>3. ASSUME loop'[g].at = "deliver"
      PROVE  /\ loop'[g].msg \in Pushes /\ \E k \in HubKinds : Passed(loop[g].msg, k, loop[g].hub)'
             /\ ~Waiting(loop[g].msg)'
    <2>1. PICK m : m = loop'[g].msg
        OBVIOUS
    <2>2. PICK h : h = loop'[g].hub
        OBVIOUS
    <2>3. CASE Goes(g)
        <3>1. m = loop[g].msg /\ h = loop[g].hub /\ loop[g].at = "deliver"
            BY <2>1, <2>2, <2>3 DEF Goes
        <3>2. PICK k \in HubKinds : m \in Pushes /\ Passed(m, k, h)
            BY <1>0, <3>1 DEF LoopFits
        <3>3. Passed(m, k, h)'
            BY <3>2, PassedStays
        <3>4. ~Waiting(m) /\ pc[m] # "send"
            BY <1>0, <3>1, <3>2 DEF Taken, Passed
        <3>5. ~Waiting(m)'
            BY <3>2, <3>4, NextWaiting
        <3> QED
            BY <2>1, <2>2, <3>2, <3>3, <3>5 DEF Passed, Waiting
    <2>4. CASE ~Goes(g)
        <3>1. (LoopBroadcast(g) /\ Took(g, broadcast)) \/ (LoopTopic(g) /\ Took(g, topicPush))
            BY <1>3, <2>4, NextDelivers
        <3>2. /\ m \in Pushes /\ ~Waiting(m)' /\ h = loop[g].hub
              /\ \E k \in HubKinds : Passed(m, k, h)
            BY <2>1, <2>2, <3>1, TookFits DEF Waiting
        <3>3. PICK k \in HubKinds : Passed(m, k, h)
            BY <3>2
        <3>4. Passed(m, k, h)'
            BY <3>2, <3>3, PassedStays
        <3> QED
            BY <2>1, <2>2, <3>2, <3>3, <3>4 DEF Passed, Waiting
    <2> QED
        BY <2>3, <2>4
<1> QED
    BY <1>2, <1>3 DEF LoopFits, Passed

(***************************************************************************)
(* Sockets                                                                 *)
(***************************************************************************)
\* A push that is written to a socket was not there before.
LEMMA WritesOnce ==
    ASSUME IInv, NEW p \in Pushes, NEW c \in Conns,
           \/ SendRequestBytes(p, c)
           \/ \E g \in Pushes : LoopSend(g, c) /\ loop[g].msg = p
    PROVE  p \notin Range(got[c])
<1>0. GotFits(p, c) /\ TypeOK /\ \A g \in Pushes : LoopFits(g)
    BY DEF IInv
<1>1. CASE SendRequestBytes(p, c)
    BY <1>0, <1>1, SendDoes DEF GotFits
<1>2. ASSUME NEW g \in Pushes, LoopSend(g, c), loop[g].msg = p PROVE p \notin Range(got[c])
    BY <1>0, <1>2, LoopSendDoes DEF GotFits
<1> QED
    BY <1>1, <1>2

LEMMA NextOnce ==
    ASSUME IInv, [Next]_vars
    PROVE  DeliveredOnce'
<1>0. TypeOK /\ (\A c \in Conns : IsInjective(got[c])) /\ \A g \in Pushes : LoopFits(g)
    BY DEF IInv, DeliveredOnce
<1>1. ASSUME NEW p \in Pushes, NEW c \in Conns, Writes(p, c), p \notin Range(got[c])
      PROVE  \A d \in Conns : IsInjective(got'[d])
    BY <1>0, <1>1, WritesRange
<1>2. CASE GotKept
    BY <1>0, <1>2 DEF GotKept, DeliveredOnce
<1>3. ASSUME NEW p \in Pushes, NEW c \in Conns, SendRequestBytes(p, c), Writes(p, c)
      PROVE  \A d \in Conns : IsInjective(got'[d])
    BY <1>1, <1>3, WritesOnce
<1>4. ASSUME NEW g \in Pushes, NEW c \in Conns, LoopSend(g, c), Writes(loop[g].msg, c)
      PROVE  \A d \in Conns : IsInjective(got'[d])
    <2>1. loop[g].msg \in Pushes
        BY <1>0, <1>4, LoopSendDoes
    <2>2. loop[g].msg \notin Range(got[c])
        BY <1>4, <2>1, WritesOnce
    <2> QED
        BY <1>1, <1>4, <2>1, <2>2
<1> QED
    BY <1>2, <1>3, <1>4, NextWrites DEF DeliveredOnce

\* What a step does to the tasks that call SendRequestBytes.
LEMMA NextSending ==
    ASSUME IInv, [Next]_vars, NEW p \in Pushes, NEW c \in Conns,
           kind[p] # "none", c \notin sending[p], kind[p] = "all" => c \in visited[p]
    PROVE  c \notin sending'[p] /\ (kind[p] = "all" => c \in visited'[p])
<1>0. TypeOK /\ TaskFits(p)
    BY DEF IInv
<1>t. visited \in [Pushes -> SUBSET Conns] /\ sending \in [Pushes -> SUBSET Conns]
    BY <1>0 DEF TypeOK
<1>1. CASE sending'[p] = sending[p] /\ visited'[p] = visited[p]
    BY <1>1
<1>2. ASSUME NEW q \in Pushes, Handler(q) PROVE sending'[p] = sending[p] /\ visited'[p] = visited[p]
    BY <1>0, <1>2, HandlerDoes
<1>3. ASSUME NEW q \in Pushes, TaskStep(q)
      PROVE  c \notin sending'[p] /\ (kind[p] = "all" => c \in visited'[p])
    <2>1. CASE UNCHANGED <<visited, sending>>
        BY <2>1
    <2>2. ASSUME NEW d \in Conns, SendRequestBytes(q, d)
          PROVE  c \notin sending'[p] /\ (kind[p] = "all" => c \in visited'[p])
        BY <1>0, <2>2, SendDoes
    <2>3. ASSUME NEW d \in Conns, RangeVisit(q, d)
          PROVE  c \notin sending'[p] /\ (kind[p] = "all" => c \in visited'[p])
        <3>1. /\ pc[q] = "range" /\ d \notin visited[q]
              /\ visited' = [visited EXCEPT ![q] = visited[q] \cup {d}]
              /\ sending' = [sending EXCEPT ![q] = sending[q] \cup {d}]
            BY <2>3 DEF RangeVisit
        <3>2. q = p => kind[p] = "all"
            BY <1>0, <3>1 DEF TaskFits
        <3> QED
            BY <1>t, <3>1, <3>2
    <2> QED
        BY <1>0, <1>3, <2>1, <2>2, <2>3, TaskDoes
<1> QED
    BY <1>1, <1>2, <1>3, TickRest, ConnRest, LoopRests DEF Next

\* A push that waits goes through a hub.
LEMMA WaitingPassed ==
    ASSUME IInv, NEW p, Waiting(p)
    PROVE  kind[p] \in HubKinds /\ pc[p] = "done"
BY DEF IInv, Waiting, ChannelFits, Passed, HubKinds

\* What a socket had already got.
LEMMA GotBefore ==
    ASSUME IInv, [Next]_vars, NEW p \in Pushes, NEW c \in Conns, p \in Range(got[c])
    PROVE  GotFits(p, c)'
<1>0. GotFits(p, c) /\ \A g \in Pushes : LoopFits(g)
    BY DEF IInv
<1>1. PushStays(p)
    BY NextTasks
<1>2. kind'[p] = kind[p] /\ kind[p] # "none" /\ (kind[p] \in HubKinds => pc'[p] = "done")
    BY <1>0, <1>1 DEF GotFits, PushStays
<1>3. ~Waiting(p) /\ ~Waiting(p)'
    BY <1>0, NextWaiting DEF GotFits
<1>4. ASSUME NEW g \in Pushes, loop'[g].at = "deliver", loop'[g].msg = p PROVE c \notin loop'[g].left
    <2>1. CASE Goes(g)
        BY <1>0, <1>4, <2>1 DEF GotFits, Goes
    <2>2. CASE ~Goes(g)
        BY <1>3, <1>4, <2>2, NextDelivers, TookFits
    <2> QED
        BY <2>1, <2>2
<1>5. c \notin sending'[p] /\ (kind[p] = "all" => c \in visited'[p])
    BY <1>0, <1>2, NextSending DEF GotFits
<1> QED
    BY <1>2, <1>3, <1>4, <1>5 DEF GotFits

\* What SendRequestBytes writes.
LEMMA GotSent ==
    ASSUME IInv, [Next]_vars, NEW p \in Pushes, NEW c \in Conns, SendRequestBytes(p, c)
    PROVE  GotFits(p, c)'
<1>0. TypeOK /\ \A q \in Pushes : TaskFits(q) /\ LoopFits(q)
    BY DEF IInv
<1>1. /\ UNCHANGED <<broadcast, topicPush, kind, pc, visited, loop>>
      /\ c \in sending[p] /\ sending'[p] = sending[p] \ {c}
    BY <1>0, SendDoes
<1>2. kind[p] \in {"all", "conn"} /\ (kind[p] = "all" => c \in visited[p])
    BY <1>0, <1>1 DEF TaskFits
<1>3. ~Waiting(p)
    BY <1>2, WaitingPassed DEF HubKinds
<1>4. ~Waiting(p)'
    BY <1>1, <1>3 DEF Waiting
<1>5. ASSUME NEW g \in Pushes, loop[g].at = "deliver", loop[g].msg = p PROVE FALSE
    BY <1>0, <1>2, <1>5 DEF LoopFits, Passed, HubKinds
<1> QED
    BY <1>1, <1>2, <1>4, <1>5 DEF GotFits, HubKinds

\* What the goroutine of a hub writes.
LEMMA GotPushed ==
    ASSUME IInv, [Next]_vars, NEW g \in Pushes, NEW c \in Conns, LoopSend(g, c)
    PROVE  loop[g].msg \in Pushes /\ \A p \in Pushes : p = loop[g].msg => GotFits(p, c)'
<1>0. TypeOK /\ SingleLoop /\ Taken /\ \A q \in Pushes : TaskFits(q) /\ LoopFits(q)
    BY DEF IInv
<1>1. loop[g].msg \in Pushes /\ loop[g].at = "deliver"
    BY <1>0, LoopSendDoes
<1> SUFFICES ASSUME NEW p \in Pushes, p = loop[g].msg PROVE GotFits(p, c)'
    BY <1>1
<1>2. UNCHANGED <<broadcast, topicPush, kind, pc, visited, sending>>
    BY DEF LoopSend, LoopRest, task
<1>3. kind[p] \in HubKinds /\ pc[p] = "done" /\ ptr[p] = loop[g].hub /\ loop[g].hub \in Hubs
    BY <1>0, <1>1 DEF LoopFits, Passed
<1>4. sending[p] = {} /\ kind[p] # "all" /\ kind[p] # "none"
    BY <1>0, <1>3 DEF TaskFits, HubKinds
<1>5. ~Waiting(p)'
    BY <1>0, <1>1, <1>2 DEF Taken, Waiting
<1>6. ASSUME NEW u \in Pushes, loop'[u].at = "deliver", loop'[u].msg = p PROVE c \notin loop'[u].left
    <2>1. CASE u = g
        BY <1>0, <1>6, <2>1, LoopSendDoes
    <2>2. CASE u # g
        <3>1. loop[u].at = "deliver" /\ loop[u].msg = p
            BY <1>0, <1>6, <2>2, LoopSendDoes
        <3>2. loop[u].hub = loop[g].hub
            BY <1>0, <1>3, <3>1 DEF LoopFits, Passed
        <3> QED
            BY <1>0, <1>3, <2>2, <3>2, ConstantsAssumption DEF SingleLoop, Hubs
    <2> QED
        BY <2>1, <2>2
<1> QED
    BY <1>2, <1>3, <1>4, <1>5, <1>6 DEF GotFits

LEMMA NextGot ==
    ASSUME IInv, [Next]_vars, NEW p \in Pushes, NEW c \in Conns
    PROVE  GotFits(p, c)'
<1>0. TypeOK
    BY DEF IInv
<1>1. CASE p \in Range(got[c])
    BY <1>1, GotBefore
<1>2. CASE p \notin Range(got'[c])
    BY <1>2 DEF GotFits
<1>3. CASE p \notin Range(got[c]) /\ p \in Range(got'[c])
    <2>1. ~GotKept
        BY <1>3 DEF GotKept
    <2>2. ASSUME NEW q \in Pushes, NEW d \in Conns, SendRequestBytes(q, d), Writes(q, d)
          PROVE  GotFits(p, c)'
        <3>1. q = p /\ d = c
            BY <1>0, <1>3, <2>2, WritesRange
        <3> QED
            BY <2>2, <3>1, GotSent
    <2>3. ASSUME NEW g \in Pushes, NEW d \in Conns, LoopSend(g, d), Writes(loop[g].msg, d)
          PROVE  GotFits(p, c)'
        <3>1. loop[g].msg \in Pushes
            BY <2>3, GotPushed
        <3>2. loop[g].msg = p /\ d = c
            BY <1>0, <1>3, <2>3, <3>1, WritesRange
        <3> QED
            BY <2>3, <3>2, GotPushed
    <2> QED
        BY <2>1, <2>2, <2>3, NextWrites
<1> QED
    BY <1>1, <1>2, <1>3

(***************************************************************************)
(* The order of a hub                                                      *)
(***************************************************************************)
\* b holds the last elements of q.
Suffix(b, q) ==
    /\ Len(b) <= Len(q)
    /\ \A i \in 1 .. Len(b) : b[i] = q[Len(q) - Len(b) + i]

\* x is the element of q right before the ones that b holds.
Precedes(x, b, q) == Len(b) < Len(q) /\ x = q[Len(q) - Len(b)]

LEMMA SuffixAppend ==
    ASSUME NEW S, NEW b \in Seq(S), NEW q \in Seq(S), NEW e \in S, Suffix(b, q)
    PROVE  /\ Suffix(Append(b, e), Append(q, e))
           /\ \A x : Precedes(x, b, q) => Precedes(x, Append(b, e), Append(q, e))
<1> DEFINE b1 == Append(b, e)
           q1 == Append(q, e)
<1>1. /\ Len(b) \in Nat /\ Len(b1) = Len(b) + 1
      /\ (\A i \in 1 .. Len(b) : b1[i] = b[i]) /\ b1[Len(b) + 1] = e
    BY Appended
<1>2. /\ Len(q) \in Nat /\ Len(q1) = Len(q) + 1
      /\ (\A i \in 1 .. Len(q) : q1[i] = q[i]) /\ q1[Len(q) + 1] = e
    BY Appended
<1> HIDE DEF b1, q1
<1>3. Len(b) <= Len(q) /\ \A i \in 1 .. Len(b) : b[i] = q[Len(q) - Len(b) + i]
    BY DEF Suffix
<1>4. PICK m, n : m = Len(b) /\ n = Len(q)
    OBVIOUS
<1>5. ASSUME NEW i \in 1 .. m + 1 PROVE b1[i] = q1[(n + 1) - (m + 1) + i]
    <2>1. CASE i \in 1 .. m
        <3>1. (n + 1) - (m + 1) + i = n - m + i /\ n - m + i \in 1 .. n
            BY <1>1, <1>2, <1>3, <1>4, <2>1
        <3> QED
            BY <1>1, <1>2, <1>3, <1>4, <2>1, <3>1
    <2>2. CASE i = m + 1
        <3>1. (n + 1) - (m + 1) + i = n + 1
            BY <1>1, <1>2, <1>4, <2>2
        <3> QED
            BY <1>1, <1>2, <1>4, <2>2, <3>1
    <2> QED
        BY <1>1, <1>4, <2>1, <2>2
<1>6. Suffix(b1, q1)
    BY <1>1, <1>2, <1>3, <1>4, <1>5 DEF Suffix
<1>7. ASSUME NEW x, Precedes(x, b, q) PROVE Precedes(x, b1, q1)
    <2>1. m < n /\ x = q[n - m] /\ n - m \in 1 .. n /\ (n + 1) - (m + 1) = n - m /\ m + 1 < n + 1
        BY <1>1, <1>2, <1>4, <1>7 DEF Precedes
    <2> QED
        BY <1>1, <1>2, <1>4, <2>1 DEF Precedes
<1> QED
    BY <1>6, <1>7 DEF b1, q1

LEMMA SuffixTail ==
    ASSUME NEW S, NEW b \in Seq(S), NEW q \in Seq(S), b # <<>>, Suffix(b, q)
    PROVE  Suffix(Tail(b), q) /\ Precedes(Head(b), Tail(b), q)
<1> DEFINE b1 == Tail(b)
<1>1. /\ Len(b) \in Nat \ {0} /\ Len(b1) = Len(b) - 1 /\ Head(b) = b[1]
      /\ \A i \in 1 .. Len(b) - 1 : b1[i] = b[i + 1]
    BY Tailed
<1> HIDE DEF b1
<1>2. Len(b) <= Len(q) /\ Len(q) \in Nat /\ \A i \in 1 .. Len(b) : b[i] = q[Len(q) - Len(b) + i]
    BY DEF Suffix
<1>3. PICK m, n : m = Len(b) /\ n = Len(q)
    OBVIOUS
<1>4. ASSUME NEW i \in 1 .. m - 1 PROVE b1[i] = q[n - (m - 1) + i]
    <2>1. i + 1 \in 1 .. m /\ n - m + (i + 1) = n - (m - 1) + i
        BY <1>1, <1>2, <1>3
    <2> QED
        BY <1>1, <1>2, <1>3, <2>1
<1>5. Suffix(b1, q)
    BY <1>1, <1>2, <1>3, <1>4 DEF Suffix
<1>6. Precedes(Head(b), b1, q)
    <2>1. 1 \in 1 .. m /\ n - m + 1 = n - (m - 1) /\ m - 1 < n
        BY <1>1, <1>2, <1>3
    <2> QED
        BY <1>1, <1>2, <1>3, <2>1 DEF Precedes
<1> QED
    BY <1>5, <1>6 DEF b1

\* QueueFits in these words.
LEMMA QueueSays ==
    ASSUME NEW h
    PROVE  QueueFits(h) <=>
             /\ IsInjective(queued[h]) /\ \A p \in Range(queued[h]) : Passed(p, "alias", h)
             /\ Suffix(broadcast[h], queued[h])
             /\ \A g \in Pushes :
                   loop[g].at = "deliver" /\ loop[g].hub = h /\ kind[loop[g].msg] = "alias" =>
                       Precedes(loop[g].msg, broadcast[h], queued[h])
BY DEF QueueFits, Suffix, Precedes

\* What the goroutine of a hub had before it stays before what is waiting.
LEMMA NextQueue ==
    ASSUME IInv, [Next]_vars, NEW h \in Hubs
    PROVE  QueueFits(h)'
<1>0. /\ TypeOK /\ SingleLoop /\ broadcast[h] \in Seq(Pushes) /\ queued[h] \in Seq(Pushes)
      /\ \A g \in Pushes : LoopFits(g)
    BY ChannelTypes DEF IInv
<1>1. /\ IsInjective(queued[h]) /\ (\A p \in Range(queued[h]) : Passed(p, "alias", h))
      /\ Suffix(broadcast[h], queued[h])
      /\ \A g \in Pushes :
             loop[g].at = "deliver" /\ loop[g].hub = h /\ kind[loop[g].msg] = "alias" =>
                 Precedes(loop[g].msg, broadcast[h], queued[h])
    BY QueueSays DEF IInv
<1>2. \A p \in Range(queued[h]) : Passed(p, "alias", h)'
    BY <1>0, <1>1, RangeTyped, PassedStays DEF HubKinds
<1>3. \* What is delivered was delivered before, or has just been taken.
      ASSUME NEW g \in Pushes, loop'[g].at = "deliver", loop'[g].hub = h, kind'[loop'[g].msg] = "alias"
      PROVE  \/ /\ loop[g].at = "deliver" /\ loop[g].hub = h /\ loop'[g].msg = loop[g].msg
                /\ Precedes(loop'[g].msg, broadcast[h], queued[h])
             \/ LoopBroadcast(g) /\ loop[g].hub = h /\ loop'[g].msg = Head(broadcast[h])
    <2>1. CASE Goes(g)
        <3>1. loop[g].at = "deliver" /\ loop[g].hub = h /\ loop'[g].msg = loop[g].msg
            BY <1>3, <2>1 DEF Goes
        <3>2. loop[g].msg \in Pushes /\ kind[loop[g].msg] # "none"
            BY <1>0, <3>1 DEF LoopFits, Passed, HubKinds
        <3>3. kind[loop[g].msg] = "alias"
            BY <1>3, <3>1, <3>2, NextTasks DEF PushStays
        <3> QED
            BY <1>1, <3>1, <3>3
    <2>2. CASE LoopBroadcast(g) /\ Took(g, broadcast)
        BY <1>3, <2>2 DEF Took
    <2>3. CASE LoopTopic(g) /\ Took(g, topicPush)
        <3>1. topicPush[h] \in Seq(Pushes) /\ topicPush[h] # <<>> /\ loop'[g].msg = Head(topicPush[h])
            BY <1>0, <1>3, <2>3, ChannelTypes DEF Took
        <3>2. loop'[g].msg \in Range(topicPush[h])
            BY <3>1, Tailed
        <3>3. kind[loop'[g].msg] = "topic" /\ kind' = kind
            BY <2>3, <3>2, LoopRests DEF IInv, ChannelFits, Passed, LoopStep
        <3> QED
            BY <1>3, <3>3
    <2> QED
        BY <1>3, <2>1, <2>2, <2>3, NextDelivers
<1>4. CASE broadcast'[h] = broadcast[h] /\ queued'[h] = queued[h]
    <2>1. ASSUME NEW g \in Pushes, loop'[g].at = "deliver", loop'[g].hub = h, kind'[loop'[g].msg] = "alias"
          PROVE  Precedes(loop'[g].msg, broadcast[h], queued[h])
        <3>1. ASSUME LoopBroadcast(g), loop[g].hub = h PROVE FALSE
            <4>1. broadcast[h] # <<>> /\ broadcast'[h] = Tail(broadcast[h])
                BY <1>0, <3>1 DEF LoopBroadcast, Take, TypeOK
            <4>2. Len(Tail(broadcast[h])) = Len(broadcast[h]) - 1 /\ Len(broadcast[h]) \in Nat
                BY <1>0, <4>1, Tailed
            <4>3. broadcast[h] = Tail(broadcast[h])
                BY <1>4, <4>1
            <4>4. PICK n : n = Len(broadcast[h])
                OBVIOUS
            <4>5. n = n - 1 /\ n \in Nat
                BY <4>2, <4>3, <4>4
            <4> QED
                BY <4>5
        <3> QED
            BY <1>3, <2>1, <3>1
    <2> QED
        BY <1>1, <1>2, <1>4, <2>1 DEF QueueFits, Suffix, Precedes
<1>5. ASSUME NEW p \in Pushes, Enters(p, "alias", h),
             broadcast'[h] = Append(broadcast[h], p), queued'[h] = Append(queued[h], p)
      PROVE  QueueFits(h)'
    <2>1. Passed(p, "alias", h)' /\ p \notin Range(queued[h])
        BY <1>5, EntersPassed DEF HubKinds
    <2>2. IsInjective(queued'[h]) /\ \A q \in Range(queued'[h]) : Passed(q, "alias", h)'
        <3>1. /\ Range(Append(queued[h], p)) = Range(queued[h]) \cup {p}
              /\ IsInjective(Append(queued[h], p))
            BY <1>0, <1>1, <2>1, AppendedRange
        <3> QED
            BY <1>2, <1>5, <2>1, <3>1
    <2>3. /\ Suffix(broadcast'[h], queued'[h])
          /\ \A x : Precedes(x, broadcast[h], queued[h]) => Precedes(x, broadcast'[h], queued'[h])
        BY <1>0, <1>1, <1>5, SuffixAppend
    <2>4. ASSUME NEW g \in Pushes, loop'[g].at = "deliver", loop'[g].hub = h, kind'[loop'[g].msg] = "alias"
          PROVE  Precedes(loop'[g].msg, broadcast'[h], queued'[h])
        <3>1. loop' = loop
            BY <1>5 DEF Enters, TaskEnqueue
        <3>2. ~(LoopBroadcast(g) /\ loop[g].hub = h /\ loop'[g].msg = Head(broadcast[h]))
            BY <1>5 DEF Enters, TaskEnqueue, Task, LoopBroadcast, LoopRest, task, IInv, TypeOK
        <3> QED
            BY <1>3, <2>3, <2>4, <3>2
    <2> QED
        BY <2>2, <2>3, <2>4 DEF QueueFits, Suffix, Precedes
<1>6. ASSUME NEW u \in Pushes, LoopBroadcast(u), loop[u].hub = h, loop[u].at = "select",
             broadcast[h] # <<>>, broadcast'[h] = Tail(broadcast[h]), queued'[h] = queued[h]
      PROVE  QueueFits(h)'
    <2>1. Suffix(broadcast'[h], queued'[h]) /\ Precedes(Head(broadcast[h]), broadcast'[h], queued'[h])
        BY <1>0, <1>1, <1>6, SuffixTail
    <2>2. ASSUME NEW g \in Pushes, loop'[g].at = "deliver", loop'[g].hub = h, kind'[loop'[g].msg] = "alias"
          PROVE  Precedes(loop'[g].msg, broadcast'[h], queued'[h])
        <3>1. ASSUME loop[g].at = "deliver", loop[g].hub = h PROVE FALSE
            BY <1>0, <1>6, <3>1, ConstantsAssumption DEF SingleLoop, Hubs
        <3>2. loop'[g].msg = Head(broadcast[h])
            BY <1>3, <2>2, <3>1
        <3> QED
            BY <2>1, <3>2
    <2> QED
        BY <1>1, <1>2, <1>6, <2>1, <2>2 DEF QueueFits, Suffix, Precedes
<1> QED
    BY <1>4, <1>5, <1>6, NextBroadcast

\* Nothing that waits behind n in the history has reached a socket.
LEMMA NextOrder ==
    ASSUME IInv, [Next]_vars
    PROVE  HubOrder'
<1>0. TypeOK /\ HubOrder /\ (\A g \in Pushes : LoopFits(g)) /\ \A p \in Pushes : TaskFits(p)
    BY DEF IInv
<1> SUFFICES ASSUME NEW h \in Hubs, NEW c \in Conns,
                    NEW i \in DOMAIN queued'[h], NEW j \in DOMAIN queued'[h],
                    NEW a \in DOMAIN got'[c], NEW b \in DOMAIN got'[c],
                    i < j, got'[c][a] = queued'[h][i], got'[c][b] = queued'[h][j]
             PROVE  a < b
    BY DEF HubOrder
<1>1. /\ broadcast[h] \in Seq(Pushes) /\ queued[h] \in Seq(Pushes) /\ got[c] \in Seq(Pushes)
      /\ DOMAIN queued[h] = 1 .. Len(queued[h]) /\ DOMAIN got[c] = 1 .. Len(got[c])
      /\ Len(queued[h]) \in Nat /\ Len(got[c]) \in Nat
    <2>1. broadcast[h] \in Seq(Pushes) /\ queued[h] \in Seq(Pushes) /\ got[c] \in Seq(Pushes)
        BY <1>0, ChannelTypes, GotTyped
    <2> QED
        BY <2>1
<1>2. ASSUME i \in DOMAIN queued[h], j \in DOMAIN queued[h], a \in DOMAIN got[c], b \in DOMAIN got[c],
             got[c][a] = queued[h][i], got[c][b] = queued[h][j]
      PROVE  a < b
    BY <1>0, <1>2 DEF HubOrder
<1>3. CASE got'[c] = got[c] /\ queued'[h] = queued[h]
    BY <1>2, <1>3
<1>4. ASSUME NEW p \in Pushes, Enters(p, "alias", h), queued'[h] = Append(queued[h], p) PROVE a < b
    <2>1. got'[c] = got[c] /\ p \notin Range(got[c])
        BY <1>4, EntersPassed DEF Enters, TaskEnqueue, Task, HubKinds
    <2>2. /\ DOMAIN queued'[h] = 1 .. Len(queued[h]) + 1 /\ queued'[h][Len(queued[h]) + 1] = p
          /\ \A k \in 1 .. Len(queued[h]) : queued'[h][k] = queued[h][k]
        BY <1>1, <1>4, Appended
    <2>3. i # Len(queued[h]) + 1 /\ j # Len(queued[h]) + 1
        BY <2>1, <2>2 DEF Range
    <2>4. i \in DOMAIN queued[h] /\ j \in DOMAIN queued[h]
        BY <1>1, <2>2, <2>3
    <2> QED
        BY <1>1, <1>2, <2>1, <2>2, <2>4
<1>5. ASSUME NEW p \in Pushes, Writes(p, c), queued'[h] = queued[h], p \notin Range(queued[h]) PROVE a < b
    <2>1. /\ DOMAIN got'[c] = 1 .. Len(got[c]) + 1 /\ got'[c][Len(got[c]) + 1] = p
          /\ \A k \in 1 .. Len(got[c]) : got'[c][k] = got[c][k]
        BY <1>1, <1>5, Appended DEF Writes
    <2>2. a # Len(got[c]) + 1 /\ b # Len(got[c]) + 1
        BY <1>5, <2>1 DEF Range
    <2>3. a \in DOMAIN got[c] /\ b \in DOMAIN got[c]
        BY <1>1, <2>1, <2>2
    <2> QED
        BY <1>1, <1>2, <1>5, <2>1, <2>3
<1>6. ASSUME NEW g \in Pushes, LoopSend(g, c), Writes(loop[g].msg, c), queued'[h] = queued[h],
             loop[g].msg \in Range(queued[h])
      PROVE  a < b
    <2>1. PICK p \in Pushes : p = loop[g].msg
        BY <1>0, <1>6, LoopSendDoes
    <2>2. /\ IsInjective(queued[h]) /\ Passed(p, "alias", h)
          /\ Suffix(broadcast[h], queued[h])
          /\ \A u \in Pushes :
                loop[u].at = "deliver" /\ loop[u].hub = h /\ kind[loop[u].msg] = "alias" =>
                    Precedes(loop[u].msg, broadcast[h], queued[h])
        BY <1>6, <2>1, QueueSays DEF IInv
    <2>3. loop[g].at = "deliver" /\ loop[g].hub = h /\ kind[p] = "alias"
        BY <1>0, <1>6, <2>1, <2>2, LoopSendDoes DEF LoopFits, Passed
    <2>4. Precedes(p, broadcast[h], queued[h])
        BY <2>1, <2>2, <2>3
    <2>5. PICK m \in Nat : m = Len(broadcast[h])
        BY <1>1
    <2>l. PICK l \in Nat : l = Len(queued[h])
        BY <1>1
    <2>6. PICK n : n = l - m
        OBVIOUS
    <2>7. /\ l = n + m /\ n \in 1 .. l /\ DOMAIN queued[h] = 1 .. l /\ queued[h][n] = p
          /\ \A k \in 1 .. m : broadcast[h][k] = queued[h][n + k]
        <3>1. m < l /\ queued[h][n] = p
            BY <2>4, <2>5, <2>l, <2>6 DEF Precedes
        <3>2. \A k \in 1 .. m : broadcast[h][k] = queued[h][n + k]
            BY <2>2, <2>5, <2>l, <2>6 DEF Suffix
        <3>3. l = n + m /\ n \in 1 .. l
            BY <2>6, <3>1
        <3> QED
            BY <1>1, <2>l, <3>1, <3>2, <3>3
    <2>8. /\ DOMAIN got'[c] = 1 .. Len(got[c]) + 1 /\ got'[c][Len(got[c]) + 1] = p
          /\ \A k \in 1 .. Len(got[c]) : got'[c][k] = got[c][k]
        BY <1>1, <1>6, <2>1, Appended DEF Writes
    <2>9. ASSUME NEW k \in DOMAIN queued[h], k > n PROVE ~\E d \in DOMAIN got[c] : got[c][d] = queued[h][k]
        <3>1. k - n \in 1 .. m /\ n + (k - n) = k
            <4>1. k \in 1 .. l /\ n \in 1 .. l /\ l = n + m /\ k > n
                BY <2>7, <2>9
            <4> QED
                BY <4>1
        <3>2. queued[h][k] = broadcast[h][k - n]
            BY <2>7, <3>1
        <3>3. queued[h][k] \in Range(broadcast[h]) /\ queued[h][k] \in Pushes
            BY <1>1, <2>5, <3>1, <3>2 DEF Range
        <3>4. Waiting(queued[h][k])
            BY <3>3 DEF Waiting
        <3>5. queued[h][k] \notin Range(got[c])
            BY <3>3, <3>4 DEF IInv, GotFits
        <3> QED
            BY <3>5 DEF Range
    <2>10. i \in DOMAIN queued[h] /\ j \in DOMAIN queued[h] /\ queued'[h][i] = queued[h][i] /\ queued'[h][j] = queued[h][j]
        BY <1>6
    <2>11. \A k \in DOMAIN queued[h] : queued[h][k] = p => k = n
        BY <1>1, <2>2, <2>7 DEF IsInjective
    <2>12. CASE a = Len(got[c]) + 1
        <3>1. i = n /\ j > n /\ j # n
            BY <1>1, <2>7, <2>8, <2>10, <2>11, <2>12
        <3>2. b # Len(got[c]) + 1
            BY <2>8, <2>10, <2>11, <3>1
        <3>3. b \in DOMAIN got[c] /\ got[c][b] = queued[h][j]
            <4>1. Len(got[c]) \in Nat /\ DOMAIN got[c] = 1 .. Len(got[c])
                BY <1>1
            <4>2. b \in 1 .. Len(got[c]) + 1
                BY <2>8
            <4>3. b \in 1 .. Len(got[c])
                BY <3>2, <4>1, <4>2
            <4>4. got'[c][b] = got[c][b]
                BY <2>8, <4>3
            <4>5. got'[c][b] = queued[h][j]
                BY <2>10
            <4> QED
                BY <4>1, <4>3, <4>4, <4>5
        <3> QED
            BY <2>9, <2>10, <3>1, <3>3
    <2>13. CASE a # Len(got[c]) + 1 /\ b = Len(got[c]) + 1
        BY <1>1, <2>8, <2>13
    <2>14. CASE a # Len(got[c]) + 1 /\ b # Len(got[c]) + 1
        <3>1. a \in 1 .. Len(got[c]) /\ b \in 1 .. Len(got[c])
            <4>1. Len(got[c]) \in Nat
                BY <1>1
            <4>2. a \in 1 .. Len(got[c]) + 1 /\ b \in 1 .. Len(got[c]) + 1
                BY <2>8
            <4> QED
                BY <2>14, <4>1, <4>2
        <3> QED
            BY <1>1, <1>2, <2>8, <2>10, <3>1
    <2> QED
        BY <2>12, <2>13, <2>14
<1>7. CASE GotKept
    <2>1. got'[c] = got[c]
        BY <1>7 DEF GotKept
    <2> QED
        BY <1>3, <1>4, <2>1, NextBroadcast
<1>8. ASSUME NEW p \in Pushes, NEW d \in Conns, SendRequestBytes(p, d), Writes(p, d) PROVE a < b
    <2>1. queued' = queued /\ kind[p] \in {"all", "conn"}
        BY <1>0, <1>8, SendDoes DEF TaskFits
    <2>2. p \notin Range(queued[h])
        BY <2>1 DEF IInv, QueueFits, Passed
    <2>3. CASE d = c
        BY <1>5, <1>8, <2>1, <2>2, <2>3
    <2>4. CASE d # c
        BY <1>3, <1>8, <2>1, <2>4 DEF Writes
    <2> QED
        BY <2>3, <2>4
<1>9. ASSUME NEW g \in Pushes, NEW d \in Conns, LoopSend(g, d), Writes(loop[g].msg, d) PROVE a < b
    <2>1. queued' = queued /\ loop[g].msg \in Pushes
        BY <1>0, <1>9, LoopSendDoes DEF LoopSend, LoopRest
    <2>2. CASE d = c
        BY <1>5, <1>6, <1>9, <2>1, <2>2
    <2>3. CASE d # c
        BY <1>3, <1>9, <2>1, <2>3 DEF Writes
    <2> QED
        BY <2>2, <2>3
<1> QED
    BY <1>7, <1>8, <1>9, NextWrites

(***************************************************************************)
(* Nothing is lost                                                         *)
(***************************************************************************)
Registered == <<life, connectTime, topicOf, aliasHub, hubConns, exit, subscribeTs>>

\* Only the connections' own steps change the registries.
LEMMA NextRegistered ==
    ASSUME TypeOK, [Next]_vars
    PROVE  \/ UNCHANGED Registered /\ (now' = now \/ now' = now + 1)
           \/ \E c \in Conns : ConnStep(c) /\ now' = now
<1> USE DEF Registered, hub, conn, task
<1>1. CASE Tick \/ UNCHANGED vars
    BY <1>1 DEF Tick, vars
<1>2. ASSUME NEW c \in Conns, ConnStep(c) PROVE now' = now
    BY <1>2 DEF ConnStep, OnOpened, AddAliasConn, AddConn, Exit, RemoveAliasConn, RemoveConn, Step
<1>3. ASSUME NEW p \in Pushes, Handler(p) PROVE UNCHANGED Registered /\ now' = now
    BY <1>3 DEF Handler, PushByAliasMessageHandler, PushByTopicMessageHandler, PushAllMessageHandler,
                HandlerRefuses, SendMessage, Cancel, Handled
<1>4. ASSUME NEW p \in Pushes, TaskStep(p) PROVE UNCHANGED Registered /\ now' = now
    BY <1>4 DEF TaskStep, TaskLookup, TaskClosed, TaskStart, TaskEnqueue, TaskGivesUp, Task,
                RangeVisit, RangeEnd, SendRequestBytes
<1>5. ASSUME NEW g \in Pushes, LoopStep(g) PROVE UNCHANGED Registered /\ now' = now
    BY <1>5 DEF LoopStep, LoopBroadcast, LoopTopic, LoopSend, LoopExit, LoopRest
<1> QED
    BY <1>1, <1>2, <1>3, <1>4, <1>5 DEF Next

\* A connection joins the hub of the map, or a new one.
LEMMA AddDoes ==
    ASSUME TypeOK, NEW c \in Conns, NEW t \in Topics, AddAliasConn(c, t)
    PROVE  \E h \in Hubs :
             /\ h = IF aliasHub = NoHub THEN c ELSE aliasHub
             /\ life[c] = "open" /\ life' = [life EXCEPT ![c] = "inHub"]
             /\ topicOf' = [topicOf EXCEPT ![c] = t] /\ connectTime' = connectTime
             /\ aliasHub' = h /\ hubConns' = [hubConns EXCEPT ![h] = hubConns[h] \cup {c}]
             /\ subscribeTs' = [subscribeTs EXCEPT ![t] = now] /\ exit' = exit /\ now' = now
<1>1. PICK h \in Hubs : h = IF aliasHub = NoHub THEN c ELSE aliasHub
    BY DEF TypeOK, Hubs
<1> QED
    BY <1>1 DEF AddAliasConn, Step

\* A connection leaves the hub of the map, and the last one closes it.
LEMMA RemoveDoes ==
    ASSUME TypeOK, Registry, NEW c \in Conns, RemoveAliasConn(c)
    PROVE  /\ aliasHub \in Hubs /\ life[c] = "exited" /\ life' = [life EXCEPT ![c] = "outHub"]
           /\ UNCHANGED <<topicOf, connectTime, now>>
           /\ hubConns' = [hubConns EXCEPT ![aliasHub] = hubConns[aliasHub] \ {c}]
           /\ \/ /\ hubConns[aliasHub] \ {c} = {} /\ aliasHub' = NoHub
                 /\ exit' = [exit EXCEPT ![aliasHub] = TRUE]
              \/ /\ hubConns[aliasHub] \ {c} # {} /\ UNCHANGED <<aliasHub, exit, subscribeTs>>
<1>1. life[c] = "exited" /\ life' = [life EXCEPT ![c] = "outHub"] /\ UNCHANGED <<topicOf, connectTime, now>>
    BY DEF RemoveAliasConn, Step
<1>2. aliasHub # NoHub
    BY <1>1 DEF Registry, InConnIDs
<1>3. aliasHub \in Hubs
    BY <1>2 DEF TypeOK
<1>4. /\ hubConns' = [hubConns EXCEPT ![aliasHub] = hubConns[aliasHub] \ {c}]
      /\ IF hubConns[aliasHub] \ {c} = {}
         THEN CloseHub(aliasHub) /\ aliasHub' = NoHub
         ELSE UNCHANGED <<aliasHub, exit, subscribeTs>>
    BY <1>2 DEF RemoveAliasConn, NoneLeft
<1> QED
    BY <1>1, <1>3, <1>4 DEF CloseHub

LEMMA NextRegistry ==
    ASSUME TypeOK, Registry, [Next]_vars
    PROVE  Registry'
<1>t. /\ life \in [Conns -> Lives] /\ hubConns \in [Hubs -> SUBSET Conns]
      /\ exit \in [Hubs -> BOOLEAN] /\ aliasHub \in Hubs \cup {NoHub} /\ NoHub \notin Conns
    BY ConstantsAssumption DEF TypeOK
<1> USE DEF InConnIDs, Hubs
<1>1. CASE UNCHANGED Registered
    BY <1>1 DEF Registered, Registry
<1>2. ASSUME NEW c \in Conns, ConnStep(c) PROVE Registry'
    <2>1. CASE OnOpened(c) \/ AddConn(c) \/ Exit(c) \/ RemoveConn(c)
        <3>1. /\ UNCHANGED <<aliasHub, hubConns, exit>>
              /\ \E to \in {"open", "authed", "exited", "closed"} : life' = [life EXCEPT ![c] = to]
            BY <2>1 DEF OnOpened, AddConn, Exit, RemoveConn, Step, hub
        <3>2. \/ life[c] = "none" /\ life'[c] = "open"
              \/ life[c] \in {"inHub", "authed"} /\ life'[c] \in {"authed", "exited"}
              \/ life[c] = "outHub" /\ life'[c] = "closed"
            BY <1>t, <2>1 DEF OnOpened, AddConn, Exit, RemoveConn, Step
        <3>3. \A d \in Conns \ {c} : life'[d] = life[d]
            BY <1>t, <3>1
        <3>4. /\ \A d \in Conns : InConnIDs(d)' <=> InConnIDs(d)
              /\ \A d \in Conns : life[d] \notin {"none", "open"} => life'[d] \notin {"none", "open"}
            BY <3>2, <3>3
        <3> QED
            BY <1>t, <3>1, <3>4 DEF Registry
    <2>2. ASSUME NEW t \in Topics, AddAliasConn(c, t) PROVE Registry'
        <3>1. PICK h \in Hubs :
                /\ h = IF aliasHub = NoHub THEN c ELSE aliasHub
                /\ life[c] = "open" /\ life' = [life EXCEPT ![c] = "inHub"]
                /\ aliasHub' = h /\ hubConns' = [hubConns EXCEPT ![h] = hubConns[h] \cup {c}]
                /\ exit' = exit
            BY <2>2, AddDoes
        <3>2. \A d \in Conns : InConnIDs(d)' <=> InConnIDs(d) \/ d = c
            BY <1>t, <3>1
        <3>3. hubConns[h] = {d \in Conns : InConnIDs(d)}
            BY <1>t, <3>1 DEF Registry
        <3>4. \A k \in Hubs \ {h} : hubConns[k] = {}
            BY <1>t, <3>1 DEF Registry
        <3>5. hubConns'[h] = {d \in Conns : InConnIDs(d)'} /\ \A k \in Hubs \ {h} : hubConns'[k] = {}
            <4>1. hubConns'[h] = hubConns[h] \cup {c} /\ \A k \in Hubs \ {h} : hubConns'[k] = hubConns[k]
                BY <1>t, <3>1
            <4> QED
                BY <3>2, <3>3, <3>4, <4>1
        <3>6. ~exit[h] /\ life'[h] \notin {"none", "open"}
            BY <1>t, <3>1 DEF Registry
        <3>7. \A k \in Hubs : exit[k] => life'[k] \notin {"none", "open"}
            BY <1>t, <3>1 DEF Registry
        <3> QED
            BY <1>t, <3>1, <3>5, <3>6, <3>7 DEF Registry
    <2>3. CASE RemoveAliasConn(c)
        <3>1. PICK h \in Hubs : h = aliasHub
            BY <2>3, RemoveDoes
        <3>2. /\ life[c] = "exited" /\ life' = [life EXCEPT ![c] = "outHub"]
              /\ hubConns' = [hubConns EXCEPT ![h] = hubConns[h] \ {c}]
              /\ \/ hubConns[h] \ {c} = {} /\ aliasHub' = NoHub /\ exit' = [exit EXCEPT ![h] = TRUE]
                 \/ hubConns[h] \ {c} # {} /\ aliasHub' = h /\ exit' = exit
            BY <2>3, <3>1, RemoveDoes
        <3>3. \A d \in Conns : InConnIDs(d)' <=> InConnIDs(d) /\ d # c
            BY <1>t, <3>2
        <3>4. hubConns[h] = {d \in Conns : InConnIDs(d)} /\ \A k \in Hubs \ {h} : hubConns[k] = {}
            BY <1>t, <3>1 DEF Registry
        <3>5. hubConns'[h] = {d \in Conns : InConnIDs(d)'} /\ \A k \in Hubs \ {h} : hubConns'[k] = {}
            BY <1>t, <3>2, <3>3, <3>4
        <3>6. \A d \in Conns : life[d] \notin {"none", "open"} => life'[d] \notin {"none", "open"}
            BY <1>t, <3>2
        <3>7. life'[h] \notin {"none", "open"} /\ ~exit[h] /\ h # NoHub
            BY <1>t, <3>1, <3>6 DEF Registry
        <3>8. \A k \in Hubs : exit'[k] => life'[k] \notin {"none", "open"}
            BY <1>t, <3>2, <3>6, <3>7 DEF Registry
        <3>9. CASE hubConns[h] \ {c} = {} /\ aliasHub' = NoHub
            <4>1. hubConns'[h] = {} /\ \A d \in Conns : ~InConnIDs(d)'
                BY <1>t, <3>2, <3>5, <3>9
            <4> QED
                BY <1>t, <3>5, <3>8, <3>9, <4>1 DEF Registry
        <3>10. CASE aliasHub' = h /\ exit' = exit
            BY <1>t, <3>5, <3>7, <3>8, <3>10 DEF Registry
        <3> QED
            BY <3>2, <3>9, <3>10
    <2> QED
        BY <1>2, <2>1, <2>2, <2>3 DEF ConnStep
<1> QED
    BY <1>1, <1>2, NextRegistered

LEMMA NextSubscribed ==
    ASSUME TypeOK, Registry, Subscribed, [Next]_vars
    PROVE  Subscribed'
<1>t. /\ life \in [Conns -> Lives] /\ connectTime \in [Conns -> 0..MaxTime] /\ now \in 1..MaxTime
      /\ topicOf \in [Conns -> Topics \cup {NoTopic}] /\ subscribeTs \in [Topics -> 0..MaxTime]
      /\ MaxTime \in Nat /\ now \in Nat /\ now # 0
    BY ConstantsAssumption DEF TypeOK
<1>i. \A c \in Conns : connectTime[c] \in Nat
    BY <1>t
<1> USE DEF InConnIDs
<1>1. ASSUME UNCHANGED Registered, now' = now \/ now' = now + 1 PROVE Subscribed'
    <2>1. \A c \in Conns : connectTime[c] <= now'
        BY <1>t, <1>i, <1>1 DEF Subscribed
    <2> QED
        BY <1>1, <2>1 DEF Registered, Subscribed
<1>2. ASSUME NEW c \in Conns, ConnStep(c), now' = now PROVE Subscribed'
    <2>1. CASE AddConn(c) \/ Exit(c) \/ RemoveConn(c)
        <3>1. /\ UNCHANGED <<connectTime, topicOf, subscribeTs>>
              /\ \A d \in Conns : InConnIDs(d)' => InConnIDs(d)
            BY <1>t, <2>1 DEF AddConn, Exit, RemoveConn, Step, hub
        <3> QED
            BY <1>2, <3>1 DEF Subscribed
    <2>2. CASE OnOpened(c)
        <3>1. /\ UNCHANGED <<topicOf, subscribeTs>> /\ connectTime' = [connectTime EXCEPT ![c] = now]
              /\ \A d \in Conns : InConnIDs(d)' => InConnIDs(d) /\ d # c
            BY <1>t, <2>2 DEF OnOpened, Step, hub
        <3>2. connectTime'[c] <= now /\ \A d \in Conns \ {c} : connectTime'[d] = connectTime[d]
            BY <1>t, <3>1
        <3> QED
            BY <1>2, <3>1, <3>2 DEF Subscribed
    <2>3. ASSUME NEW t \in Topics, AddAliasConn(c, t) PROVE Subscribed'
        <3>1. /\ life' = [life EXCEPT ![c] = "inHub"] /\ topicOf' = [topicOf EXCEPT ![c] = t]
              /\ subscribeTs' = [subscribeTs EXCEPT ![t] = now] /\ connectTime' = connectTime
            BY <2>3, AddDoes
        <3>2. ASSUME NEW d \in Conns, InConnIDs(d)'
              PROVE  /\ topicOf'[d] \in Topics /\ subscribeTs'[topicOf'[d]] # 0
                     /\ connectTime[d] <= subscribeTs'[topicOf'[d]]
            <4>1. CASE d = c
                BY <1>t, <3>1, <4>1 DEF Subscribed
            <4>2. CASE d # c
                <5>1. InConnIDs(d) /\ topicOf'[d] = topicOf[d]
                    BY <1>t, <3>1, <3>2, <4>2
                <5>2. topicOf[d] \in Topics
                    BY <5>1 DEF Subscribed
                <5> QED
                    BY <1>t, <3>1, <5>1, <5>2 DEF Subscribed
            <4> QED
                BY <4>1, <4>2
        <3> QED
            BY <1>2, <3>1, <3>2 DEF Subscribed
    <2>4. CASE RemoveAliasConn(c)
        <3>1. /\ aliasHub \in Hubs /\ life' = [life EXCEPT ![c] = "outHub"]
              /\ UNCHANGED <<topicOf, connectTime>>
              /\ hubConns[aliasHub] \ {c} = {} \/ subscribeTs' = subscribeTs
            BY <2>4, RemoveDoes
        <3>2. \A d \in Conns : InConnIDs(d)' => InConnIDs(d) /\ d # c
            BY <1>t, <3>1
        <3>3. hubConns[aliasHub] = {d \in Conns : InConnIDs(d)}
            BY <3>1 DEF Registry
        <3>4. CASE hubConns[aliasHub] \ {c} = {}
            <4>1. \A d \in Conns : ~InConnIDs(d)'
                BY <3>2, <3>3, <3>4
            <4> QED
                BY <1>2, <3>1, <4>1 DEF Subscribed
        <3>5. CASE subscribeTs' = subscribeTs
            BY <1>2, <3>1, <3>2, <3>5 DEF Subscribed
        <3> QED
            BY <3>1, <3>4, <3>5
    <2> QED
        BY <1>2, <2>1, <2>2, <2>3, <2>4 DEF ConnStep
<1> QED
    BY <1>1, <1>2, NextRegistered

\* A closed hub stays closed.
LEMMA ExitStays ==
    ASSUME TypeOK, Registry, [Next]_vars, NEW h \in Hubs, exit[h]
    PROVE  exit'[h]
<1>1. exit \in [Hubs -> BOOLEAN]
    BY DEF TypeOK
<1>2. ASSUME NEW c \in Conns, ConnStep(c) PROVE exit'[h]
    <2>1. CASE RemoveAliasConn(c)
        BY <1>1, <2>1, RemoveDoes
    <2>2. CASE ~RemoveAliasConn(c)
        BY <1>2, <2>2 DEF ConnStep, OnOpened, AddAliasConn, AddConn, Exit, RemoveConn, hub
    <2> QED
        BY <2>1, <2>2
<1> QED
    BY <1>2, NextRegistered DEF Registered

LEMMA NextServed ==
    ASSUME IInv, Registry, Served, [Next]_vars
    PROVE  Served'
<1>0. TypeOK /\ \A p \in Pushes : TaskFits(p) /\ LoopFits(p)
    BY DEF IInv
<1>t. /\ broadcast \in [Hubs -> BoundedSeq(Pushes)] /\ topicPush \in [Hubs -> BoundedSeq(Pushes)]
      /\ running \in [Hubs -> BOOLEAN]
    BY <1>0 DEF TypeOK
<1>x. \A h \in Hubs : exit[h] => exit'[h]
    BY <1>0, ExitStays
<1>h. \A g \in Pushes : loop[g].at # "none" => loop[g].hub \in Hubs
    BY <1>0 DEF LoopFits
<1>p. \A g \in Pushes : pc[g] \in {"send", "done"} => pc'[g] \in {"send", "done"}
    <2>1. ASSUME NEW g \in Pushes, NEW q \in Pushes, Handler(q), pc[g] \in {"send", "done"}
          PROVE  pc'[g] = pc[g]
        BY <1>0, <2>1, HandlerDoes DEF TaskFits
    <2>2. ASSUME NEW g \in Pushes, NEW q \in Pushes, TaskStep(q), pc[g] \in {"send", "done"}
          PROVE  pc'[g] \in {"send", "done"}
        <3>1. CASE g = q
            BY <1>0, <2>2, <3>1, TaskDoes
        <3>2. CASE g # q
            BY <1>0, <2>2, <3>2, TaskDoes
        <3> QED
            BY <3>1, <3>2
    <2> QED
        BY <2>1, <2>2, ConnRest, TickRest, LoopRests DEF Next
<1>1. ASSUME loop' = loop, running' = running PROVE Served'
    BY <1>1, <1>x, <1>h, <1>p DEF Served
<1>2. ASSUME NEW p \in Pushes, TaskStart(p) PROVE Served'
    <2>1. /\ pc[p] = "start" /\ ptr[p] \in Hubs /\ pc'[p] = "send" /\ exit' = exit
          /\ running' = [running EXCEPT ![ptr[p]] = TRUE]
        <3>1. pc \in [Pushes -> {"none", "lookup", "closed", "start", "send", "range", "done"}]
            BY <1>0 DEF TypeOK
        <3>2. pc' = [pc EXCEPT ![p] = "send"] /\ exit' = exit
            BY <1>2 DEF TaskStart, Task
        <3> QED
            BY <1>0, <1>2, <3>1, <3>2, TaskStartDoes
    <2>2. loop[p].at = "none" /\ loop[p].hub = NoHub /\ NoHub \notin Hubs
        BY <1>0, <2>1, ConstantsAssumption DEF Served, LoopFits, Hubs
    <2>3. /\ \A u \in Pushes \ {p} : loop'[u] = loop[u]
          /\ \/ running[ptr[p]] /\ loop'[p] = loop[p]
             \/ loop'[p].at = "select" /\ loop'[p].hub = ptr[p]
        BY <1>0, <1>2, TaskStartDoes
    <2>4. ASSUME NEW h \in Hubs, running[h] PROVE \E g \in Pushes : loop'[g].hub = h
        <3>1. PICK g \in Pushes : loop[g].hub = h
            BY <2>4 DEF Served
        <3>2. g # p
            BY <2>2, <3>1
        <3> QED
            BY <2>3, <3>1, <3>2
    <2>5. \A h \in Hubs : running'[h] => \E g \in Pushes : loop'[g].hub = h
        <3>1. \E g \in Pushes : loop'[g].hub = ptr[p]
            BY <2>1, <2>3, <2>4
        <3> QED
            BY <1>t, <2>1, <2>4, <3>1
    <2>6. \A g \in Pushes : loop'[g].at = "ended" => exit[loop'[g].hub]
        BY <2>2, <2>3 DEF Served
    <2>7. \A g \in Pushes : loop'[g].at # "none" => pc'[g] \in {"send", "done"}
        BY <1>p, <2>1, <2>3 DEF Served
    <2> QED
        BY <2>1, <2>5, <2>6, <2>7 DEF Served
<1>3. ASSUME NEW g \in Pushes, LoopStep(g) PROVE Served'
    <2>1. /\ \A u \in Pushes : loop'[u].hub = loop[u].hub /\ loop[g].at # "none"
          /\ \A u \in Pushes \ {g} : loop'[u] = loop[u]
          /\ loop'[g].at = "ended" => exit[loop[g].hub]
        <3>1. CASE LoopBroadcast(g) \/ LoopTopic(g)
            BY <1>0, <1>t, <3>1, TakeDoes DEF LoopBroadcast, LoopTopic
        <3>2. CASE LoopExit(g)
            <4>1. exit[loop[g].hub]
                BY <3>2 DEF LoopExit
            <4> QED
                BY <1>0, <3>2, <4>1, LoopExitDoes
        <3>3. ASSUME NEW c \in Conns, LoopSend(g, c)
              PROVE  /\ \A u \in Pushes : loop'[u].hub = loop[u].hub /\ loop[g].at # "none"
                     /\ \A u \in Pushes \ {g} : loop'[u] = loop[u]
                     /\ loop'[g].at # "ended"
            BY <1>0, <3>3, LoopSendDoes
        <3> QED
            BY <1>3, <3>1, <3>2, <3>3 DEF LoopStep
    <2>2. running' = running
        BY <1>3, LoopRests
    <2>3. exit' = exit
        BY <1>3 DEF LoopStep, LoopBroadcast, LoopTopic, LoopExit, LoopSend, LoopRest
    <2> QED
        BY <1>p, <2>1, <2>2, <2>3 DEF Served
<1> QED
    BY <1>1, <1>2, <1>3, NextLoop

\* A connection that a push is for after a step of a connection was so before
\* and stays; it is still in the same hub.
LEMMA ConnKeepsDue ==
    ASSUME TypeOK, NEW d \in Conns, ConnStep(d), NEW p \in Pushes, NEW c \in due'[p]
    PROVE  /\ c \in due[p]
           /\ Stays(c) => Stays(c)' /\ connectTime'[c] = connectTime[c]
<1>t. /\ life \in [Conns -> Lives] /\ connectTime \in [Conns -> 0..MaxTime]
      /\ due \in [Pushes -> SUBSET Conns]
    BY DEF TypeOK
<1> USE DEF Stays, Step
<1>1. CASE Exit(d)
    BY <1>t, <1>1 DEF Exit
<1>2. CASE OnOpened(d)
    BY <1>t, <1>2 DEF OnOpened
<1>3. CASE AddConn(d) \/ RemoveConn(d) \/ RemoveAliasConn(d)
    BY <1>t, <1>3 DEF AddConn, RemoveConn, RemoveAliasConn
<1>4. ASSUME NEW t \in Topics, AddAliasConn(d, t)
      PROVE  c \in due[p] /\ (Stays(c) => Stays(c)' /\ connectTime'[c] = connectTime[c])
    <2>1. life' = [life EXCEPT ![d] = "inHub"] /\ UNCHANGED <<due, connectTime>>
        BY <1>4 DEF AddAliasConn
    <2> QED
        BY <1>t, <2>1
<1> QED
    BY <1>1, <1>2, <1>3, <1>4 DEF ConnStep

LEMMA HubStays ==
    ASSUME TypeOK, Registry, [Next]_vars, NEW c \in Conns, Stays(c), Stays(c)'
    PROVE  /\ aliasHub \in Hubs /\ aliasHub' = aliasHub
           /\ c \in hubConns[aliasHub] /\ ~exit[aliasHub]
           /\ c \in hubConns'[aliasHub] /\ ~exit'[aliasHub]
           /\ \A h \in Hubs : c \in hubConns[h] => h = aliasHub
<1>1. InConnIDs(c) /\ InConnIDs(c)'
    BY DEF Stays, InConnIDs
<1>2. aliasHub \in Hubs
    BY <1>1 DEF Registry, TypeOK
<1>3. /\ c \in hubConns[aliasHub] /\ ~exit[aliasHub] /\ aliasHub # NoHub
      /\ \A h \in Hubs : c \in hubConns[h] => h = aliasHub
    BY <1>1, <1>2, ConstantsAssumption DEF Registry, Hubs
<1>4. aliasHub' = aliasHub
    <2>1. ASSUME NEW d \in Conns, ConnStep(d) PROVE aliasHub' = aliasHub
        <3>1. CASE RemoveAliasConn(d)
            <4>1. d # c
                BY <3>1 DEF RemoveAliasConn, Step, Stays
            <4> QED
                BY <1>3, <3>1, <4>1, RemoveDoes
        <3>2. ASSUME NEW t \in Topics, AddAliasConn(d, t) PROVE aliasHub' = aliasHub
            BY <1>3, <3>2 DEF AddAliasConn
        <3>3. CASE OnOpened(d) \/ AddConn(d) \/ Exit(d) \/ RemoveConn(d)
            BY <3>3 DEF OnOpened, AddConn, Exit, RemoveConn, hub
        <3> QED
            BY <2>1, <3>1, <3>2, <3>3 DEF ConnStep
    <2> QED
        BY <2>1, NextRegistered DEF Registered
<1>5. Registry'
    BY NextRegistry
<1>6. c \in hubConns'[aliasHub] /\ ~exit'[aliasHub]
    BY <1>1, <1>2, <1>3, <1>4, <1>5 DEF Registry
<1> QED
    BY <1>2, <1>3, <1>4, <1>6

\* What is left alone by the steps that are not a handler's or a connection's.
LEMMA DueRest ==
    ASSUME [Next]_vars
    PROVE  \/ UNCHANGED <<due, cancelled>>
           \/ \E p \in Pushes : Handler(p)
           \/ cancelled' = cancelled /\ \E c \in Conns : ConnStep(c)
<1>1. CASE Tick \/ UNCHANGED vars
    BY <1>1 DEF Tick, vars, task
<1>2. ASSUME NEW c \in Conns, ConnStep(c) PROVE cancelled' = cancelled
    BY <1>2 DEF ConnStep, OnOpened, AddAliasConn, AddConn, Exit, RemoveAliasConn, RemoveConn, Step, task
<1>3. ASSUME NEW p \in Pushes, TaskStep(p) PROVE UNCHANGED <<due, cancelled>>
    BY <1>3 DEF TaskStep, TaskLookup, TaskClosed, TaskStart, TaskEnqueue, TaskGivesUp, Task,
                RangeVisit, RangeEnd, SendRequestBytes
<1>4. ASSUME NEW g \in Pushes, LoopStep(g) PROVE UNCHANGED <<due, cancelled>>
    BY <1>4 DEF LoopStep, LoopBroadcast, LoopTopic, LoopSend, LoopExit, LoopRest, task
<1> QED
    BY <1>1, <1>2, <1>3, <1>4 DEF Next

\* A handler that is called: whom its push is for, and where its task begins.
Called(p) ==
    /\ kind[p] = "none" /\ kind'[p] # "none"
    /\ \A c \in due'[p] :
          /\ c \in Conns /\ Stays(c)
          /\ kind'[p] = "topic" => connectTime[c] <= info'[p]
          /\ \/ pc'[p] = "lookup" /\ kind'[p] \in HubKinds
             \/ pc'[p] = "range" /\ visited'[p] = {}
             \/ pc'[p] = "done" /\ c \in sending'[p]

LEMMA HandlerCalls ==
    ASSUME TypeOK, Subscribed, NEW p \in Pushes, DueFits(p), Handler(p)
    PROVE  /\ \A q \in Pushes \ {p} : due'[q] = due[q]
           /\ \/ Called(p) /\ cancelled' = cancelled
              \/ UNCHANGED <<kind, pc, ptr, info, visited, sending, due>> /\ cancelled' = cancelled \cup {p}
<1>t. /\ kind \in [Pushes -> {"none", "alias", "topic", "all", "conn"}]
      /\ pc \in [Pushes -> {"none", "lookup", "closed", "start", "send", "range", "done"}]
      /\ info \in [Pushes -> 0..MaxTime] /\ due \in [Pushes -> SUBSET Conns]
      /\ visited \in [Pushes -> SUBSET Conns] /\ sending \in [Pushes -> SUBSET Conns]
    BY DEF TypeOK
<1>d. kind[p] = "none" => due[p] = {} /\ visited[p] = {}
    BY DEF DueFits
<1> USE DEF Called, Handled, HubKinds, Stays
<1>1. CASE PushByAliasMessageHandler(p)
    BY <1>t, <1>1 DEF PushByAliasMessageHandler
<1>2. ASSUME NEW t \in Topics, PushByTopicMessageHandler(p, t)
      PROVE  Called(p) /\ cancelled' = cancelled /\ \A q \in Pushes \ {p} : due'[q] = due[q]
    <2>1. /\ kind[p] = "none" /\ kind'[p] = "topic" /\ info'[p] = subscribeTs[t]
          /\ pc'[p] = IF subscribeTs[t] = 0 THEN "done" ELSE "lookup"
          /\ due'[p] = {c \in Conns : life[c] \in {"inHub", "authed"} /\ topicOf[c] = t}
          /\ cancelled' = cancelled /\ \A q \in Pushes \ {p} : due'[q] = due[q]
        BY <1>t, <1>2 DEF PushByTopicMessageHandler
    <2>2. ASSUME NEW c \in due'[p]
          PROVE  c \in Conns /\ Stays(c) /\ subscribeTs[t] # 0 /\ connectTime[c] <= subscribeTs[t]
        BY <2>1, <2>2 DEF Subscribed, InConnIDs
    <2> QED
        BY <2>1, <2>2
<1>3. CASE PushAllMessageHandler(p)
    BY <1>t, <1>d, <1>3 DEF PushAllMessageHandler
<1>4. ASSUME NEW k \in KindsOf[p], HandlerRefuses(p, k)
      PROVE  Called(p) /\ cancelled' = cancelled /\ \A q \in Pushes \ {p} : due'[q] = due[q]
    BY <1>t, <1>d, <1>4 DEF HandlerRefuses
<1>5. ASSUME NEW c \in Conns, SendMessage(p, c)
      PROVE  Called(p) /\ cancelled' = cancelled /\ \A q \in Pushes \ {p} : due'[q] = due[q]
    <2>1. /\ kind[p] = "none" /\ kind'[p] = "conn" /\ pc'[p] = "done"
          /\ sending'[p] = IF InConnIDs(c) THEN {c} ELSE {}
          /\ due'[p] = {d \in {c} : InConnIDs(d) /\ ~Exited(d)}
          /\ cancelled' = cancelled /\ \A q \in Pushes \ {p} : due'[q] = due[q]
        BY <1>t, <1>5 DEF SendMessage
    <2>2. ASSUME NEW d \in due'[p] PROVE d \in Conns /\ Stays(d) /\ d \in sending'[p]
        BY <2>1, <2>2 DEF InConnIDs, Exited
    <2> QED
        BY <2>1, <2>2
<1>6. CASE Cancel(p)
    BY <1>6 DEF Cancel
<1> QED
    BY <1>1, <1>2, <1>3, <1>4, <1>5, <1>6 DEF Handler

LEMMA NextDue ==
    ASSUME IInv, LInv, [Next]_vars, NEW p \in Pushes
    PROVE  DueFits(p)'
<1>0. /\ TypeOK /\ Registry /\ Subscribed /\ DueFits(p) /\ TaskFits(p) /\ PushStays(p)
      /\ due \in [Pushes -> SUBSET Conns]
    BY NextTasks DEF IInv, LInv, TypeOK
<1>1. ASSUME UNCHANGED <<kind, visited, info, due, life, connectTime>> PROVE DueFits(p)'
    BY <1>0, <1>1 DEF DueFits, Stays
<1>2. ASSUME NEW c \in Conns, ConnStep(c) PROVE DueFits(p)'
    <2>1. UNCHANGED <<kind, visited, info>>
        BY <1>2, ConnRest
    <2>2. ASSUME NEW d \in due'[p] PROVE d \in due[p] /\ Stays(d)' /\ connectTime'[d] = connectTime[d]
        BY <1>0, <1>2, <2>2, ConnKeepsDue DEF DueFits
    <2> QED
        BY <1>0, <2>1, <2>2 DEF DueFits
<1>3. ASSUME NEW q \in Pushes, Handler(q) PROVE DueFits(p)'
    <2>1. UNCHANGED <<life, connectTime>> /\ DueFits(q)
        BY <1>0, <1>3, HandlerDoes DEF LInv
    <2>2. CASE q # p
        BY <1>0, <1>3, <2>1, <2>2, HandlerDoes, HandlerCalls DEF DueFits, Stays
    <2>3. CASE q = p
        BY <1>0, <1>3, <2>1, <2>3, HandlerCalls DEF DueFits, Called, Stays
    <2> QED
        BY <2>2, <2>3
<1>4. ASSUME NEW q \in Pushes, TaskStep(q) PROVE DueFits(p)'
    <2>1. UNCHANGED <<kind, info, life, connectTime>>
        BY <1>0, <1>4, TaskDoes
    <2>2. due' = due
        BY <1>4 DEF TaskStep, TaskLookup, TaskClosed, TaskStart, TaskEnqueue, TaskGivesUp, Task,
                    RangeVisit, RangeEnd, SendRequestBytes
    <2>3. kind[p] = "none" => visited'[p] = visited[p]
        <3>1. CASE q # p
            BY <1>0, <1>4, <3>1, TaskDoes
        <3>2. CASE q = p
            BY <1>0, <1>4, <3>2, TaskDoes DEF RangeVisit, SendRequestBytes, TaskFits
        <3> QED
            BY <3>1, <3>2
    <2> QED
        BY <1>0, <2>1, <2>2, <2>3 DEF DueFits, Stays
<1>5. ASSUME NEW g \in Pushes, LoopStep(g) PROVE UNCHANGED <<kind, visited, info, due, life, connectTime>>
    BY <1>5, LoopRests DEF LoopStep, LoopBroadcast, LoopTopic, LoopSend, LoopExit, LoopRest
<1>6. CASE Tick \/ UNCHANGED vars
    BY <1>1, <1>6, TickRest DEF Tick, vars
<1> QED
    BY <1>1, <1>2, <1>3, <1>4, <1>5, <1>6 DEF Next

LEMMA TailedRange ==
    ASSUME NEW S, NEW s \in Seq(S), s # <<>>, NEW e \in Range(s)
    PROVE  e = Head(s) \/ e \in Range(Tail(s))
<1>1. PICK t : t = Tail(s)
    OBVIOUS
<1>2. /\ DOMAIN s = 1 .. Len(s) /\ DOMAIN t = 1 .. Len(s) - 1 /\ Len(s) \in Nat \ {0}
      /\ \A i \in 1 .. Len(s) - 1 : t[i] = s[i + 1]
      /\ Head(s) = s[1]
    BY <1>1, Tailed
<1>3. PICK i \in 1 .. Len(s) : e = s[i]
    BY <1>2 DEF Range
<1>4. CASE i = 1
    BY <1>2, <1>3, <1>4
<1>5. CASE i # 1
    <2>1. i - 1 \in 1 .. Len(s) - 1 /\ (i - 1) + 1 = i
        BY <1>2, <1>5
    <2>2. t[i - 1] = e
        BY <1>2, <1>3, <2>1
    <2> QED
        BY <1>1, <1>2, <2>1, <2>2 DEF Range
<1> QED
    BY <1>4, <1>5

LEMMA GotGrows ==
    ASSUME IInv, [Next]_vars, NEW c \in Conns, NEW p \in Range(got[c])
    PROVE  p \in Range(got'[c])
<1>0. TypeOK /\ \A g \in Pushes : LoopFits(g)
    BY DEF IInv
<1>1. CASE GotKept
    BY <1>1 DEF GotKept
<1>2. ASSUME NEW q \in Pushes, NEW d \in Conns, Writes(q, d) PROVE p \in Range(got'[c])
    <2>1. CASE d = c
        BY <1>0, <1>2, <2>1, WritesRange
    <2>2. CASE d # c
        BY <1>0, <1>2, <2>2, WritesRange
    <2> QED
        BY <2>1, <2>2
<1>3. \A g \in Pushes, d \in Conns : LoopSend(g, d) => loop[g].msg \in Pushes
    BY <1>0, LoopSendDoes
<1> QED
    BY <1>1, <1>2, <1>3, NextWrites

\* What is sent to a connection that has not exited arrives.
LEMMA SentArrives ==
    ASSUME TypeOK, NEW p \in Pushes, NEW c \in Conns, Sent(p, c), ~Exited(c)
    PROVE  p \in Range(got'[c])
<1>1. got[c] \in Seq(Pushes) /\ got \in [Conns -> Seq(Pushes)]
    BY DEF TypeOK
<1>2. got'[c] = Append(got[c], p)
    BY <1>1 DEF Sent
<1>3. Range(Append(got[c], p)) = Range(got[c]) \cup {p}
    BY <1>1, AppendedRange
<1> QED
    BY <1>2, <1>3

\* A task of a pool that has the push for c keeps it until it sends it.
LEMMA SendingStays ==
    ASSUME IInv, LInv, [Next]_vars, NEW p \in Pushes, NEW c \in Conns,
           c \in sending[p], Stays(c), p \notin cancelled
    PROVE  c \in sending'[p] \/ p \in Range(got'[c])
<1>0. TypeOK /\ TaskFits(p) /\ sending \in [Pushes -> SUBSET Conns]
    BY DEF IInv, TypeOK
<1>1. ASSUME NEW q \in Pushes, Handler(q) PROVE c \in sending'[p]
    <2>1. CASE q # p
        BY <1>0, <1>1, <2>1, HandlerDoes
    <2>2. CASE q = p
        BY <1>0, <1>1, <2>2, HandlerDoes DEF TaskFits
    <2> QED
        BY <2>1, <2>2
<1>2. ASSUME NEW q \in Pushes, NEW d \in Conns, RangeVisit(q, d) PROVE c \in sending'[p]
    BY <1>0, <1>2 DEF RangeVisit
<1>3. ASSUME NEW q \in Pushes, NEW d \in Conns, SendRequestBytes(q, d)
      PROVE  c \in sending'[p] \/ p \in Range(got'[c])
    <2>1. CASE q = p /\ d = c
        <3>1. Sent(p, c) /\ ~Exited(c)
            BY <1>3, <2>1 DEF SendRequestBytes, Stays, Exited
        <3> QED
            BY <1>0, <3>1, SentArrives
    <2>2. CASE q # p \/ d # c
        BY <1>0, <1>3, <2>2, SendDoes
    <2> QED
        BY <2>1, <2>2
<1>4. ASSUME NEW q \in Pushes, TaskStep(q) PROVE c \in sending'[p] \/ p \in Range(got'[c])
    BY <1>0, <1>2, <1>3, <1>4, TaskDoes
<1> QED
    BY <1>1, <1>4, ConnRest, TickRest, LoopRests DEF Next

\* A goroutine: what a step may do to it.
LEMMA LoopMoves ==
    ASSUME IInv, LInv, [Next]_vars, NEW g \in Pushes, loop[g].at # "none"
    PROVE  /\ loop'[g].hub = loop[g].hub
           /\ \/ loop'[g] = loop[g]
              \/ LoopBroadcast(g) \/ LoopTopic(g) \/ LoopExit(g)
              \/ \E c \in Conns : LoopSend(g, c)
<1>0. TypeOK /\ Served /\ \A p \in Pushes : TaskFits(p) /\ LoopFits(p)
    BY DEF IInv, LInv
<1>t. broadcast \in [Hubs -> BoundedSeq(Pushes)] /\ topicPush \in [Hubs -> BoundedSeq(Pushes)]
    BY <1>0 DEF TypeOK
<1>1. ASSUME NEW p \in Pushes, TaskStart(p) PROVE loop'[g] = loop[g]
    <2>1. pc[p] = "start" /\ \A u \in Pushes \ {p} : loop'[u] = loop[u]
        BY <1>0, <1>1, TaskStartDoes
    <2>2. p # g
        BY <1>0, <2>1 DEF Served
    <2> QED
        BY <2>1, <2>2
<1>2. ASSUME NEW u \in Pushes, LoopStep(u)
      PROVE  loop'[g].hub = loop[g].hub /\ (u # g => loop'[g] = loop[g])
    <2>1. CASE LoopBroadcast(u) \/ LoopTopic(u)
        BY <1>0, <1>t, <2>1, TakeDoes DEF LoopBroadcast, LoopTopic
    <2>2. CASE LoopExit(u)
        BY <1>0, <2>2, LoopExitDoes
    <2>3. ASSUME NEW c \in Conns, LoopSend(u, c)
          PROVE  loop'[g].hub = loop[g].hub /\ (u # g => loop'[g] = loop[g])
        BY <1>0, <2>3, LoopSendDoes
    <2> QED
        BY <1>2, <2>1, <2>2, <2>3 DEF LoopStep
<1>3. CASE loop' = loop
    BY <1>3
<1>4. CASE \E u \in Pushes : LoopStep(u)
    BY <1>2, <1>4 DEF LoopStep
<1> QED
    BY <1>1, <1>3, <1>4, NextLoop

LEMMA ComesStays ==
    ASSUME IInv, LInv, [Next]_vars, NEW p \in Pushes, NEW c \in due[p], NEW g \in Pushes, Comes(g, p, c)
    PROVE  Comes(g, p, c)' \/ p \in Range(got'[c])
<1>0. TypeOK /\ LoopFits(g) /\ DueFits(p) /\ c \in Conns
    BY DEF IInv, LInv, TypeOK
<1>1. loop[g].at = "deliver" /\ loop[g].msg = p /\ c \in loop[g].left
    BY DEF Comes
<1>2. ~TopicSkips(p, c) /\ ~Exited(c)
    <2>1. connectTime[c] \in Nat /\ info[p] \in Nat
        BY <1>0, ConstantsAssumption DEF TypeOK
    <2>2. Stays(c) /\ (kind[p] = "topic" => connectTime[c] <= info[p])
        BY <1>0 DEF DueFits
    <2> QED
        BY <2>1, <2>2 DEF TopicSkips, Exited, Stays
<1>3. CASE loop'[g] = loop[g]
    BY <1>1, <1>3 DEF Comes
<1>4. ASSUME NEW d \in Conns, LoopSend(g, d) PROVE Comes(g, p, c)' \/ p \in Range(got'[c])
    <2>1. CASE d = c
        <3>1. Sent(p, c)
            BY <1>1, <1>2, <1>4, <2>1 DEF LoopSend
        <3> QED
            BY <1>0, <1>2, <3>1, SentArrives
    <2>2. CASE d # c
        <3>1. \/ /\ loop'[g].at = "deliver" /\ loop'[g].msg = loop[g].msg
                 /\ loop'[g].left = loop[g].left \ {d}
              \/ loop[g].left = {d}
            BY <1>0, <1>4, LoopSendDoes
        <3> QED
            BY <1>1, <2>2, <3>1 DEF Comes
    <2> QED
        BY <2>1, <2>2
<1>5. ~LoopBroadcast(g) /\ ~LoopTopic(g) /\ ~LoopExit(g)
    BY <1>1 DEF LoopBroadcast, LoopTopic, LoopExit, Take
<1> QED
    BY <1>1, <1>3, <1>4, <1>5, LoopMoves

LEMMA WaitsStays ==
    ASSUME IInv, LInv, [Next]_vars, NEW p \in Pushes, NEW c \in Conns, Stays(c), Stays(c)',
           NEW g \in Pushes, Waits(g, p, c)
    PROVE  Comes(g, p, c)' \/ Waits(g, p, c)'
<1>0. /\ TypeOK /\ SingleLoop /\ Registry /\ \A u \in Pushes : LoopFits(u)
      /\ broadcast \in [Hubs -> BoundedSeq(Pushes)] /\ topicPush \in [Hubs -> BoundedSeq(Pushes)]
    BY DEF IInv, LInv, TypeOK
<1>h. PICK h \in Hubs : h = loop[g].hub
    BY <1>0 DEF Waits, LoopFits
<1>1. /\ loop[g].at \in {"select", "deliver"} /\ c \in hubConns[h] /\ ~exit[h]
      /\ p \in Range(broadcast[h]) \/ p \in Range(topicPush[h])
    BY <1>h DEF Waits
<1>2. c \in hubConns'[h] /\ ~exit'[h]
    BY <1>0, <1>1, HubStays
<1>3. loop'[g].hub = h /\ loop'[g].at \in {"select", "deliver"}
    <2>1. loop'[g].hub = h
        BY <1>h, <1>1, LoopMoves
    <2>2. CASE LoopBroadcast(g) \/ LoopTopic(g)
        BY <1>0, <1>1, <2>1, <2>2, TakeDoes DEF LoopBroadcast, LoopTopic
    <2>3. ASSUME NEW d \in Conns, LoopSend(g, d) PROVE loop'[g].at \in {"select", "deliver"}
        BY <1>0, <2>3, LoopSendDoes
    <2>4. ~LoopExit(g)
        BY <1>h, <1>1 DEF LoopExit
    <2> QED
        BY <1>1, <2>1, <2>2, <2>3, <2>4, LoopMoves
<1>4. ASSUME NEW ch, ch \in [Hubs -> BoundedSeq(Pushes)], Take(g, ch), p = Head(ch[h])
      PROVE  Comes(g, p, c)'
    BY <1>0, <1>h, <1>1, <1>4, TakeDoes DEF Comes
<1>5. ASSUME NEW u \in Pushes, loop[u].hub = h PROVE u = g
    BY <1>0, <1>h, <1>5, ConstantsAssumption DEF SingleLoop, Hubs
<1>6. broadcast[h] \in Seq(Pushes) /\ topicPush[h] \in Seq(Pushes)
    BY <1>0, ChannelTypes
<1>7. CASE p \in Range(broadcast[h])
    <2>1. ASSUME NEW q \in Pushes, broadcast'[h] = Append(broadcast[h], q) PROVE p \in Range(broadcast'[h])
        BY <1>6, <1>7, <2>1, AppendedRange
    <2>2. ASSUME NEW u \in Pushes, LoopBroadcast(u), loop[u].hub = h, broadcast[h] # <<>>,
                 broadcast'[h] = Tail(broadcast[h])
          PROVE  Comes(g, p, c)' \/ p \in Range(broadcast'[h])
        <3>1. Take(g, broadcast)
            BY <1>5, <2>2 DEF LoopBroadcast
        <3>2. p = Head(broadcast[h]) \/ p \in Range(Tail(broadcast[h]))
            BY <1>6, <1>7, <2>2, TailedRange
        <3> QED
            BY <1>0, <1>4, <2>2, <3>1, <3>2
    <2>3. Comes(g, p, c)' \/ p \in Range(broadcast'[h])
        BY <1>7, <2>1, <2>2, NextBroadcast
    <2> QED
        BY <1>2, <1>3, <2>3 DEF Waits
<1>8. CASE p \in Range(topicPush[h])
    <2>1. ASSUME NEW q \in Pushes, topicPush'[h] = Append(topicPush[h], q) PROVE p \in Range(topicPush'[h])
        BY <1>6, <1>8, <2>1, AppendedRange
    <2>2. ASSUME NEW u \in Pushes, LoopTopic(u), loop[u].hub = h, topicPush[h] # <<>>,
                 topicPush'[h] = Tail(topicPush[h])
          PROVE  Comes(g, p, c)' \/ p \in Range(topicPush'[h])
        <3>1. Take(g, topicPush)
            BY <1>5, <2>2 DEF LoopTopic
        <3>2. p = Head(topicPush[h]) \/ p \in Range(Tail(topicPush[h]))
            BY <1>6, <1>8, <2>2, TailedRange
        <3> QED
            BY <1>0, <1>4, <2>2, <3>1, <3>2
    <2>3. Comes(g, p, c)' \/ p \in Range(topicPush'[h])
        BY <1>8, <2>1, <2>2, NextTopicPush
    <2> QED
        BY <1>2, <1>3, <2>3 DEF Waits
<1> QED
    BY <1>1, <1>7, <1>8

\* A push that is on its way to a connection that stays remains so.
LEMMA WayStays ==
    ASSUME IInv, LInv, [Next]_vars, NEW p \in Pushes, NEW c \in due[p], c \in due'[p],
           p \notin cancelled, OnWay(p, c)
    PROVE  OnWay(p, c)'
<1>0. c \in Conns /\ Stays(c) /\ Stays(c)'
    <2>1. due \in [Pushes -> SUBSET Conns] /\ DueFits(p) /\ DueFits(p)'
        BY NextDue DEF IInv, LInv, TypeOK
    <2> QED
        BY <2>1 DEF DueFits
<1>1. CASE p \in Range(got[c])
    BY <1>0, <1>1, GotGrows DEF OnWay
<1>2. CASE c \in sending[p]
    BY <1>0, <1>2, SendingStays DEF OnWay
<1>3. ASSUME NEW g \in Pushes, Comes(g, p, c) PROVE OnWay(p, c)'
    BY <1>3, ComesStays DEF OnWay
<1>4. ASSUME NEW g \in Pushes, Waits(g, p, c) PROVE OnWay(p, c)'
    BY <1>0, <1>4, WaitsStays DEF OnWay
<1> QED
    BY <1>1, <1>2, <1>3, <1>4 DEF OnWay

\* A task that puts a push into the channel of the hub of the map.
LEMMA EnqueuedWaits ==
    ASSUME IInv, LInv, [Next]_vars, NEW p \in Pushes, NEW c \in Conns, Stays(c), Stays(c)',
           TaskEnqueue(p), ptr[p] = aliasHub, running[ptr[p]]
    PROVE  OnWay(p, c)'
<1>0. /\ TypeOK /\ TaskFits(p) /\ Registry /\ Served /\ \A u \in Pushes : LoopFits(u)
      /\ broadcast \in [Hubs -> BoundedSeq(Pushes)] /\ topicPush \in [Hubs -> BoundedSeq(Pushes)]
    BY DEF IInv, LInv, TypeOK
<1>1. PICK h \in Hubs : h = ptr[p]
    BY <1>0, TaskEnqueueDoes
<1>2. c \in hubConns'[h] /\ ~exit'[h] /\ ~exit[h]
    BY <1>0, <1>1, HubStays
<1>3. PICK g \in Pushes : loop[g].hub = h
    BY <1>0, <1>1 DEF Served
<1>4. loop[g].at \in {"select", "deliver"}
    <2>1. loop[g] \in Loops
        BY <1>0, LoopTyped
    <2>2. loop[g].at # "none" /\ loop[g].at # "ended"
        BY <1>0, <1>2, <1>3, ConstantsAssumption DEF LoopFits, Served, Hubs
    <2> QED
        BY <2>1, <2>2 DEF Loops
<1>5. loop' = loop
    BY DEF TaskEnqueue
<1>6. broadcast[h] \in Seq(Pushes) /\ topicPush[h] \in Seq(Pushes)
    BY <1>0, ChannelTypes
<1>7. p \in Range(Append(broadcast[h], p)) /\ p \in Range(Append(topicPush[h], p))
    BY <1>6, AppendedRange
<1>8. broadcast'[h] = Append(broadcast[h], p) \/ topicPush'[h] = Append(topicPush[h], p)
    BY <1>0, <1>1, TaskEnqueueDoes
<1>9. p \in Range(broadcast'[h]) \/ p \in Range(topicPush'[h])
    BY <1>7, <1>8
<1>10. Waits(g, p, c)'
    BY <1>2, <1>3, <1>4, <1>5, <1>9 DEF Waits
<1> QED
    BY <1>10 DEF OnWay

\* What the task of a push has before it for a connection, it still has, or
\* the push is on its way.
LEMMA AheadMoves ==
    ASSUME IInv, LInv, [Next]_vars, NEW p \in Pushes, NEW c \in due[p], c \in due'[p],
           p \notin cancelled, p \notin cancelled', Ahead(p, c)
    PROVE  Ahead(p, c)' \/ (pc'[p] \in {"range", "done"} /\ OnWay(p, c)')
<1>0. /\ TypeOK /\ Registry /\ Subscribed /\ TaskFits(p) /\ \A q \in Pushes : DueFits(q)
      /\ c \in Conns /\ Stays(c) /\ Stays(c)' /\ kind[p] # "none"
    <2>1. due \in [Pushes -> SUBSET Conns] /\ DueFits(p) /\ DueFits(p)'
        BY NextDue DEF IInv, LInv, TypeOK
    <2> QED
        BY <2>1 DEF IInv, LInv, DueFits
<1>t. /\ pc \in [Pushes -> {"none", "lookup", "closed", "start", "send", "range", "done"}]
      /\ ptr \in [Pushes -> Hubs \cup {NoHub}] /\ running \in [Hubs -> BOOLEAN]
      /\ visited \in [Pushes -> SUBSET Conns] /\ sending \in [Pushes -> SUBSET Conns]
    BY <1>0 DEF TypeOK
<1>a. aliasHub \in Hubs /\ aliasHub' = aliasHub /\ ~exit[aliasHub] /\ aliasHub # NoHub
    BY <1>0, HubStays, ConstantsAssumption DEF Hubs
<1>1. ASSUME kind'[p] = kind[p], pc'[p] = pc[p], ptr'[p] = ptr[p], visited'[p] = visited[p],
             \A h \in Hubs : running[h] => running'[h]
      PROVE  Ahead(p, c)'
    BY <1>0, <1>a, <1>1 DEF Ahead, TaskFits
<1>2. ASSUME NEW q \in Pushes, Handler(q) PROVE Ahead(p, c)'
    <2>1. UNCHANGED <<ptr, running>>
        BY <1>0, <1>2, HandlerDoes
    <2>2. CASE q # p
        BY <1>0, <1>1, <1>2, <2>1, <2>2, HandlerDoes
    <2>3. CASE q = p
        BY <1>0, <1>2, <2>3, HandlerCalls DEF Called
    <2> QED
        BY <2>2, <2>3
<1>3. ASSUME NEW q \in Pushes, TaskStep(q), q # p PROVE Ahead(p, c)'
    <2>1. \A h \in Hubs : running[h] => running'[h]
        <3>1. CASE TaskStart(q)
            <4>1. running' = [running EXCEPT ![ptr[q]] = TRUE]
                BY <3>1 DEF TaskStart
            <4> QED
                BY <1>t, <4>1
        <3>2. CASE ~TaskStart(q)
            BY <1>3, <3>2, TaskKeepsLoop
        <3> QED
            BY <3>1, <3>2
    <2> QED
        BY <1>0, <1>1, <1>3, <2>1, TaskDoes
<1>4. ASSUME TaskStep(p) PROVE Ahead(p, c)' \/ (pc'[p] \in {"range", "done"} /\ OnWay(p, c)')
    <2>k. kind' = kind
        BY <1>0, <1>4, TaskDoes
    <2>1. CASE TaskLookup(p)
        <3>1. /\ pc[p] = "lookup" /\ pc' = [pc EXCEPT ![p] = "closed"]
              /\ ptr' = [ptr EXCEPT ![p] = aliasHub]
            BY <1>a, <2>1 DEF TaskLookup, Task
        <3>2. pc'[p] = "closed" /\ ptr'[p] = aliasHub /\ kind[p] \in HubKinds
            BY <1>0, <1>t, <3>1 DEF TaskFits
        <3> QED
            BY <1>a, <2>k, <3>2 DEF Ahead
    <2>2. CASE TaskClosed(p)
        <3>1. pc[p] = "closed"
            BY <2>2 DEF TaskClosed, Task
        <3>2. ptr[p] = aliasHub /\ kind[p] \in HubKinds
            BY <3>1 DEF Ahead
        <3>3. pc' = [pc EXCEPT ![p] = "start"] /\ ptr' = ptr
            BY <1>a, <2>2, <3>2 DEF TaskClosed, Task
        <3>4. pc'[p] = "start" /\ ptr'[p] = aliasHub
            BY <1>t, <3>2, <3>3
        <3> QED
            BY <1>a, <2>k, <3>2, <3>4 DEF Ahead
    <2>3. CASE TaskStart(p)
        <3>1. pc[p] = "start"
            BY <2>3 DEF TaskStart, Task
        <3>2. ptr[p] = aliasHub /\ kind[p] \in HubKinds
            BY <3>1 DEF Ahead
        <3>3. /\ pc' = [pc EXCEPT ![p] = "send"] /\ ptr' = ptr
              /\ running' = [running EXCEPT ![ptr[p]] = TRUE]
            BY <2>3 DEF TaskStart, Task
        <3>4. pc'[p] = "send" /\ ptr'[p] = aliasHub /\ running'[aliasHub]
            BY <1>t, <1>a, <3>2, <3>3
        <3> QED
            BY <1>a, <2>k, <3>2, <3>4 DEF Ahead
    <2>4. CASE TaskEnqueue(p)
        <3>1. pc[p] = "send" /\ pc' = [pc EXCEPT ![p] = "done"]
            BY <2>4 DEF TaskEnqueue, Task
        <3>2. ptr[p] = aliasHub /\ running[ptr[p]]
            BY <3>1 DEF Ahead
        <3> QED
            BY <1>0, <1>t, <2>4, <3>1, <3>2, EnqueuedWaits
    <2>5. CASE TaskGivesUp(p)
        <3>1. pc[p] = "send" /\ exit[ptr[p]]
            BY <2>5 DEF TaskGivesUp, Task
        <3> QED
            BY <1>a, <3>1 DEF Ahead
    <2>6. ASSUME NEW d \in Conns, RangeVisit(p, d)
          PROVE  Ahead(p, c)' \/ (pc'[p] \in {"range", "done"} /\ OnWay(p, c)')
        <3>1. pc[p] = "range" /\ pc' = pc /\ visited'[p] = visited[p] \cup {d} /\ d \in sending'[p]
            BY <1>t, <2>6 DEF RangeVisit
        <3>2. CASE d = c
            BY <3>1, <3>2 DEF OnWay
        <3>3. CASE d # c
            BY <3>1, <3>3 DEF Ahead
        <3> QED
            BY <3>2, <3>3
    <2>7. ASSUME NEW d \in Conns, SendRequestBytes(p, d) PROVE Ahead(p, c)'
        <3>1. UNCHANGED <<kind, pc, ptr, visited, running>>
            BY <1>0, <2>7, SendDoes
        <3> QED
            BY <1>1, <3>1
    <2>8. CASE RangeEnd(p)
        BY <2>8 DEF RangeEnd, Ahead
    <2> QED
        BY <1>4, <2>1, <2>2, <2>3, <2>4, <2>5, <2>6, <2>7, <2>8 DEF TaskStep
<1> QED
    BY <1>1, <1>2, <1>3, <1>4, ConnRest, TickRest, LoopRests DEF Next

LEMMA NextKept ==
    ASSUME IInv, LInv, [Next]_vars, NEW p \in Pushes, NEW c \in Conns
    PROVE  Kept(p, c)'
<1> SUFFICES ASSUME c \in due'[p], p \notin cancelled'
             PROVE  Ahead(p, c)' \/ (pc'[p] \in {"range", "done"} /\ OnWay(p, c)')
    BY DEF Kept
<1>0. /\ TypeOK /\ Subscribed /\ Kept(p, c) /\ \A q \in Pushes : DueFits(q)
      /\ cancelled \subseteq Pushes
    BY DEF IInv, LInv, TypeOK
<1>1. CASE Handler(p) /\ Called(p)
    BY <1>1 DEF Called, Ahead, OnWay
<1>2. CASE c \in due[p] /\ p \notin cancelled
    <2>1. CASE Ahead(p, c)
        BY <1>2, <2>1, AheadMoves
    <2>2. CASE pc[p] \in {"range", "done"} /\ OnWay(p, c)
        <3>1. OnWay(p, c)'
            BY <1>2, <2>2, WayStays
        <3>2. pc'[p] \in {"range", "done"}
            <4>1. kind[p] # "none"
                BY <1>0, <1>2 DEF DueFits
            <4>2. ASSUME NEW q \in Pushes, Handler(q) PROVE pc'[p] = pc[p]
                BY <1>0, <4>1, <4>2, HandlerDoes
            <4>3. ASSUME NEW q \in Pushes, TaskStep(q) PROVE pc'[p] \in {"range", "done"}
                <5>1. CASE q = p
                    BY <1>0, <2>2, <4>3, <5>1, TaskDoes
                <5>2. CASE q # p
                    BY <1>0, <2>2, <4>3, <5>2, TaskDoes
                <5> QED
                    BY <5>1, <5>2
            <4> QED
                BY <2>2, <4>2, <4>3, ConnRest, TickRest, LoopRests DEF Next
        <3> QED
            BY <3>1, <3>2
    <2> QED
        BY <1>0, <1>2, <2>1, <2>2 DEF Kept
<1>3. (Handler(p) /\ Called(p)) \/ (c \in due[p] /\ p \notin cancelled)
    <2>1. ASSUME NEW q \in Pushes, Handler(q)
          PROVE  (Handler(p) /\ Called(p)) \/ (c \in due[p] /\ p \notin cancelled)
        <3>1. CASE q = p
            BY <1>0, <2>1, <3>1, HandlerCalls
        <3>2. CASE q # p
            BY <1>0, <2>1, <3>2, HandlerCalls
        <3> QED
            BY <3>1, <3>2
    <2>2. ASSUME NEW d \in Conns, ConnStep(d), cancelled' = cancelled PROVE c \in due[p] /\ p \notin cancelled
        BY <1>0, <2>2, ConnKeepsDue
    <2> QED
        BY <2>1, <2>2, DueRest
<1> QED
    BY <1>1, <1>2, <1>3

(***************************************************************************)
(* Theorems                                                                *)
(***************************************************************************)
LEMMA InitIInv == Init => IInv
<1> SUFFICES ASSUME Init PROVE IInv
    OBVIOUS
<1> USE ConstantsAssumption DEF Init
<1>1. /\ <<>> \in Seq(Pushes) /\ Len(<<>>) = 0 /\ DOMAIN <<>> = {} /\ 1 .. 0 = {}
      /\ <<>> \in BoundedSeq(Pushes)
    BY DEF BoundedSeq
<1>2. Range(<<>>) = {} /\ IsInjective(<<>>)
    BY <1>1 DEF Range, IsInjective
<1>3. Idle \in Loops /\ Idle.at = "none" /\ Idle.hub = NoHub /\ Idle.left = {}
    BY DEF Idle, Loops
<1>4. TypeOK
    <2>1. now \in 1..MaxTime /\ connectTime \in [Conns -> 0..MaxTime]
          /\ subscribeTs \in [Topics -> 0..MaxTime] /\ info \in [Pushes -> 0..MaxTime]
        OBVIOUS
    <2>2. loop \in [Pushes -> Loops]
        BY <1>3
    <2> QED
        BY <1>1, <2>1, <2>2 DEF TypeOK, Lives, Loops, Hubs
<1>5. Born /\ DeliveredOnce
    BY <1>2, <1>3 DEF Born, DeliveredOnce
<1>6. \A p \in Pushes : TaskFits(p) /\ LoopFits(p)
    BY <1>3 DEF TaskFits, LoopFits
<1>7. SingleLoop /\ Taken
    BY <1>3 DEF SingleLoop, Taken
<1>8. \A h \in Hubs : ChannelFits(h) /\ QueueFits(h)
    BY <1>1, <1>2, <1>3 DEF ChannelFits, QueueFits
<1>9. \A p \in Pushes, c \in Conns : GotFits(p, c)
    BY <1>2 DEF GotFits
<1>10. HubOrder
    BY <1>1 DEF HubOrder
<1> QED
    BY <1>4, <1>5, <1>6, <1>7, <1>8, <1>9, <1>10 DEF IInv

\* The inductive invariant holds in every reachable state of the pipeline.
THEOREM Invariant == Spec => []IInv
<1>1. Init => IInv
    BY InitIInv
<1>2. IInv /\ [Next]_vars => IInv'
    <2> SUFFICES ASSUME IInv, [Next]_vars PROVE IInv'
        OBVIOUS
    <2>1. TypeOK' /\ Born' /\ SingleLoop' /\ DeliveredOnce' /\ HubOrder'
        BY NextTypes, NextBorn, NextSingleLoop, NextOnce, NextOrder
    <2>2. \A p \in Pushes : TaskFits(p)' /\ LoopFits(p)'
        BY NextTasks, NextLoops
    <2>3. \A h \in Hubs : ChannelFits(h)' /\ QueueFits(h)'
        BY NextChannels, NextQueue
    <2>4. Taken'
        BY NextLoops DEF Taken
    <2>5. \A p \in Pushes, c \in Conns : GotFits(p, c)'
        BY NextGot
    <2> QED
        BY <2>1, <2>2, <2>3, <2>4, <2>5 DEF IInv, Hubs
<1> QED
    BY <1>1, <1>2, PTL DEF Spec

\* Type correctness: no step of a handler, a task or a goroutine of a hub
\* leaves a variable outside its type; no channel holds more than its buffer.
THEOREM TypeCorrect == Spec => []TypeOK
<1>1. IInv => TypeOK
    BY DEF IInv
<1> QED
    BY <1>1, Invariant, PTL

\* A message handed to a node once is written at most once to a socket,
\* through however many tasks, hubs and goroutines it goes (group.go:242-365).
THEOREM NoSecondDelivery == Spec => []DeliveredOnce
<1>1. IInv => DeliveredOnce
    BY DEF IInv
<1> QED
    BY <1>1, Invariant, PTL

\* Every connection gets what a hub accepted in the order the hub accepted it,
\* however many tasks try to start the hub's goroutine (hub.go:142-148).
THEOREM HubsKeepOrder == Spec => []HubOrder
<1>1. IInv => HubOrder
    BY DEF IInv
<1> QED
    BY <1>1, Invariant, PTL

LEMMA InitLInv == Init => LInv
<1> SUFFICES ASSUME Init PROVE LInv
    OBVIOUS
<1>1. Registry /\ Served
    BY DEF Init, Registry, Served, InConnIDs, Idle, Hubs
<1>2. Subscribed
    BY ConstantsAssumption DEF Init, Subscribed, InConnIDs
<1>3. \A p \in Pushes : DueFits(p)
    BY DEF Init, DueFits
<1>4. \A p \in Pushes, c \in Conns : Kept(p, c)
    BY DEF Init, Kept
<1> QED
    BY <1>1, <1>2, <1>3, <1>4 DEF LInv

\* Once the task of a push is over, the push is on its way to every connection
\* that it was for when the handler was called and that has not begun to close,
\* unless the context of the call is done: hubs closed and made again under the
\* task, goroutines and full channels lose none (group.go:243-275, 316-345).
THEOREM NonePushedInVain == Spec => []NothingLost
<1>1. Init => IInv /\ LInv
    BY InitIInv, InitLInv
<1>2. (IInv /\ LInv) /\ [Next]_vars => LInv'
    <2> SUFFICES ASSUME IInv, LInv, [Next]_vars PROVE LInv'
        OBVIOUS
    <2>1. Registry' /\ Subscribed' /\ Served'
        BY NextRegistry, NextSubscribed, NextServed DEF IInv, LInv
    <2>2. \A p \in Pushes : DueFits(p)'
        BY NextDue
    <2>3. \A p \in Pushes, c \in Conns : Kept(p, c)'
        BY NextKept
    <2> QED
        BY <2>1, <2>2, <2>3 DEF LInv
<1>3. LInv => NothingLost
    <2> SUFFICES ASSUME LInv, NEW p \in Pushes, NEW c \in Conns,
                        c \in due[p], pc[p] = "done", p \notin cancelled
                 PROVE  OnItsWay(p, c)
        BY DEF NothingLost
    <2>1. OnWay(p, c)
        BY DEF LInv, Kept, Ahead
    <2> QED
        BY <2>1 DEF OnWay, Comes, Waits, OnItsWay
<1> QED
    BY <1>1, <1>2, <1>3, Invariant, PTL DEF Spec
=============================================================================
