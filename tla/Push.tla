-------------------------------- MODULE Push --------------------------------
(***************************************************************************)
(* How a pushed message reaches the sockets of one node: the handlers of   *)
(* the message queue (broker/server.go), SendMessage                       *)
(* (broker/trpc_handler.go), the tasks they submit to the goroutine pools  *)
(* of the group manager (broker/group.go), the hub of a user with its      *)
(* goroutine (broker/hub.go) and Conn.Send (broker/conn.go).               *)
(*                                                                         *)
(* One business and one user (alias) are modelled: another user has a hub  *)
(* of its own and shares only the pools. The connections walk through the  *)
(* registries in the order that module Broker shows; a hub is named after  *)
(* the connection it was made for.                                         *)
(*                                                                         *)
(* A definition that stands right before another and is used nowhere is a  *)
(* faulty variant of it, for testing that a property notices the fault.    *)
(***************************************************************************)
EXTENDS Naturals, Sequences, FiniteSets, Functions

CONSTANTS
    Conns,          \* connections of the user
    Pushes,         \* bound: one name for every call of a handler
    Topics,         \* topics of the users' tokens
    HubCap,         \* buffer of hub.broadcast and of hub.topicPush (16)
    PoolSize,       \* size of each of the three pools
    MaxTime,        \* bound: the last second of the clock
    KindsOf,        \* bound: the handlers a push may come through
    NoHub, NoPush, NoTopic

ASSUME ConstantsAssumption ==
    /\ IsFiniteSet(Conns) /\ IsFiniteSet(Pushes) /\ IsFiniteSet(Topics)
    /\ HubCap \in Nat \ {0} /\ PoolSize \in Nat \ {0} /\ MaxTime \in Nat \ {0}
    /\ KindsOf \in [Pushes -> SUBSET {"alias", "topic", "all", "conn"}]
    /\ NoHub \notin Conns /\ NoPush \notin Pushes /\ NoTopic \notin Topics

Hubs == Conns

VARIABLES
    now,                    \* the clock, in seconds
    life, connectTime,      \* how far a connection is; when it was opened
    topicOf,                \* topicOf[c]: the topic in the token of c
    aliasHub,               \* aliasHub[alias]
    hubConns, exit, running,\* the fields of every hub that was made
    broadcast, topicPush,   \*   and its two channels
    topicSet,
    subscribeTs,            \* topicAliasInfoMap: topic -> alias -> time, 0: none
    kind,                   \* what sort of push a handler was called with
    pc, ptr, info,          \* its task: position, hub read, subscribeTs read
    visited, sending,       \* Broadcast: connections seen and tasks not run yet
    loop,                   \* the goroutine that the task of a push started
    cancelled,              \* calls whose context is done
    got,                    \* frames handed to the socket, in order
    queued, due             \* history: see the properties

conn == <<life, connectTime, topicOf>>
hub  == <<aliasHub, hubConns, exit, running, broadcast, topicPush, topicSet, subscribeTs>>
task == <<kind, pc, ptr, info, visited, sending, cancelled>>
vars == <<now, conn, hub, task, loop, got, queued, due>>

Idle == [at |-> "none", hub |-> NoHub, msg |-> NoPush, left |-> {}]

Init ==
    /\ now = 1
    /\ life = [c \in Conns |-> "none"] /\ connectTime = [c \in Conns |-> 0]
    /\ topicOf = [c \in Conns |-> NoTopic]
    /\ aliasHub = NoHub
    /\ hubConns = [h \in Hubs |-> {}] /\ topicSet = [h \in Hubs |-> {}]
    /\ exit = [h \in Hubs |-> FALSE] /\ running = [h \in Hubs |-> FALSE]
    /\ broadcast = [h \in Hubs |-> <<>>] /\ topicPush = [h \in Hubs |-> <<>>]
    /\ subscribeTs = [t \in Topics |-> 0]
    /\ kind = [p \in Pushes |-> "none"] /\ pc = [p \in Pushes |-> "none"]
    /\ ptr = [p \in Pushes |-> NoHub] /\ info = [p \in Pushes |-> 0]
    /\ visited = [p \in Pushes |-> {}] /\ sending = [p \in Pushes |-> {}]
    /\ loop = [p \in Pushes |-> Idle]
    /\ cancelled = {}
    /\ got = [c \in Conns |-> <<>>]
    /\ queued = [h \in Hubs |-> <<>>] /\ due = [p \in Pushes |-> {}]

(***************************************************************************)
(* Connections come and go                                                 *)
(***************************************************************************)
\* The registries by the position of a connection, as Broker shows them.
InConnIDs(c)  == life[c] \in {"inHub", "authed", "exited"}
InAllConns(c) == life[c] \in {"authed", "exited", "outHub"}
Exited(c)     == life[c] \in {"exited", "outHub", "closed"}

Tick ==
    /\ now < MaxTime /\ now' = now + 1
    /\ UNCHANGED <<conn, hub, task, loop, got, queued, due>>

Step(c, from, to) ==
    /\ life[c] = from
    /\ life' = [life EXCEPT ![c] = to]
    /\ UNCHANGED <<now, task, loop, got, queued>>

OnOpened(c) ==
    /\ Step(c, "none", "open")
    /\ connectTime' = [connectTime EXCEPT ![c] = now]
    /\ UNCHANGED <<topicOf, hub, due>>

\* hub.run delivers with the hub's read lock; register and unregister wait.
RLocked(h) == \E g \in Pushes : loop[g].hub = h /\ loop[g].at = "deliver"

\* The connection id is stored, then addAliasConn: find or make the hub,
\* register, subscribe to the topic t of the token. A second connection moves
\* the time of the subscription.
AddAliasConn(c, t) ==
    LET h == IF aliasHub = NoHub THEN c ELSE aliasHub IN
    /\ Step(c, "open", "inHub")
    /\ ~RLocked(h)
    /\ topicOf' = [topicOf EXCEPT ![c] = t]
    /\ aliasHub' = h
    /\ hubConns' = [hubConns EXCEPT ![h] = @ \cup {c}]
    /\ topicSet' = [topicSet EXCEPT ![h] = @ \cup {t}]
    /\ subscribeTs' = [subscribeTs EXCEPT ![t] = now]
    /\ UNCHANGED <<connectTime, exit, running, broadcast, topicPush, due>>

AddConn(c) == Step(c, "inHub", "authed") /\ UNCHANGED <<connectTime, topicOf, hub, due>>

\* Conn.Close of an authenticated connection closes ExitChan first.
Exit(c) ==
    /\ Step(c, "authed", "exited")
    /\ due' = [p \in Pushes |-> due[p] \ {c}]
    /\ UNCHANGED <<connectTime, topicOf, hub>>

RemoveConn(c) == Step(c, "outHub", "closed") /\ UNCHANGED <<connectTime, topicOf, hub, due>>

NoneLeftOrOne(S) == Cardinality(S) <= 1
NoneLeft(S) == S = {}

CloseForgotten(h) == UNCHANGED exit
CloseHub(h) == exit' = [exit EXCEPT ![h] = TRUE]

\* The connection id goes, then removeAliasConn: unregister; the last one closes the hub, drops it from the
\* map and takes the user out of every topic of the hub.
RemoveAliasConn(c) ==
    LET h == aliasHub
        rest == hubConns[h] \ {c}
    IN
    /\ Step(c, "exited", "outHub")
    /\ UNCHANGED <<connectTime, topicOf, running, broadcast, topicPush, due>>
    /\ \/ h = NoHub /\ UNCHANGED <<aliasHub, hubConns, exit, topicSet, subscribeTs>>
       \/ /\ h # NoHub /\ ~RLocked(h)
          /\ hubConns' = [hubConns EXCEPT ![h] = rest]
          /\ IF NoneLeft(rest)
             THEN /\ CloseHub(h)
                  /\ aliasHub' = NoHub
                  /\ topicSet' = [topicSet EXCEPT ![h] = {}]
                  /\ subscribeTs' = [t \in Topics |->
                                       IF t \in topicSet[h] THEN 0 ELSE subscribeTs[t]]
             ELSE UNCHANGED <<aliasHub, exit, topicSet, subscribeTs>>

(***************************************************************************)
(* Handlers                                                                *)
(***************************************************************************)
HubTasks(k) == {p \in Pushes : kind[p] = k /\ pc[p] \in {"lookup", "closed", "start", "send"}}

Handled(p, k, at) ==
    /\ kind[p] = "none" /\ k \in KindsOf[p]
    /\ kind' = [kind EXCEPT ![p] = k]
    /\ pc' = [pc EXCEPT ![p] = at]
    /\ UNCHANGED <<now, conn, hub, ptr, cancelled, loop, got, queued>>

\* BroadcastByAlias: one task.
PushByAliasMessageHandler(p) ==
    /\ Handled(p, "alias", "lookup")
    /\ Cardinality(HubTasks("alias")) < PoolSize
    /\ due' = [due EXCEPT ![p] = {c \in Conns : life[c] \in {"inHub", "authed"}}]
    /\ UNCHANGED <<info, visited, sending>>

\* BroadcastByTopic: the task of the user gets the time of the subscription
\* as it is when the map of the topic is walked; without one there is no task.
PushByTopicMessageHandler(p, t) ==
    /\ Handled(p, "topic", IF subscribeTs[t] = 0 THEN "done" ELSE "lookup")
    /\ subscribeTs[t] # 0 => Cardinality(HubTasks("topic")) < PoolSize
    /\ info' = [info EXCEPT ![p] = subscribeTs[t]]
    /\ due' = [due EXCEPT ![p] = {c \in Conns : life[c] \in {"inHub", "authed"} /\ topicOf[c] = t}]
    /\ UNCHANGED <<visited, sending>>

\* Broadcast: a walk over allConns, which changes meanwhile.
PushAllMessageHandler(p) ==
    /\ Handled(p, "all", "range")
    /\ due' = [due EXCEPT ![p] = {c \in Conns : life[c] = "authed"}]
    /\ UNCHANGED <<info, visited, sending>>

\* sync.Map.Range: a key is seen at most once, and is seen if it was there
\* from the beginning to the end; others may be seen or not.
RangeVisit(p, c) ==
    /\ pc[p] = "range" /\ InAllConns(c) /\ c \notin visited[p]
    /\ Cardinality({s \in Pushes \X Conns : kind[s[1]] = "all" /\ s[2] \in sending[s[1]]}) < PoolSize
    /\ visited' = [visited EXCEPT ![p] = @ \cup {c}]
    /\ sending' = [sending EXCEPT ![p] = @ \cup {c}]
    /\ UNCHANGED <<now, conn, hub, kind, pc, ptr, info, cancelled, loop, got, queued, due>>

\* The walk ends when all that were there at its beginning and have not begun
\* to close since (due[p]) are seen; sending to the others has no effect.
RangeEnd(p) ==
    /\ pc[p] = "range"
    /\ due[p] \subseteq visited[p]
    /\ pc' = [pc EXCEPT ![p] = "done"]
    /\ UNCHANGED <<now, conn, hub, kind, ptr, info, visited, sending, cancelled, loop, got, queued, due>>

\* A handler returns an error and nothing is pushed: the message names no
\* business or no topic, or (alias checks nothing) there is no group manager of
\* the business yet and its pools cannot be made.
HandlerRefuses(p, k) ==
    /\ k \in {"alias", "topic", "all"} /\ Handled(p, k, "done")
    /\ k = "alias" => \A c \in Conns : life[c] \in {"none", "open"}
    /\ UNCHANGED <<info, visited, sending, due>>

\* SendMessage finds the connection; Send is a step of its own.
SendMessage(p, c) ==
    /\ Handled(p, "conn", "done")
    /\ sending' = [sending EXCEPT ![p] = IF InConnIDs(c) THEN {c} ELSE {}]
    /\ due' = [due EXCEPT ![p] = {d \in {c} : InConnIDs(d) /\ ~Exited(d)}]
    /\ UNCHANGED <<info, visited>>

\* The session of the consumer ends (or the caller of the RPC goes away).
Cancel(p) ==
    /\ p \notin cancelled
    /\ pc[p] \notin {"none", "done"} \/ sending[p] # {}
    /\ cancelled' = cancelled \cup {p}
    /\ UNCHANGED <<now, conn, hub, kind, pc, ptr, info, visited, sending, loop, got, queued, due>>

(***************************************************************************)
(* Conn.Send                                                               *)
(***************************************************************************)
\* Accepted by gnet (AsyncWrite) unless the connection has exited.
Sent(p, c) == got' = [got EXCEPT ![c] = IF Exited(c) THEN @ ELSE Append(@, p)]

\* A task of Broadcast, or SendMessage, calls SendRequestBytes. When the
\* context is done and ExitChan is closed too, select takes either error.
SendRequestBytes(p, c) ==
    /\ c \in sending[p]
    /\ sending' = [sending EXCEPT ![p] = @ \ {c}]
    /\ IF p \in cancelled THEN UNCHANGED got ELSE Sent(p, c)
    /\ UNCHANGED <<now, conn, hub, kind, pc, ptr, info, visited, cancelled, loop, queued, due>>

(***************************************************************************)
(* The task of a push by alias or topic                                    *)
(***************************************************************************)
Task(p, from, to) ==
    /\ pc[p] = from
    /\ pc' = [pc EXCEPT ![p] = to]
    /\ UNCHANGED <<now, conn, kind, info, visited, sending, cancelled, got, due>>

\* What the map returns is used without a look at exist.
TaskLookupNoCheck(p) ==
    /\ Task(p, "lookup", "closed")
    /\ ptr' = [ptr EXCEPT ![p] = aliasHub]
    /\ UNCHANGED <<hub, loop, queued>>
\* The hub is read with aliasHubMutex and used without it.
TaskLookup(p) ==
    /\ Task(p, "lookup", IF aliasHub = NoHub THEN "done" ELSE "closed")
    /\ ptr' = [ptr EXCEPT ![p] = aliasHub]
    /\ UNCHANGED <<hub, loop, queued>>

TaskClosed(p) ==
    /\ Task(p, "closed", IF exit[ptr[p]] THEN "done" ELSE "start")
    /\ UNCHANGED <<hub, ptr, loop, queued>>

StartsAlways(h) == TRUE
Starts(h) == ~running[h]

\* hub.started and hub.start: the task that flips running starts the goroutine.
TaskStart(p) ==
    LET h == ptr[p] IN
    /\ Task(p, "start", "send")
    /\ running' = [running EXCEPT ![h] = TRUE]
    /\ loop' = [loop EXCEPT ![p] = IF Starts(h) THEN [Idle EXCEPT !.at = "select", !.hub = h] ELSE @]
    /\ UNCHANGED <<aliasHub, hubConns, exit, broadcast, topicPush, topicSet, subscribeTs, ptr, queued>>

Room(ch) == Len(ch) < HubCap

\* select: the channel has room, the hub has exited, the context is done.
TaskEnqueue(p) ==
    LET h == ptr[p] IN
    /\ Task(p, "send", "done")
    /\ IF kind[p] = "alias"
       THEN /\ Room(broadcast[h])
            /\ broadcast' = [broadcast EXCEPT ![h] = Append(@, p)]
            /\ queued' = [queued EXCEPT ![h] = Append(@, p)]
            /\ UNCHANGED topicPush
       ELSE /\ Room(topicPush[h])
            /\ topicPush' = [topicPush EXCEPT ![h] = Append(@, p)]
            /\ UNCHANGED <<broadcast, queued>>
    /\ UNCHANGED <<aliasHub, hubConns, exit, running, topicSet, subscribeTs, ptr, loop>>

TaskOnlyCtx(p) ==
    /\ Task(p, "send", "done")
    /\ p \in cancelled
    /\ UNCHANGED <<hub, ptr, loop, queued>>
TaskGivesUp(p) ==
    /\ Task(p, "send", "done")
    /\ exit[ptr[p]] \/ p \in cancelled
    /\ UNCHANGED <<hub, ptr, loop, queued>>

(***************************************************************************)
(* hub.run                                                                 *)
(***************************************************************************)
LoopRest == <<now, conn, aliasHub, hubConns, exit, running, topicSet, subscribeTs, task, queued, due>>

\* The connections of the hub cannot change while one message is delivered.
Take(g, ch) ==
    LET h == loop[g].hub IN
    /\ loop[g].at = "select" /\ ch[h] # <<>>
    /\ loop' = [loop EXCEPT ![g] = IF hubConns[h] = {} THEN @
                  ELSE [@ EXCEPT !.at = "deliver", !.msg = Head(ch[h]), !.left = hubConns[h]]]

LoopBroadcast(g) ==
    /\ Take(g, broadcast)
    /\ broadcast' = [broadcast EXCEPT ![loop[g].hub] = Tail(@)]
    /\ UNCHANGED <<topicPush, LoopRest, got>>

LoopTopic(g) ==
    /\ Take(g, topicPush)
    /\ topicPush' = [topicPush EXCEPT ![loop[g].hub] = Tail(@)]
    /\ UNCHANGED <<broadcast, LoopRest, got>>

TopicSkipsSameSecond(p, c) == kind[p] = "topic" /\ connectTime[c] >= info[p]
\* A topic push is not for a connection opened after the subscription.
TopicSkips(p, c) == kind[p] = "topic" /\ connectTime[c] > info[p]

\* A push that a connection refuses is queued again.
LoopSendRetries(g, c) ==
    LET p == loop[g].msg
        h == loop[g].hub
    IN
    /\ loop[g].at = "deliver" /\ c \in loop[g].left
    /\ loop' = [loop EXCEPT ![g] = IF @.left # {c} THEN [loop[g] EXCEPT !.left = @ \ {c}]
                                   ELSE [Idle EXCEPT !.at = "select", !.hub = h]]
    /\ IF TopicSkips(p, c) THEN UNCHANGED got ELSE Sent(p, c)
    /\ broadcast' = [broadcast EXCEPT ![h] = IF Exited(c) /\ Room(@) THEN Append(@, p) ELSE @]
    /\ UNCHANGED <<topicPush, LoopRest>>
LoopSend(g, c) ==
    LET p == loop[g].msg IN
    /\ loop[g].at = "deliver" /\ c \in loop[g].left
    /\ loop' = [loop EXCEPT ![g] = IF @.left # {c} THEN [loop[g] EXCEPT !.left = @ \ {c}]
                                   ELSE [Idle EXCEPT !.at = "select", !.hub = loop[g].hub]]
    /\ IF TopicSkips(p, c) THEN UNCHANGED got ELSE Sent(p, c)
    /\ UNCHANGED <<broadcast, topicPush, LoopRest>>

LoopExit(g) ==
    /\ loop[g].at = "select" /\ exit[loop[g].hub]
    /\ loop' = [loop EXCEPT ![g].at = "ended"]
    /\ UNCHANGED <<broadcast, topicPush, LoopRest, got>>

-----------------------------------------------------------------------------
ConnStep(c) ==
    \/ OnOpened(c) \/ (\E t \in Topics : AddAliasConn(c, t)) \/ AddConn(c)
    \/ Exit(c) \/ RemoveAliasConn(c) \/ RemoveConn(c)

Handler(p) ==
    \/ PushByAliasMessageHandler(p)
    \/ \E t \in Topics : PushByTopicMessageHandler(p, t)
    \/ PushAllMessageHandler(p)
    \/ \E k \in KindsOf[p] : HandlerRefuses(p, k)
    \/ \E c \in Conns : SendMessage(p, c)
    \/ Cancel(p)

TaskStep(p) ==
    \/ TaskLookup(p) \/ TaskClosed(p) \/ TaskStart(p) \/ TaskEnqueue(p) \/ TaskGivesUp(p)
    \/ \E c \in Conns : RangeVisit(p, c) \/ SendRequestBytes(p, c)
    \/ RangeEnd(p)

LoopStep(g) ==
    \/ LoopBroadcast(g) \/ LoopTopic(g) \/ LoopExit(g)
    \/ \E c \in Conns : LoopSend(g, c)

Next ==
    \/ Tick
    \/ \E c \in Conns : ConnStep(c)
    \/ \E p \in Pushes : Handler(p) \/ TaskStep(p) \/ LoopStep(p)

\* A submitted task and a started goroutine run; nothing makes a peer connect,
\* leave or a message arrive.
Fairness == \A p \in Pushes : WF_vars(TaskStep(p)) /\ WF_vars(LoopStep(p))

Spec == Init /\ [][Next]_vars /\ Fairness

(***************************************************************************)
(* Properties                                                              *)
(***************************************************************************)
Lives == {"none", "open", "inHub", "authed", "exited", "outHub", "closed"}
BoundedSeq(S) == {s \in Seq(S) : Len(s) <= HubCap}

\* Type invariant: the channels of a hub never hold more than their buffer
\* (hub.go:51, 57) and a task that goes on has a hub, never a nil pointer.
TypeOK ==
    /\ now \in 1..MaxTime
    /\ life \in [Conns -> Lives] /\ connectTime \in [Conns -> 0..MaxTime]
    /\ topicOf \in [Conns -> Topics \cup {NoTopic}]
    /\ aliasHub \in Hubs \cup {NoHub}
    /\ hubConns \in [Hubs -> SUBSET Conns] /\ topicSet \in [Hubs -> SUBSET Topics]
    /\ exit \in [Hubs -> BOOLEAN] /\ running \in [Hubs -> BOOLEAN]
    /\ broadcast \in [Hubs -> BoundedSeq(Pushes)] /\ topicPush \in [Hubs -> BoundedSeq(Pushes)]
    /\ subscribeTs \in [Topics -> 0..MaxTime]
    /\ kind \in [Pushes -> {"none", "alias", "topic", "all", "conn"}]
    /\ pc \in [Pushes -> {"none", "lookup", "closed", "start", "send", "range", "done"}]
    /\ ptr \in [Pushes -> Hubs \cup {NoHub}] /\ info \in [Pushes -> 0..MaxTime]
    /\ \A p \in Pushes : pc[p] \in {"closed", "start", "send"} => ptr[p] \in Hubs
    /\ visited \in [Pushes -> SUBSET Conns] /\ sending \in [Pushes -> SUBSET Conns]
    /\ loop \in [Pushes -> [at : {"none", "select", "deliver", "ended"}, hub : Hubs \cup {NoHub},
                            msg : Pushes \cup {NoPush}, left : SUBSET Conns]]
    /\ cancelled \subseteq Pushes
    /\ got \in [Conns -> Seq(Pushes)] /\ queued \in [Hubs -> Seq(Pushes)]
    /\ due \in [Pushes -> SUBSET Conns]

\* A message handed to a node once is written at most once to a socket, while
\* the walk over allConns, its tasks, and hubs that close and are made again
\* under a task meet connections that come and go, and some refuse it
\* (group.go:242-365, hub.go:66-97).
DeliveredOnce == \A c \in Conns : IsInjective(got[c])

\* What the channel broadcast of a hub accepts in an order, every connection
\* gets in that order: the hub has a single goroutine however many tasks find
\* it not started (hub.go:142-148).
HubOrder ==
    \A h \in Hubs, c \in Conns : \A i, j \in DOMAIN queued[h] : \A a, b \in DOMAIN got[c] :
        (i < j /\ got[c][a] = queued[h][i] /\ got[c][b] = queued[h][j]) => a < b

\* Somebody has the push for connection c: its socket has it, a task of a pool
\* will send it, the goroutine of a hub that c is in delivers it, or it waits in
\* a channel of such a hub, which is open and has its goroutine.
OnItsWay(p, c) ==
    \/ p \in Range(got[c]) \/ c \in sending[p]
    \/ \E g \in Pushes :
         LET h == loop[g].hub IN
         \/ loop[g].at = "deliver" /\ loop[g].msg = p /\ c \in loop[g].left
         \/ /\ loop[g].at \in {"select", "deliver"} /\ c \in hubConns[h] /\ ~exit[h]
            /\ p \in Range(broadcast[h]) \cup Range(topicPush[h])

\* Once the task of a push is over, the push is on its way to every connection
\* that it was for when the handler was called and that has not begun to close:
\* it is in no hub closed under the task, no hub without a goroutine, and the
\* time of the subscription excludes none that was there (group.go:243-275,
\* 316-345, hub.go:84).
NothingLost ==
    \A p \in Pushes, c \in Conns :
        (c \in due[p] /\ pc[p] = "done" /\ p \notin cancelled) => OnItsWay(p, c)

\* A hub whose last connection left ends its goroutine, also one that a late
\* task starts after the hub was closed (group.go:202-206, hub.go:97).
HubLoopsEnd ==
    \A g \in Pushes :
        (loop[g].hub \notin {NoHub, aliasHub}) ~> (loop[g].at = "ended")

\* No task keeps its pool worker for ever: not on the full channel of a hub
\* that nobody empties any more (group.go:262-275, 333-345).
TasksEnd == \A p \in Pushes : (kind[p] # "none") ~> (pc[p] = "done" /\ sending[p] = {})

\* A connection that a push was meant for when its handler was called, and
\* that does not close, gets it, unless the context of the call is done:
\* hubs that close and are made again never lose it (group.go:244-275).
StableConnGetsPush ==
    \A p \in Pushes, c \in Conns :
        (c \in due[p]) ~> (c \notin due[p] \/ p \in Range(got[c]) \/ p \in cancelled)

\* consumer.go:201 marks a message when the handler has dealt with it: a
\* connection that stays gets it, whatever becomes of the consumer's session.
MarkedIsDelivered ==
    \A p \in Pushes, c \in Conns :
        (c \in due[p] /\ kind[p] # "conn") ~> (c \notin due[p] \/ p \in Range(got[c]))
=============================================================================
