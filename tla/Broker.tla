------------------------------- MODULE Broker -------------------------------
(***************************************************************************)
(* One broker node: the life of a connection (conn.go, conn_handler.go),   *)
(* the gnet callbacks that drive it (gnet.go, websocket.go) and the        *)
(* registries an authenticated connection is entered in (server.go,        *)
(* group.go, hub.go), with the business callbacks (callback.go).           *)
(*                                                                         *)
(* Three kinds of threads call into a Conn: the gnet event loop that owns  *)
(* its socket, the goroutines onFrame starts, and the heartbeat timer.     *)
(* Each has a program counter; a step is what a thread does between two    *)
(* points where another thread can see the difference.  c.mu is modelled   *)
(* as a lock; the bodies of addAliasConn and removeAliasConn run under     *)
(* aliasHubMutex and are one step each.                                    *)
(*                                                                         *)
(* A definition that stands right before another and is used nowhere is a  *)
(* faulty variant of it, for testing that a property notices the fault.    *)
(***************************************************************************)
EXTENDS Integers, Sequences, FiniteSets

CONSTANTS
    Conns,        \* the sockets the clients open
    Loops,        \* gnet event loops
    LoopOf,       \* LoopOf[c]: the event loop gnet assigns to the socket c
    Handlers,     \* the goroutines onFrame starts
    Timer,        \* the goroutine of HeartbeatTimer.Run
    Businesses, Aliases, Topics,
    Sessions,     \* what a valid token can claim
    MaxInflight,  \* defaultMaxInflightMessageCount (1024 in the code)
    MaxFrames,    \* bound: data frames one client sends
    NoThread, NoConn, NoSession

Threads == Loops \union Handlers \union {Timer}
Groups == Businesses \X Aliases

ASSUME ConstantsAssumption ==
    /\ LoopOf \in [Conns -> Loops]
    /\ Sessions \subseteq [business : Businesses, alias : Aliases,
                           topic : Topics, callback : BOOLEAN]
    /\ MaxInflight \in Nat \ {0}
    /\ MaxFrames \in Nat
ASSUME NamesAssumption ==
    /\ Loops \intersect Handlers = {}
    /\ Timer \notin Loops \union Handlers
    /\ NoThread \notin Threads
    /\ NoConn \notin Conns
    /\ NoSession \notin Sessions

VARIABLES
    netState,               \* gnet's view of the socket: none, open, closed
    closeAsked,             \* gnet.Conn.Close() was called on the socket
    upgraded,               \* gnet.Conn.Context(): the handshake is done
    connState,              \* connStateManager.state
    session,                \* Conn.session
    exited,                 \* Conn.ExitChan is closed
    inflight,               \* Conn.inflightInboundMessageCount
    mu,                     \* the thread that holds Conn.mu
    connCount,              \* Server.connCount
    gnetConnToConn,         \* Server.gnetConnToConn
    connectionIDToConnMap,  \* Server.connectionIDToConnMap
    buisnessGroup,          \* businessGroupManager.buisnessGroup
    allConns,               \* groupManager.allConns, as <<business, conn>>
    aliasHub,               \* the keys of groupManager.aliasHub
    hubConns,               \* hub.conns
    topicSet,               \* hub.topicSet
    topicAliasInfoMap,      \* groupManager.topicAliasInfoMap,
                            \*   as <<business, topic, alias>>
    hb,                     \* the heartbeat timer's hold on the connection
    callbacks,              \* the callback requests sent for the connection
    warned,                 \* connections whose setAuthed logged an error
    frames,                 \* data frames received from the client
    pc, at                  \* where a thread is, and on which connection

sockets == <<netState, closeAsked, upgraded>>
registries == <<connectionIDToConnMap, buisnessGroup, allConns, aliasHub,
                hubConns, topicSet, topicAliasInfoMap>>
hubs == <<aliasHub, hubConns, topicSet, topicAliasInfoMap>>
server == <<connCount, gnetConnToConn, hb>>
vars == <<sockets, connState, session, exited, inflight, mu, server,
          registries, callbacks, warned, frames, pc, at>>

\* What a thread does while it holds c.mu: setAuthed, then Close.
AddLabels == {"addConnID", "addAliasConn", "addConn", "connectCallback"}
RemoveLabels == {"removeConnID", "removeAliasConn", "removeConn",
                 "disconnectCallback", "closeNetwork"}
Critical == AddLabels \union RemoveLabels
Labels == Critical \union
    {"idle", "auth", "setAuthed", "upgrade", "onClosed", "close",
     "onRequest", "readSession", "dispatch"}

Init ==
    /\ netState = [c \in Conns |-> "none"]
    /\ closeAsked = [c \in Conns |-> FALSE]
    /\ upgraded = [c \in Conns |-> FALSE]
    /\ connState = [c \in Conns |-> "Init"]
    /\ session = [c \in Conns |-> NoSession]
    /\ exited = [c \in Conns |-> FALSE]
    /\ inflight = [c \in Conns |-> 0]
    /\ mu = [c \in Conns |-> NoThread]
    /\ connCount = 0
    /\ gnetConnToConn = {}
    /\ connectionIDToConnMap = {}
    /\ buisnessGroup = {}
    /\ allConns = {}
    /\ aliasHub = {}
    /\ hubConns = [g \in Groups |-> {}]
    /\ topicSet = [g \in Groups |-> {}]
    /\ topicAliasInfoMap = {}
    /\ hb = [c \in Conns |-> "untracked"]
    /\ callbacks = [c \in Conns |-> <<>>]
    /\ warned = {}
    /\ frames = [c \in Conns |-> 0]
    /\ pc = [t \in Threads |-> "idle"]
    /\ at = [t \in Threads |-> NoConn]

(***************************************************************************)
(* Moving a thread.                                                        *)
(***************************************************************************)
Goto(t, label) ==
    /\ pc' = [pc EXCEPT ![t] = label]
    /\ UNCHANGED at

Begin(t, c, label) ==
    /\ pc' = [pc EXCEPT ![t] = label]
    /\ at' = [at EXCEPT ![t] = c]

Finish(t) == Begin(t, NoConn, "idle")

\* The event loop of c is about to look at c.
LoopFree(c) == pc[LoopOf[c]] = "idle"

\* c.mu can be taken.
LockIgnored(c) == TRUE
Unlocked(c) == mu[c] = NoThread

GroupSwapped(s) == <<s.alias, s.business>>
Group(s) == <<s.business, s.alias>>

(***************************************************************************)
(* gnet.go: the callbacks of the event loop.                               *)
(***************************************************************************)

\* newConn fails only when no uuid can be drawn; the loop then closes the
\* socket without ever having a Conn for it.
OnOpened(c) ==
    /\ netState[c] = "none" /\ LoopFree(c)
    /\ netState' = [netState EXCEPT ![c] = "open"]
    /\ connCount' = connCount + 1
    /\ \/ /\ gnetConnToConn' = gnetConnToConn \union {c}
          /\ hb' = [hb EXCEPT ![c] = "tracked"]
          /\ UNCHANGED <<pc, at>>
       \/ /\ Begin(LoopOf[c], c, "onClosed")
          /\ UNCHANGED <<gnetConnToConn, hb>>
    /\ UNCHANGED <<closeAsked, upgraded, connState, session, exited, inflight,
                   mu, registries, callbacks, warned, frames>>

\* The peer hangs up, or the loop comes to a Close() asked for earlier.
SocketCloses(c) ==
    /\ netState[c] = "open" /\ LoopFree(c)
    /\ Begin(LoopOf[c], c, "onClosed")
    /\ UNCHANGED <<sockets, connState, session, exited, inflight, mu, server,
                   registries, callbacks, warned, frames>>

OnClosedNoClose(l) ==
    /\ pc[l] = "onClosed"
    /\ netState' = [netState EXCEPT ![at[l]] = "closed"]
    /\ connCount' = connCount - 1
    /\ gnetConnToConn' = gnetConnToConn \ {at[l]}
    /\ Finish(l)
    /\ UNCHANGED <<closeAsked, upgraded, connState, session, exited, inflight,
                   mu, hb, registries, callbacks, warned, frames>>

OnClosed(l) ==
    LET c == at[l] IN
    /\ pc[l] = "onClosed"
    /\ netState' = [netState EXCEPT ![c] = "closed"]
    /\ connCount' = connCount - 1
    /\ gnetConnToConn' = gnetConnToConn \ {c}
    /\ \/ /\ c \in gnetConnToConn
          /\ hb' = [hb EXCEPT ![c] = IF @ = "tracked" THEN "leaving" ELSE @]
          /\ Goto(l, "close")
       \/ /\ c \notin gnetConnToConn
          /\ Finish(l)
          /\ UNCHANGED hb
    /\ UNCHANGED <<closeAsked, upgraded, connState, session, exited, inflight,
                   mu, registries, callbacks, warned, frames>>

\* The request line parses and authentication starts, or the loop closes.
ReactBeforeUpgrade(c) ==
    /\ netState[c] = "open" /\ LoopFree(c)
    /\ c \in gnetConnToConn
    /\ ~upgraded[c]
    /\ \E label \in {"auth", "onClosed"} : Begin(LoopOf[c], c, label)
    /\ UNCHANGED <<sockets, connState, session, exited, inflight, mu, server,
                   registries, callbacks, warned, frames>>

\* A data frame reaches onFrame.  At the limit it is dropped; otherwise a
\* goroutine is started for it.  (Control frames and malformed frames either
\* leave the state alone or close the socket, as SocketCloses does.)
OnFrame(c) ==
    /\ netState[c] = "open" /\ LoopFree(c)
    /\ c \in gnetConnToConn
    /\ upgraded[c]
    /\ frames[c] < MaxFrames
    /\ frames' = [frames EXCEPT ![c] = @ + 1]
    /\ \/ /\ inflight[c] + 1 >= MaxInflight
          /\ UNCHANGED <<inflight, pc, at>>
       \/ /\ inflight[c] + 1 < MaxInflight
          /\ inflight' = [inflight EXCEPT ![c] = @ + 1]
          /\ \E h \in Handlers : pc[h] = "idle" /\ Begin(h, c, "onRequest")
    /\ UNCHANGED <<sockets, connState, session, exited, mu, server, registries,
                   callbacks, warned>>

(***************************************************************************)
(* conn_handler.go, conn.go: authentication, on the event loop.            *)
(***************************************************************************)

\* The token verifies, or protocolError closes the connection.
OnAuthRequest(l) ==
    /\ pc[l] = "auth"
    /\ \E label \in {"setAuthed", "close"} : Goto(l, label)
    /\ UNCHANGED <<sockets, connState, session, exited, inflight, mu, server,
                   registries, callbacks, warned, frames>>

SetAuthedUnchecked(l, s) ==
    LET c == at[l] IN
    /\ pc[l] = "setAuthed"
    /\ Unlocked(c)
    /\ connState' = [connState EXCEPT ![c] = "Authed"]
    /\ session' = [session EXCEPT ![c] = s]
    /\ mu' = [mu EXCEPT ![c] = l]
    /\ Goto(l, "addConnID")
    /\ UNCHANGED <<sockets, exited, inflight, server, registries, callbacks,
                   warned, frames>>

\* setAuthed takes c.mu and looks at the state before it changes it.
SetAuthed(l, s) ==
    LET c == at[l] IN
    /\ pc[l] = "setAuthed"
    /\ Unlocked(c)
    /\ \/ /\ connState[c] = "Init"
          /\ connState' = [connState EXCEPT ![c] = "Authed"]
          /\ session' = [session EXCEPT ![c] = s]
          /\ mu' = [mu EXCEPT ![c] = l]
          /\ Goto(l, "addConnID")
       \/ /\ connState[c] # "Init"
          /\ Goto(l, "upgrade")
          /\ UNCHANGED <<connState, session, mu>>
    /\ UNCHANGED <<sockets, exited, inflight, server, registries, callbacks,
                   warned, frames>>

\* getGroupManager can fail only for a business that has no manager yet.
GetGroupManagerUnsaved(b) == UNCHANGED buisnessGroup
GetGroupManager(b) == buisnessGroup' = buisnessGroup \union {b}
GetGroupManagerFails(b) == b \notin buisnessGroup /\ UNCHANGED buisnessGroup

\* AddAuthedConnection up to addAliasConn.
AddConnID(l) ==
    LET c == at[l]
        b == session[c].business IN
    /\ pc[l] = "addConnID"
    /\ \/ /\ GetGroupManager(b)
          /\ connectionIDToConnMap' = connectionIDToConnMap \union {c}
          /\ Goto(l, "addAliasConn")
          /\ UNCHANGED <<mu, warned>>
       \/ /\ GetGroupManagerFails(b)
          /\ warned' = warned \union {c}
          /\ mu' = [mu EXCEPT ![c] = NoThread]
          /\ Goto(l, "upgrade")
          /\ UNCHANGED connectionIDToConnMap
    /\ UNCHANGED <<sockets, connState, session, exited, inflight, server,
                   allConns, hubs, callbacks, frames>>

SubscribeFirstOnly(g, topic) ==
    IF topicSet[g] # {}
    THEN UNCHANGED <<topicSet, topicAliasInfoMap>>
    ELSE /\ topicSet' = [topicSet EXCEPT ![g] = @ \union {topic}]
         /\ topicAliasInfoMap' = topicAliasInfoMap \union {<<g[1], topic, g[2]>>}
SubscribeTopic(g, topic) ==
    /\ topicSet' = [topicSet EXCEPT ![g] = @ \union {topic}]
    /\ topicAliasInfoMap' = topicAliasInfoMap \union {<<g[1], topic, g[2]>>}

\* addAliasConn, under aliasHubMutex: find or create the hub, register the
\* connection, subscribe the alias to the topic of the token.
AddAliasConn(l) ==
    LET c == at[l]
        s == session[c]
        g == Group(s) IN
    /\ pc[l] = "addAliasConn"
    /\ aliasHub' = aliasHub \union {g}
    /\ hubConns' = [hubConns EXCEPT ![g] = @ \union {c}]
    /\ SubscribeTopic(g, s.topic)
    /\ Goto(l, "addConn")
    /\ UNCHANGED <<sockets, connState, session, exited, inflight, mu, server,
                   connectionIDToConnMap, buisnessGroup, allConns, callbacks,
                   warned, frames>>

AddConn(l) ==
    LET c == at[l] IN
    /\ pc[l] = "addConn"
    /\ allConns' = allConns \union {<<session[c].business, c>>}
    /\ Goto(l, "connectCallback")
    /\ UNCHANGED <<sockets, connState, session, exited, inflight, mu, server,
                   connectionIDToConnMap, buisnessGroup, hubs, callbacks,
                   warned, frames>>

\* callbackHandler: nothing is sent for a session without a callback url.
Callback(c, dataType) ==
    callbacks' = [callbacks EXCEPT
                    ![c] = IF session[c].callback THEN Append(@, dataType)
                                                  ELSE @]

\* The connect callback ends AddAuthedConnection; setAuthed returns.
ConnectCallback(l) ==
    LET c == at[l] IN
    /\ pc[l] = "connectCallback"
    /\ Callback(c, "Connect")
    /\ mu' = [mu EXCEPT ![c] = NoThread]
    /\ Goto(l, "upgrade")
    /\ UNCHANGED <<sockets, connState, session, exited, inflight, server,
                   registries, warned, frames>>

\* The handshake is answered whether or not authentication succeeded; when it
\* cannot be, the loop closes the socket at once.
Upgrade(l) ==
    LET c == at[l] IN
    /\ pc[l] = "upgrade"
    /\ \/ /\ upgraded' = [upgraded EXCEPT ![c] = TRUE]
          /\ Finish(l)
       \/ /\ Goto(l, "onClosed")
          /\ UNCHANGED upgraded
    /\ UNCHANGED <<netState, closeAsked, connState, session, exited, inflight,
                   mu, server, registries, callbacks, warned, frames>>

(***************************************************************************)
(* conn_handler.go: the goroutine of one data frame.                       *)
(***************************************************************************)
DecInflightSkipped(c) == UNCHANGED inflight
DecInflight(c) == inflight' = [inflight EXCEPT ![c] = @ - 1]

\* isAuthed is read without c.mu.
OnRequest(h) ==
    /\ pc[h] = "onRequest"
    /\ Goto(h, IF connState[at[h]] = "Authed" THEN "readSession" ELSE "close")
    /\ UNCHANGED <<sockets, connState, session, exited, inflight, mu, server,
                   registries, callbacks, warned, frames>>

\* c.mu.RLock(): waits for setAuthed or Close to leave.
ReadSession(h) ==
    /\ pc[h] = "readSession"
    /\ Unlocked(at[h])
    /\ Goto(h, "dispatch")
    /\ UNCHANGED <<sockets, connState, session, exited, inflight, mu, server,
                   registries, callbacks, warned, frames>>

\* A heartbeat packet is answered on the wire; any other goes to the callback.
Dispatch(h) ==
    LET c == at[h] IN
    /\ pc[h] = "dispatch"
    /\ \/ UNCHANGED callbacks
       \/ Callback(c, "Receive")
    /\ DecInflight(c)
    /\ Finish(h)
    /\ UNCHANGED <<sockets, connState, session, exited, mu, server, registries,
                   warned, frames>>

(***************************************************************************)
(* heartbeat.go, as far as a connection sees it.  Heartbeat.tla has the    *)
(* queue, the deadlines and the clock.                                     *)
(***************************************************************************)

\* checkTimeoutConn: the ping of an overdue connection fails.
PingFails(c) ==
    /\ pc[Timer] = "idle"
    /\ hb[c] # "untracked"
    /\ Begin(Timer, c, "close")
    /\ UNCHANGED <<sockets, connState, session, exited, inflight, mu, server,
                   registries, callbacks, warned, frames>>

\* The timer comes to the RemoveConn that OnClosed queued.
HeartbeatRemoveConn(c) ==
    /\ pc[Timer] = "idle"
    /\ hb[c] = "leaving"
    /\ hb' = [hb EXCEPT ![c] = "untracked"]
    /\ UNCHANGED <<sockets, connState, session, exited, inflight, mu,
                   connCount, gnetConnToConn, registries, callbacks, warned,
                   frames, pc, at>>

(***************************************************************************)
(* conn.go: Close, which every kind of thread calls.                       *)
(***************************************************************************)

\* Close returns: onAuthRequest goes on to the upgrade, OnClosed and the
\* goroutine of a frame end, checkTimeoutConn forgets the connection.
CloseReturns(t, c) ==
    \/ /\ t \in Loops
       /\ IF netState[c] = "open" THEN Goto(t, "upgrade") ELSE Finish(t)
       /\ UNCHANGED <<inflight, hb>>
    \/ /\ t \in Handlers
       /\ DecInflight(c)
       /\ Finish(t)
       /\ UNCHANGED hb
    \/ /\ t = Timer
       /\ hb' = [hb EXCEPT ![c] = "untracked"]
       /\ Finish(t)
       /\ UNCHANGED inflight

\* A connection nobody authenticated has nothing to unregister.
CloseInit(t) ==
    LET c == at[t] IN
    /\ pc[t] = "close"
    /\ Unlocked(c)
    /\ connState[c] = "Init"
    /\ connState' = [connState EXCEPT ![c] = "Closed"]
    /\ exited' = [exited EXCEPT ![c] = TRUE]
    /\ closeAsked' = [closeAsked EXCEPT ![c] = TRUE]
    /\ CloseReturns(t, c)
    /\ UNCHANGED <<netState, upgraded, session, mu, connCount, gnetConnToConn,
                   registries, callbacks, warned, frames>>

CloseAuthed(t) ==
    LET c == at[t] IN
    /\ pc[t] = "close"
    /\ Unlocked(c)
    /\ connState[c] = "Authed"
    /\ connState' = [connState EXCEPT ![c] = "Closing"]
    /\ exited' = [exited EXCEPT ![c] = TRUE]
    /\ mu' = [mu EXCEPT ![c] = t]
    /\ Goto(t, IF session[c] # NoSession THEN "removeConnID"
                                         ELSE "closeNetwork")
    /\ UNCHANGED <<sockets, session, inflight, server, registries, callbacks,
                   warned, frames>>

\* The second Close of a connection: ErrConnClosed.
CloseAgain(t) ==
    LET c == at[t] IN
    /\ pc[t] = "close"
    /\ Unlocked(c)
    /\ connState[c] \in {"Closing", "Closed"}
    /\ CloseReturns(t, c)
    /\ UNCHANGED <<sockets, connState, session, exited, mu, connCount,
                   gnetConnToConn, registries, callbacks, warned, frames>>

\* RemoveAuthedConnection up to removeAliasConn.
RemoveConnID(t) ==
    LET c == at[t]
        b == session[c].business IN
    /\ pc[t] = "removeConnID"
    /\ connectionIDToConnMap' = connectionIDToConnMap \ {c}
    /\ \/ GetGroupManager(b) /\ Goto(t, "removeAliasConn")
       \/ GetGroupManagerFails(b) /\ Goto(t, "closeNetwork")
    /\ UNCHANGED <<sockets, connState, session, exited, inflight, mu, server,
                   allConns, hubs, callbacks, warned, frames>>

\* hub.len() == 0 once c has unregistered.
AtMostOneLeft(g, c) == Cardinality(hubConns[g] \ {c}) <= 1
NoneLeft(g, c) == hubConns[g] \ {c} = {}

\* removeAliasConn, under aliasHubMutex.  The last connection of an alias
\* takes the hub and the subscriptions of the alias with it.
RemoveAliasConn(t) ==
    LET c == at[t]
        g == Group(session[c])
        last == NoneLeft(g, c) IN
    /\ pc[t] = "removeAliasConn"
    /\ \/ g \notin aliasHub /\ UNCHANGED hubs
       \/ /\ g \in aliasHub
          /\ hubConns' = [hubConns EXCEPT ![g] = @ \ {c}]
          /\ aliasHub' = IF last THEN aliasHub \ {g} ELSE aliasHub
          /\ topicSet' = IF last THEN [topicSet EXCEPT ![g] = {}] ELSE topicSet
          /\ topicAliasInfoMap' =
                 IF last THEN topicAliasInfoMap \
                              {<<g[1], topic, g[2]>> : topic \in topicSet[g]}
                         ELSE topicAliasInfoMap
    /\ Goto(t, "removeConn")
    /\ UNCHANGED <<sockets, connState, session, exited, inflight, mu, server,
                   connectionIDToConnMap, buisnessGroup, allConns, callbacks,
                   warned, frames>>

RemoveConnSkipped(t) ==
    /\ pc[t] = "removeConn"
    /\ Goto(t, "disconnectCallback")
    /\ UNCHANGED <<sockets, connState, session, exited, inflight, mu, server,
                   registries, callbacks, warned, frames>>

RemoveConn(t) ==
    LET c == at[t] IN
    /\ pc[t] = "removeConn"
    /\ allConns' = allConns \ {<<session[c].business, c>>}
    /\ Goto(t, "disconnectCallback")
    /\ UNCHANGED <<sockets, connState, session, exited, inflight, mu, server,
                   connectionIDToConnMap, buisnessGroup, hubs, callbacks,
                   warned, frames>>

DisconnectCallback(t) ==
    LET c == at[t] IN
    /\ pc[t] = "disconnectCallback"
    /\ Callback(c, "Disconnect")
    /\ Goto(t, "closeNetwork")
    /\ UNCHANGED <<sockets, connState, session, exited, inflight, mu, server,
                   registries, warned, frames>>

CloseNetworkSkipped(t) ==
    LET c == at[t] IN
    /\ pc[t] = "closeNetwork"
    /\ connState' = [connState EXCEPT ![c] = "Closed"]
    /\ mu' = [mu EXCEPT ![c] = NoThread]
    /\ CloseReturns(t, c)
    /\ UNCHANGED <<sockets, session, exited, connCount, gnetConnToConn,
                   registries, callbacks, warned, frames>>

CloseNetwork(t) ==
    LET c == at[t] IN
    /\ pc[t] = "closeNetwork"
    /\ closeAsked' = [closeAsked EXCEPT ![c] = TRUE]
    /\ connState' = [connState EXCEPT ![c] = "Closed"]
    /\ mu' = [mu EXCEPT ![c] = NoThread]
    /\ CloseReturns(t, c)
    /\ UNCHANGED <<netState, upgraded, session, exited, connCount,
                   gnetConnToConn, registries, callbacks, warned, frames>>

\* What a thread does once something has set it going.
LoopStep(l) ==
    \/ OnClosed(l)
    \/ OnAuthRequest(l)
    \/ \E s \in Sessions : SetAuthed(l, s)
    \/ AddConnID(l)
    \/ AddAliasConn(l)
    \/ AddConn(l)
    \/ ConnectCallback(l)
    \/ Upgrade(l)
HandlerStep(h) == OnRequest(h) \/ ReadSession(h) \/ Dispatch(h)
CloseStep(t) ==
    \/ CloseInit(t)
    \/ CloseAuthed(t)
    \/ CloseAgain(t)
    \/ RemoveConnID(t)
    \/ RemoveAliasConn(t)
    \/ RemoveConn(t)
    \/ DisconnectCallback(t)
    \/ CloseNetwork(t)

\* What starts a thread: the network, and the timer's tick.
Event(c) ==
    \/ OnOpened(c)
    \/ SocketCloses(c)
    \/ ReactBeforeUpgrade(c)
    \/ OnFrame(c)
    \/ PingFails(c)
    \/ HeartbeatRemoveConn(c)

\* Every client has come and gone: the broker waits for the next one.
AllGone ==
    /\ \A c \in Conns : netState[c] = "closed" /\ hb[c] = "untracked"
    /\ \A t \in Threads : pc[t] = "idle"
    /\ UNCHANGED vars

Next ==
    \/ \E c \in Conns : Event(c)
    \/ \E l \in Loops : LoopStep(l)
    \/ \E h \in Handlers : HandlerStep(h)
    \/ \E t \in Threads : CloseStep(t)
    \/ AllGone

Spec == Init /\ [][Next]_vars

\* A started thread keeps running: the Go scheduler runs every goroutine that
\* is not blocked, and gnet comes to a Close() it was asked for.
Fairness ==
    /\ \A l \in Loops : WF_vars(LoopStep(l) \/ CloseStep(l))
    /\ \A h \in Handlers : WF_vars(HandlerStep(h) \/ CloseStep(h))
    /\ WF_vars(CloseStep(Timer))
    /\ \A c \in Conns : /\ WF_vars(closeAsked[c] /\ SocketCloses(c))
                        /\ WF_vars(HeartbeatRemoveConn(c))
FairSpec == Spec /\ Fairness

(***************************************************************************)
(* Properties.                                                             *)
(***************************************************************************)

\* The types of the variables.
TypeOK ==
    /\ netState \in [Conns -> {"none", "open", "closed"}]
    /\ closeAsked \in [Conns -> BOOLEAN]
    /\ upgraded \in [Conns -> BOOLEAN]
    /\ connState \in [Conns -> {"Init", "Authed", "Closing", "Closed"}]
    /\ session \in [Conns -> Sessions \union {NoSession}]
    /\ exited \in [Conns -> BOOLEAN]
    /\ inflight \in [Conns -> Int]
    /\ mu \in [Conns -> Threads \union {NoThread}]
    /\ connCount \in Int
    /\ gnetConnToConn \subseteq Conns
    /\ connectionIDToConnMap \subseteq Conns
    /\ buisnessGroup \subseteq Businesses
    /\ allConns \subseteq Businesses \X Conns
    /\ aliasHub \subseteq Groups
    /\ hubConns \in [Groups -> SUBSET Conns]
    /\ topicSet \in [Groups -> SUBSET Topics]
    /\ topicAliasInfoMap \subseteq Businesses \X Topics \X Aliases
    /\ hb \in [Conns -> {"untracked", "tracked", "leaving"}]
    /\ callbacks \in [Conns -> Seq({"Connect", "Receive", "Disconnect"})]
    /\ warned \subseteq Conns
    /\ frames \in [Conns -> 0 .. MaxFrames]
    /\ pc \in [Threads -> Labels]
    /\ at \in [Threads -> Conns \union {NoConn}]

\* The step of setAuthed or Close that the holder of c.mu is about to take.
Stage(c) == IF mu[c] = NoThread THEN "free" ELSE pc[mu[c]]

\* The registries c has to be in, given how far setAuthed or Close has come.
\* A connection whose setAuthed logged an error was never registered.
InConnMap(c) ==
    /\ c \notin warned
    /\ \/ connState[c] = "Authed" /\ Stage(c) # "addConnID"
       \/ connState[c] = "Closing" /\ Stage(c) = "removeConnID"
InHub(c) ==
    /\ c \notin warned
    /\ \/ connState[c] = "Authed" /\ Stage(c) \notin {"addConnID", "addAliasConn"}
       \/ connState[c] = "Closing" /\ Stage(c) \in {"removeConnID", "removeAliasConn"}
InAllConns(c) ==
    /\ c \notin warned
    /\ \/ connState[c] = "Authed" /\ Stage(c) \in {"free", "connectCallback"}
       \/ connState[c] = "Closing"
          /\ Stage(c) \in {"removeConnID", "removeAliasConn", "removeConn"}

\* Every registry holds exactly the connections that the progress of
\* setAuthed and Close says it holds, each under the business and the alias of
\* its own session.  In particular nothing of a Closed connection is left
\* (conn.go 288-293 fears such leaks), and a connection that setAuthed has
\* finished with is reachable by its id, by its user and by a broadcast.
RegistriesExact ==
    \A c \in Conns :
        /\ c \in connectionIDToConnMap <=> InConnMap(c)
        /\ \A g \in Groups :
               c \in hubConns[g] <=> InHub(c) /\ g = Group(session[c])
        /\ \A b \in Businesses :
               <<b, c>> \in allConns <=> InAllConns(c) /\ b = session[c].business

\* A hub exists exactly while its alias has a connection, and the topic index
\* that BroadcastByTopic reads agrees with the topicSet of the hub, so neither
\* a hub nor a subscription outlives the last connection of a user.
HubsExact ==
    \A g \in Groups :
        /\ g \in aliasHub <=> hubConns[g] # {}
        /\ g \notin aliasHub => topicSet[g] = {}
        /\ \A t \in Topics :
               <<g[1], t, g[2]>> \in topicAliasInfoMap <=> t \in topicSet[g]

\* Whoever holds c.mu is inside setAuthed or Close of that connection, and
\* nobody is inside without holding it; a thread with work has a connection.
MutualExclusion ==
    /\ \A t \in Threads : pc[t] \in Critical => mu[at[t]] = t
    /\ \A c \in Conns : mu[c] # NoThread =>
           at[mu[c]] = c /\ pc[mu[c]] \in Critical
    /\ \A t \in Threads : pc[t] # "idle" => at[t] \in Conns

\* How far the holder of c.mu can be, given the state of the connection.  The
\* group manager of a registered connection exists for good (group.go 18), so
\* that Close cannot fail to find it and leave the hub entry behind.
Progress ==
    \A c \in Conns :
        /\ connState[c] = "Init" => Stage(c) = "free" /\ session[c] = NoSession
        /\ connState[c] = "Authed" =>
               Stage(c) \in AddLabels \union {"free"} /\ session[c] \in Sessions
        /\ connState[c] = "Closing" =>
               Stage(c) \in RemoveLabels /\ session[c] \in Sessions
        /\ connState[c] = "Closed" => Stage(c) = "free"
        /\ c \in warned => connState[c] # "Init" /\ Stage(c) \notin AddLabels
        /\ connState[c] \in {"Authed", "Closing"} /\ c \notin warned =>
               \/ Stage(c) = "addConnID"
               \/ session[c].business \in buisnessGroup

\* inflightInboundMessageCount is the number of goroutines working on frames
\* of the connection, and stays below defaultMaxInflightMessageCount.
InflightExact ==
    \A c \in Conns :
        /\ inflight[c] = Cardinality({h \in Handlers : at[h] = c})
        /\ inflight[c] < MaxInflight

\* The business learns of a connection in order: one Connect callback before
\* anything else, at most one Disconnect callback.  Only a connection whose
\* registration failed (setAuthed logged it) is exempt from the first half.
CallbackOrder ==
    \A c \in Conns :
        LET Positions(type) ==
                {i \in 1 .. Len(callbacks[c]) : callbacks[c][i] = type} IN
        /\ Cardinality(Positions("Disconnect")) <= 1
        /\ c \notin warned => Positions("Connect") \subseteq {1}
        /\ callbacks[c] # <<>> /\ c \notin warned => callbacks[c][1] = "Connect"

\* A connection that left Init never comes back to it and a Closed one stays
\* Closed, however Close and setAuthed interleave.
Rank(state) ==
    CASE state = "Init" -> 0 [] state = "Authed" -> 1
      [] state = "Closing" -> 2 [] state = "Closed" -> 3
StateOnlyAdvances ==
    [][\A c \in Conns : Rank(connState[c]) <= Rank(connState'[c])]_vars

\* Once gnet reports a socket closed, the connection ends up Closed with no
\* goroutine working for it, no registry entry and no timer entry.
CleanedUp(c) ==
    /\ c \in connectionIDToConnMap \union gnetConnToConn => FALSE
    /\ \A g \in Groups : c \notin hubConns[g]
    /\ \A b \in Businesses : <<b, c>> \notin allConns
    /\ hb[c] = "untracked"
    /\ inflight[c] = 0
ClosedSocketsCleanedUp ==
    \A c \in Conns : netState[c] = "closed" ~> [](CleanedUp(c))

\* Whatever closed a connection, gnet is asked to close its socket and
\* OnClosed is reached.
CloseReachesSocket ==
    \A c \in Conns : connState[c] = "Closing" ~> netState[c] = "closed"

\* The broker implements Presence: members of a user are the connections of
\* its hub, its topics are what the topic index says, and a connection joins
\* when addAliasConn has run, with what its session says.
EverJoined ==
    {<<c, Group(session[c]), session[c].topic>> :
        c \in {d \in Conns : /\ session[d] # NoSession
                             /\ d \notin warned
                             /\ Stage(d) \notin {"addConnID", "addAliasConn"}}}
Promise == INSTANCE Presence WITH
    members <- hubConns,
    topics <- [g \in Groups |->
                 {t \in Topics : <<g[1], t, g[2]>> \in topicAliasInfoMap}],
    joined <- EverJoined
ImplementsPresence == Promise!Spec
=============================================================================
