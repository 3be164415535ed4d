---------------------------- MODULE BrokerProofs ----------------------------
(***************************************************************************)
(* For any number of connections, event loops, goroutines, users and       *)
(* topics: the registries of the broker are exact.  The argument is one    *)
(* inductive invariant.  TypeOK is not inductive alone: that a business    *)
(* entered in a registry is one needs a session, which Progress provides.  *)
(***************************************************************************)
EXTENDS Broker, TLAPS

IInv == TypeOK /\ MutualExclusion /\ Progress /\ RegistriesExact /\ HubsExact

\* The initial state satisfies the invariant: no connection, no thread at work.
LEMMA InitIInv == Init => IInv
<1> SUFFICES ASSUME Init PROVE IInv
    OBVIOUS
<1> USE ConstantsAssumption, NamesAssumption
<1>1. TypeOK
    BY DEF Init, TypeOK, Labels, Critical, AddLabels, RemoveLabels, Threads
<1>2. MutualExclusion
    BY DEF Init, MutualExclusion, Critical, AddLabels, RemoveLabels, Threads
<1>3. Progress
    BY DEF Init, Progress, Stage
<1>4. RegistriesExact
    BY DEF Init, RegistriesExact, InConnMap, InHub, InAllConns
<1>5. HubsExact
    BY DEF Init, HubsExact
<1> QED
    BY <1>1, <1>2, <1>3, <1>4, <1>5 DEF IInv

(***************************************************************************)
(* Most steps move a thread that does not hold a connection's mu and touch *)
(* no registry.                                                            *)
(***************************************************************************)
\* No thread enters, leaves or moves inside a section that holds c.mu.
MovesOutside ==
    /\ pc' \in [Threads -> Labels]
    /\ at' \in [Threads -> Conns \union {NoConn}]
    /\ \A t \in Threads :
           pc[t] \in Critical \/ pc'[t] \in Critical =>
               pc'[t] = pc[t] /\ at'[t] = at[t]
    /\ \A t \in Threads : pc'[t] # "idle" => at'[t] \in Conns

\* What such a step leaves alone.
Quiet ==
    /\ UNCHANGED <<connState, session, mu, registries, warned>>
    /\ MovesOutside

\* A quiet step keeps everything but the types.
LEMMA QuietKeeps ==
    ASSUME IInv, Quiet
    PROVE  (MutualExclusion /\ Progress /\ RegistriesExact /\ HubsExact)'
<1> USE ConstantsAssumption, NamesAssumption
<1>1. \A c \in Conns : Stage(c)' = Stage(c)
    BY DEF IInv, TypeOK, Quiet, MovesOutside, Stage, MutualExclusion
<1>2. MutualExclusion'
    BY DEF IInv, TypeOK, Quiet, MovesOutside, MutualExclusion
<1>3. Progress'
    BY <1>1 DEF IInv, Progress, Quiet, registries
<1>4. RegistriesExact'
    BY <1>1 DEF IInv, RegistriesExact, InConnMap, InHub, InAllConns, Quiet, registries
<1>5. HubsExact'
    BY DEF IInv, HubsExact, Quiet, registries
<1> QED
    BY <1>2, <1>3, <1>4, <1>5

\* A thread that starts work on a connection, or ends it, moves outside.
LEMMA BeginMovesOutside ==
    ASSUME IInv, NEW t \in Threads, pc[t] \notin Critical,
           NEW c \in Conns \union {NoConn}, NEW label \in Labels \ Critical,
           label # "idle" => c \in Conns,
           Begin(t, c, label)
    PROVE  MovesOutside
BY DEF IInv, TypeOK, MutualExclusion, MovesOutside, Begin

\* So does one that goes on with the connection it works on.
LEMMA GotoMovesOutside ==
    ASSUME IInv, NEW t \in Threads, pc[t] \notin Critical, pc[t] # "idle",
           NEW label \in Labels \ Critical,
           Goto(t, label)
    PROVE  MovesOutside
BY DEF IInv, TypeOK, MutualExclusion, MovesOutside, Goto

\* A thread at work is at a connection.
LEMMA AtConn ==
    ASSUME IInv, NEW t \in Threads, pc[t] # "idle"
    PROVE  at[t] \in Conns
BY DEF IInv, MutualExclusion

\* OnOpened: a new socket changes no registry of authenticated connections.
LEMMA OnOpenedQuiet ==
    ASSUME IInv, NEW c \in Conns, OnOpened(c)
    PROVE  TypeOK' /\ Quiet
<1> USE ConstantsAssumption, NamesAssumption
<1>1. MovesOutside
    <2>1. CASE UNCHANGED <<pc, at>>
        BY <2>1 DEF IInv, TypeOK, MutualExclusion, MovesOutside
    <2>2. CASE Begin(LoopOf[c], c, "onClosed")
        BY <2>2, BeginMovesOutside DEF OnOpened, LoopFree, Labels, Critical, AddLabels, RemoveLabels, Threads
    <2> QED
        BY <2>1, <2>2 DEF OnOpened
<1>b. connCount' \in Int
    BY DEF IInv, TypeOK, OnOpened
<1>d. hb' \in [Conns -> {"untracked", "tracked", "leaving"}]
    BY DEF IInv, TypeOK, OnOpened
<1>e. gnetConnToConn' \subseteq Conns
    BY DEF IInv, TypeOK, OnOpened
<1>f. netState' \in [Conns -> {"none", "open", "closed"}]
    BY DEF IInv, TypeOK, OnOpened
<1>2. TypeOK'
    BY <1>1, <1>b, <1>d, <1>e, <1>f
    DEF IInv, TypeOK, MovesOutside, registries, OnOpened
<1>3. Quiet
    BY <1>1 DEF Quiet, OnOpened, server, registries
<1> QED
    BY <1>2, <1>3

\* A socket that closes only wakes its event loop.
LEMMA SocketClosesQuiet ==
    ASSUME IInv, NEW c \in Conns, SocketCloses(c)
    PROVE  TypeOK' /\ Quiet
<1> USE ConstantsAssumption, NamesAssumption
<1>1. MovesOutside
    BY BeginMovesOutside DEF SocketCloses, LoopFree, Labels, Critical, AddLabels, RemoveLabels, Threads
<1>2. TypeOK'
    BY <1>1 DEF IInv, TypeOK, MovesOutside, sockets, server, registries, hubs, SocketCloses
<1>3. Quiet
    BY <1>1 DEF Quiet, SocketCloses, server, registries
<1> QED
    BY <1>2, <1>3

\* OnClosed starts Close, or ends at once.
LEMMA OnClosedQuiet ==
    ASSUME IInv, NEW l \in Loops, OnClosed(l)
    PROVE  TypeOK' /\ Quiet
<1> USE ConstantsAssumption, NamesAssumption
<1>a. at[l] \in Conns
    BY AtConn DEF OnClosed, Threads
<1>1. MovesOutside
    <2>1. CASE Goto(l, "close")
        BY <2>1, GotoMovesOutside DEF OnClosed, Labels, Critical, AddLabels, RemoveLabels, Threads
    <2>2. CASE Finish(l)
        BY <2>2, BeginMovesOutside DEF OnClosed, Finish, Labels, Critical, AddLabels, RemoveLabels, Threads
    <2> QED
        BY <2>1, <2>2 DEF OnClosed
<1>2. TypeOK'
    BY <1>1, <1>a DEF IInv, TypeOK, MovesOutside, sockets, server, registries, hubs, OnClosed
<1>3. Quiet
    BY <1>1 DEF Quiet, OnClosed, server, registries
<1> QED
    BY <1>2, <1>3

\* The request line of the handshake only moves the event loop.
LEMMA ReactBeforeUpgradeQuiet ==
    ASSUME IInv, NEW c \in Conns, ReactBeforeUpgrade(c)
    PROVE  TypeOK' /\ Quiet
<1> USE ConstantsAssumption, NamesAssumption
<1>1. MovesOutside
    BY BeginMovesOutside DEF ReactBeforeUpgrade, LoopFree, Labels, Critical, AddLabels, RemoveLabels, Threads
<1>2. TypeOK'
    BY <1>1 DEF IInv, TypeOK, MovesOutside, sockets, server, registries, hubs, ReactBeforeUpgrade
<1>3. Quiet
    BY <1>1 DEF Quiet, ReactBeforeUpgrade, server, registries
<1> QED
    BY <1>2, <1>3

\* onFrame starts a goroutine that holds no lock.
LEMMA OnFrameQuiet ==
    ASSUME IInv, NEW c \in Conns, OnFrame(c)
    PROVE  TypeOK' /\ Quiet
<1> USE ConstantsAssumption, NamesAssumption
<1>1. MovesOutside
    <2>1. CASE UNCHANGED <<pc, at>>
        BY <2>1 DEF IInv, TypeOK, MutualExclusion, MovesOutside
    <2>2. CASE \E h \in Handlers : pc[h] = "idle" /\ Begin(h, c, "onRequest")
        BY <2>2, BeginMovesOutside DEF Labels, Critical, AddLabels, RemoveLabels, Threads
    <2> QED
        BY <2>1, <2>2 DEF OnFrame
<1>b. frames' \in [Conns -> 0 .. MaxFrames]
    <2>1. frames[c] \in 0 .. MaxFrames /\ frames[c] < MaxFrames
        BY DEF IInv, TypeOK, OnFrame
    <2>2. frames[c] + 1 \in 0 .. MaxFrames
        BY <2>1
    <2> QED
        BY <2>2 DEF IInv, TypeOK, OnFrame
<1>d. inflight' \in [Conns -> Int]
    <2>1. inflight[c] + 1 \in Int
        BY DEF IInv, TypeOK
    <2> QED
        BY <2>1 DEF IInv, TypeOK, OnFrame
<1>2. TypeOK'
    BY <1>1, <1>b, <1>d
    DEF IInv, TypeOK, MovesOutside, sockets, server, registries, OnFrame
<1>3. Quiet
    BY <1>1 DEF Quiet, OnFrame, server, registries
<1> QED
    BY <1>2, <1>3

\* onAuthRequest has not taken c.mu yet.
LEMMA OnAuthRequestQuiet ==
    ASSUME IInv, NEW l \in Loops, OnAuthRequest(l)
    PROVE  TypeOK' /\ Quiet
<1> USE ConstantsAssumption, NamesAssumption
<1>1. MovesOutside
    BY GotoMovesOutside DEF OnAuthRequest, Labels, Critical, AddLabels, RemoveLabels, Threads
<1>2. TypeOK'
    BY <1>1 DEF IInv, TypeOK, MovesOutside, sockets, server, registries, hubs, OnAuthRequest
<1>3. Quiet
    BY <1>1 DEF Quiet, OnAuthRequest, server, registries
<1> QED
    BY <1>2, <1>3

\* The answer to the handshake is given without c.mu.
LEMMA UpgradeQuiet ==
    ASSUME IInv, NEW l \in Loops, Upgrade(l)
    PROVE  TypeOK' /\ Quiet
<1> USE ConstantsAssumption, NamesAssumption
<1>a. at[l] \in Conns
    BY AtConn DEF Upgrade, Threads
<1>1. MovesOutside
    <2>1. CASE Goto(l, "onClosed")
        BY <2>1, GotoMovesOutside DEF Upgrade, Labels, Critical, AddLabels, RemoveLabels, Threads
    <2>2. CASE Finish(l)
        BY <2>2, BeginMovesOutside DEF Upgrade, Finish, Labels, Critical, AddLabels, RemoveLabels, Threads
    <2> QED
        BY <2>1, <2>2 DEF Upgrade
<1>2. TypeOK'
    BY <1>1, <1>a DEF IInv, TypeOK, MovesOutside, sockets, server, registries, hubs, Upgrade
<1>3. Quiet
    BY <1>1 DEF Quiet, Upgrade, server, registries
<1> QED
    BY <1>2, <1>3

\* isAuthed takes no lock.
LEMMA OnRequestQuiet ==
    ASSUME IInv, NEW h \in Handlers, OnRequest(h)
    PROVE  TypeOK' /\ Quiet
<1> USE ConstantsAssumption, NamesAssumption
<1>1. MovesOutside
    BY GotoMovesOutside DEF OnRequest, Labels, Critical, AddLabels, RemoveLabels, Threads
<1>2. TypeOK'
    BY <1>1 DEF IInv, TypeOK, MovesOutside, sockets, server, registries, hubs, OnRequest
<1>3. Quiet
    BY <1>1 DEF Quiet, OnRequest, server, registries
<1> QED
    BY <1>2, <1>3

\* Reading the session changes nothing.
LEMMA ReadSessionQuiet ==
    ASSUME IInv, NEW h \in Handlers, ReadSession(h)
    PROVE  TypeOK' /\ Quiet
<1> USE ConstantsAssumption, NamesAssumption
<1>1. MovesOutside
    BY GotoMovesOutside DEF ReadSession, Labels, Critical, AddLabels, RemoveLabels, Threads
<1>2. TypeOK'
    BY <1>1 DEF IInv, TypeOK, MovesOutside, sockets, server, registries, hubs, ReadSession
<1>3. Quiet
    BY <1>1 DEF Quiet, ReadSession, server, registries
<1> QED
    BY <1>2, <1>3

\* A callback request extends the history of its connection.
LEMMA CallbackTyped ==
    ASSUME IInv, NEW c \in Conns,
           NEW type \in {"Connect", "Receive", "Disconnect"},
           Callback(c, type)
    PROVE  callbacks' \in [Conns -> Seq({"Connect", "Receive", "Disconnect"})]
<1> DEFINE S == {"Connect", "Receive", "Disconnect"}
<1>1. callbacks \in [Conns -> Seq(S)]
    BY DEF IInv, TypeOK
<1> HIDE DEF S
<1>2. callbacks[c] \in Seq(S)
    BY <1>1
<1>3. type \in S
    BY DEF S
<1>4. Append(callbacks[c], type) \in Seq(S)
    BY <1>2, <1>3
<1>5. callbacks' \in [Conns -> Seq(S)]
    BY <1>1, <1>2, <1>4 DEF Callback
<1> QED
    BY <1>5 DEF S

\* A heartbeat answer or a Receive callback ends the goroutine.
LEMMA DispatchQuiet ==
    ASSUME IInv, NEW h \in Handlers, Dispatch(h)
    PROVE  TypeOK' /\ Quiet
<1> USE ConstantsAssumption, NamesAssumption
<1>a. at[h] \in Conns
    BY AtConn DEF Dispatch, Threads
<1>1. MovesOutside
    BY BeginMovesOutside DEF Dispatch, Finish, Labels, Critical, AddLabels, RemoveLabels, Threads
<1>b. callbacks' \in [Conns -> Seq({"Connect", "Receive", "Disconnect"})]
    BY <1>a, CallbackTyped DEF IInv, TypeOK, Dispatch
<1>d. inflight' \in [Conns -> Int]
    <2>1. inflight[at[h]] - 1 \in Int
        BY <1>a DEF IInv, TypeOK
    <2> QED
        BY <2>1 DEF IInv, TypeOK, Dispatch, DecInflight
<1>2. TypeOK'
    BY <1>1, <1>b, <1>d
    DEF IInv, TypeOK, MovesOutside, sockets, server, registries, Dispatch
<1>3. Quiet
    BY <1>1 DEF Quiet, Dispatch, server, registries
<1> QED
    BY <1>2, <1>3

\* The timer starts Close.
LEMMA PingFailsQuiet ==
    ASSUME IInv, NEW c \in Conns, PingFails(c)
    PROVE  TypeOK' /\ Quiet
<1> USE ConstantsAssumption, NamesAssumption
<1>1. MovesOutside
    BY BeginMovesOutside DEF PingFails, LoopFree, Labels, Critical, AddLabels, RemoveLabels, Threads
<1>2. TypeOK'
    BY <1>1 DEF IInv, TypeOK, MovesOutside, sockets, server, registries, hubs, PingFails
<1>3. Quiet
    BY <1>1 DEF Quiet, PingFails, server, registries
<1> QED
    BY <1>2, <1>3

\* The timer forgets a connection.
LEMMA HeartbeatRemoveConnQuiet ==
    ASSUME IInv, NEW c \in Conns, HeartbeatRemoveConn(c)
    PROVE  TypeOK' /\ Quiet
<1> USE ConstantsAssumption, NamesAssumption
<1>1. MovesOutside
    BY DEF HeartbeatRemoveConn, IInv, TypeOK, MutualExclusion, MovesOutside
<1>2. TypeOK'
    BY <1>1 DEF IInv, TypeOK, MovesOutside, sockets, server, registries, hubs, HeartbeatRemoveConn
<1>3. Quiet
    BY <1>1 DEF Quiet, HeartbeatRemoveConn, server, registries
<1> QED
    BY <1>2, <1>3

(***************************************************************************)
(* The other steps move one thread into, inside or out of the section of a *)
(* connection's mu.                                                        *)
(***************************************************************************)
\* Only thread t moves.
OnlyMoves(t) ==
    /\ pc' \in [Threads -> Labels]
    /\ at' \in [Threads -> Conns \union {NoConn}]
    /\ \A u \in Threads \ {t} : pc'[u] = pc[u] /\ at'[u] = at[u]
    /\ pc'[t] # "idle" => at'[t] \in Conns

\* A thread that goes on with its connection.
LEMMA GotoMoves ==
    ASSUME IInv, NEW t \in Threads, pc[t] # "idle", NEW label \in Labels,
           Goto(t, label)
    PROVE  OnlyMoves(t) /\ pc'[t] = label /\ at'[t] = at[t]
BY AtConn DEF IInv, TypeOK, OnlyMoves, Goto

\* A thread that is done with its connection.
LEMMA FinishMoves ==
    ASSUME IInv, NEW t \in Threads, Finish(t)
    PROVE  OnlyMoves(t) /\ pc'[t] = "idle"
BY DEF IInv, TypeOK, OnlyMoves, Finish, Begin, Labels

\* The holder of a lock is at the connection whose lock it holds.
LEMMA Holder ==
    ASSUME IInv, NEW t \in Threads, pc[t] \in Critical
    PROVE  at[t] \in Conns /\ mu[at[t]] = t /\ Stage(at[t]) = pc[t]
BY AtConn, NamesAssumption
DEF IInv, MutualExclusion, Stage, Critical, AddLabels, RemoveLabels

\* What the other connections see of a step of t at c.
OthersUnmoved(c) == \A d \in Conns \ {c} : Stage(d)' = Stage(d)

\* A thread takes the lock of its connection.
LEMMA Enter ==
    ASSUME IInv, NEW t \in Threads, NEW c \in Conns, at[t] = c,
           pc[t] \notin Critical, pc'[t] \in Critical, at'[t] = c,
           mu[c] = NoThread, mu' = [mu EXCEPT ![c] = t], OnlyMoves(t)
    PROVE  /\ MutualExclusion' /\ mu' \in [Conns -> Threads \union {NoThread}]
           /\ Stage(c)' = pc'[t] /\ OthersUnmoved(c)
<1> USE NamesAssumption
<1>1. mu' \in [Conns -> Threads \union {NoThread}]
    BY DEF IInv, TypeOK
<1>2. mu'[c] = t /\ \A d \in Conns \ {c} : mu'[d] = mu[d]
    BY DEF IInv, TypeOK
<1>3. Stage(c)' = pc'[t]
    BY <1>2 DEF Stage
<1>4. OthersUnmoved(c)
    BY <1>2 DEF IInv, TypeOK, MutualExclusion, OthersUnmoved, Stage, OnlyMoves
<1>5. MutualExclusion'
    <2>1. ASSUME NEW u \in Threads, pc'[u] \in Critical
          PROVE  mu'[at'[u]] = u
        <3>1. CASE u = t
            BY <3>1, <1>2
        <3>2. CASE u # t
            <4>1. pc[u] \in Critical /\ at'[u] = at[u]
                BY <2>1, <3>2 DEF OnlyMoves
            <4>2. at[u] \in Conns /\ mu[at[u]] = u
                BY <4>1, Holder
            <4> QED
                BY <3>2, <4>1, <4>2, <1>2
        <3> QED
            BY <3>1, <3>2
    <2>2. ASSUME NEW d \in Conns, mu'[d] # NoThread
          PROVE  at'[mu'[d]] = d /\ pc'[mu'[d]] \in Critical
        <3> DEFINE u == mu[d]
        <3>1. CASE d = c
            BY <3>1, <2>2, <1>2
        <3>2. CASE d # c
            <4>1. u \in Threads /\ mu'[d] = u
                BY <3>2, <2>2, <1>2 DEF IInv, TypeOK
            <4>2. at[u] = d /\ pc[u] \in Critical
                BY <4>1, <2>2 DEF IInv, MutualExclusion
            <4>3. u # t
                BY <4>2, <3>2
            <4> QED
                BY <4>1, <4>2, <4>3 DEF OnlyMoves
        <3> QED
            BY <3>1, <3>2
    <2>3. ASSUME NEW u \in Threads, pc'[u] # "idle"
          PROVE  at'[u] \in Conns
        BY <2>3 DEF IInv, MutualExclusion, OnlyMoves
    <2> QED
        BY <2>1, <2>2, <2>3 DEF MutualExclusion
<1> QED
    BY <1>1, <1>3, <1>4, <1>5

\* The holder of a lock goes on.
LEMMA Inside ==
    ASSUME IInv, NEW t \in Threads, pc[t] \in Critical, pc'[t] \in Critical,
           at'[t] = at[t], mu' = mu, OnlyMoves(t)
    PROVE  /\ MutualExclusion' /\ mu' \in [Conns -> Threads \union {NoThread}]
           /\ Stage(at[t])' = pc'[t] /\ OthersUnmoved(at[t])
<1> USE NamesAssumption
<1>1. at[t] \in Conns /\ mu[at[t]] = t
    BY Holder
<1>2. Stage(at[t])' = pc'[t]
    BY <1>1 DEF Stage
<1>3. OthersUnmoved(at[t])
    BY DEF IInv, TypeOK, MutualExclusion, OthersUnmoved, Stage, OnlyMoves
<1>4. MutualExclusion'
    <2>1. ASSUME NEW u \in Threads, pc'[u] \in Critical
          PROVE  mu'[at'[u]] = u
        <3>1. CASE u = t
            BY <3>1, <1>1
        <3>2. CASE u # t
            <4>1. pc[u] \in Critical /\ at'[u] = at[u]
                BY <2>1, <3>2 DEF OnlyMoves
            <4>2. at[u] \in Conns /\ mu[at[u]] = u
                BY <4>1, Holder
            <4> QED
                BY <3>2, <4>1, <4>2, <1>1
        <3> QED
            BY <3>1, <3>2
    <2>2. ASSUME NEW d \in Conns, mu'[d] # NoThread
          PROVE  at'[mu'[d]] = d /\ pc'[mu'[d]] \in Critical
        <3> DEFINE u == mu[d]
        <3>1. CASE d = at[t]
            BY <3>1, <2>2, <1>1
        <3>2. CASE d # at[t]
            <4>1. u \in Threads /\ mu'[d] = u
                BY <3>2, <2>2, <1>1 DEF IInv, TypeOK
            <4>2. at[u] = d /\ pc[u] \in Critical
                BY <4>1, <2>2 DEF IInv, MutualExclusion
            <4>3. u # t
                BY <4>2, <3>2
            <4> QED
                BY <4>1, <4>2, <4>3 DEF OnlyMoves
        <3> QED
            BY <3>1, <3>2
    <2>3. ASSUME NEW u \in Threads, pc'[u] # "idle"
          PROVE  at'[u] \in Conns
        BY <2>3 DEF IInv, MutualExclusion, OnlyMoves
    <2> QED
        BY <2>1, <2>2, <2>3 DEF MutualExclusion
<1> QED
    BY <1>2, <1>3, <1>4 DEF IInv, TypeOK

\* The holder of a lock lets it go.
LEMMA Release ==
    ASSUME IInv, NEW t \in Threads, NEW c \in Conns, at[t] = c,
           pc[t] \in Critical, pc'[t] \notin Critical,
           mu' = [mu EXCEPT ![c] = NoThread], OnlyMoves(t)
    PROVE  /\ MutualExclusion' /\ mu' \in [Conns -> Threads \union {NoThread}]
           /\ Stage(c)' = "free" /\ OthersUnmoved(c)
<1> USE NamesAssumption
<1>1. mu' \in [Conns -> Threads \union {NoThread}]
    BY DEF IInv, TypeOK
<1>2. mu'[c] = NoThread /\ \A d \in Conns \ {c} : mu'[d] = mu[d]
    BY DEF IInv, TypeOK
<1>3. Stage(c)' = "free"
    BY <1>2 DEF Stage
<1>4. OthersUnmoved(c)
    BY <1>2 DEF IInv, TypeOK, MutualExclusion, OthersUnmoved, Stage, OnlyMoves
<1>5. MutualExclusion'
    <2>1. ASSUME NEW u \in Threads, pc'[u] \in Critical
          PROVE  mu'[at'[u]] = u
        <3>1. CASE u = t
            BY <3>1, <2>1
        <3>2. CASE u # t
            <4>1. pc[u] \in Critical /\ at'[u] = at[u]
                BY <2>1, <3>2 DEF OnlyMoves
            <4>2. at[u] \in Conns /\ mu[at[u]] = u
                BY <4>1, Holder
            <4> QED
                BY <3>2, <4>1, <4>2, <1>2, Holder
        <3> QED
            BY <3>1, <3>2
    <2>2. ASSUME NEW d \in Conns, mu'[d] # NoThread
          PROVE  at'[mu'[d]] = d /\ pc'[mu'[d]] \in Critical
        <3> DEFINE u == mu[d]
        <3>1. CASE d = c
            BY <3>1, <2>2, <1>2
        <3>2. CASE d # c
            <4>1. u \in Threads /\ mu'[d] = u
                BY <3>2, <2>2, <1>2 DEF IInv, TypeOK
            <4>2. at[u] = d /\ pc[u] \in Critical
                BY <4>1, <2>2 DEF IInv, MutualExclusion
            <4>3. u # t
                BY <4>2, <3>2
            <4> QED
                BY <4>1, <4>2, <4>3 DEF OnlyMoves
        <3> QED
            BY <3>1, <3>2
    <2>3. ASSUME NEW u \in Threads, pc'[u] # "idle"
          PROVE  at'[u] \in Conns
        BY <2>3 DEF IInv, MutualExclusion, OnlyMoves
    <2> QED
        BY <2>1, <2>2, <2>3 DEF MutualExclusion
<1> QED
    BY <1>1, <1>3, <1>4, <1>5

\* Close returns: the caller is outside again, with its counters adjusted.
LEMMA CloseReturnsMoves ==
    ASSUME IInv, NEW t \in Threads, NEW c \in Conns, pc[t] # "idle",
           CloseReturns(t, c)
    PROVE  /\ OnlyMoves(t) /\ pc'[t] \notin Critical
           /\ inflight' \in [Conns -> Int]
           /\ hb' \in [Conns -> {"untracked", "tracked", "leaving"}]
<1> USE DEF Critical, AddLabels, RemoveLabels
<1>1. CASE Goto(t, "upgrade") /\ UNCHANGED <<inflight, hb>>
    BY <1>1, GotoMoves DEF IInv, TypeOK, Labels
<1>2. CASE Finish(t) /\ UNCHANGED <<inflight, hb>>
    BY <1>2, FinishMoves DEF IInv, TypeOK
<1>3. CASE Finish(t) /\ DecInflight(c) /\ UNCHANGED hb
    <2>1. inflight[c] - 1 \in Int
        BY DEF IInv, TypeOK
    <2>2. inflight' \in [Conns -> Int]
        BY <1>3, <2>1 DEF IInv, TypeOK, DecInflight
    <2> QED
        BY <1>3, <2>2, FinishMoves DEF IInv, TypeOK
<1>4. CASE /\ Finish(t)
           /\ hb' = [hb EXCEPT ![c] = "untracked"] /\ UNCHANGED inflight
    BY <1>4, FinishMoves DEF IInv, TypeOK
<1> QED
    BY <1>1, <1>2, <1>3, <1>4 DEF CloseReturns

\* A second Close returns.
LEMMA CloseAgainQuiet ==
    ASSUME IInv, NEW t \in Threads, CloseAgain(t)
    PROVE  TypeOK' /\ Quiet
<1>1. /\ OnlyMoves(t) /\ pc'[t] \notin Critical
      /\ inflight' \in [Conns -> Int]
      /\ hb' \in [Conns -> {"untracked", "tracked", "leaving"}]
    BY AtConn, CloseReturnsMoves DEF CloseAgain
<1>2. MovesOutside
    BY <1>1 DEF IInv, MutualExclusion, OnlyMoves, MovesOutside, CloseAgain, Critical, AddLabels, RemoveLabels
<1>3. TypeOK'
    BY <1>1, <1>2 DEF IInv, TypeOK, MovesOutside, sockets, registries, CloseAgain
<1>4. Quiet
    BY <1>2 DEF Quiet, CloseAgain, registries
<1> QED
    BY <1>3, <1>4

\* The group of a session is a group, and only its own name names it.
LEMMA GroupOfSession ==
    ASSUME NEW s \in Sessions
    PROVE  /\ Group(s) \in Groups
           /\ Group(s)[1] = s.business /\ Group(s)[2] = s.alias
           /\ \A g \in Groups :
                  g[1] = s.business /\ g[2] = s.alias => g = Group(s)
BY ConstantsAssumption DEF Group, Groups

(***************************************************************************)
(* One lemma per step that changes a lock, a state or a registry.          *)
(***************************************************************************)

\* setAuthed takes the lock of a connection in Init, or finds it too late.
LEMMA SetAuthedKeeps ==
    ASSUME IInv, NEW l \in Loops, NEW s \in Sessions, SetAuthed(l, s)
    PROVE  IInv'
<1> USE ConstantsAssumption, NamesAssumption
<1>0. l \in Threads /\ at[l] \in Conns /\ pc[l] = "setAuthed"
    BY AtConn DEF SetAuthed, Threads
<1>1. ASSUME NEW c \in Conns, c = at[l], connState[c] = "Init"
      PROVE  IInv'
    <2>a. /\ mu[c] = NoThread /\ mu' = [mu EXCEPT ![c] = l]
          /\ connState' = [connState EXCEPT ![c] = "Authed"]
          /\ session' = [session EXCEPT ![c] = s]
          /\ Goto(l, "addConnID")
          /\ UNCHANGED <<registries, warned>>
        BY <1>1 DEF SetAuthed, Unlocked
    <2>1. OnlyMoves(l) /\ pc'[l] = "addConnID" /\ at'[l] = c
        BY <1>0, <1>1, <2>a, GotoMoves DEF Labels, Critical, AddLabels, RemoveLabels
    <2>2. /\ MutualExclusion' /\ mu' \in [Conns -> Threads \union {NoThread}]
          /\ Stage(c)' = "addConnID" /\ OthersUnmoved(c) /\ Stage(c) = "free"
        BY <1>0, <1>1, <2>1, <2>a, Enter DEF Critical, AddLabels, RemoveLabels, Stage
    <2>T. TypeOK'
        BY <2>1, <2>2, <2>a DEF IInv, TypeOK, OnlyMoves, sockets, server, registries, SetAuthed
    <2>b. /\ connState'[c] = "Authed" /\ session'[c] = s
          /\ \A d \in Conns \ {c} : connState'[d] = connState[d] /\ session'[d] = session[d]
        BY <2>a DEF IInv, TypeOK
    <2>P. Progress'
        BY <1>1, <2>2, <2>a, <2>b DEF IInv, Progress, OthersUnmoved, registries, AddLabels
    <2>R. RegistriesExact'
        <3>1. ~InConnMap(c) /\ ~InHub(c) /\ ~InAllConns(c)
            BY <1>1 DEF InConnMap, InHub, InAllConns
        <3>2. ~InConnMap(c)' /\ ~InHub(c)' /\ ~InAllConns(c)'
            BY <2>2, <2>b DEF InConnMap, InHub, InAllConns
        <3>3. \A d \in Conns \ {c} : /\ InConnMap(d)' <=> InConnMap(d)
                                     /\ InHub(d)' <=> InHub(d)
                                     /\ InAllConns(d)' <=> InAllConns(d)
            BY <2>2, <2>a, <2>b DEF OthersUnmoved, InConnMap, InHub, InAllConns
        <3> QED
            BY <3>1, <3>2, <3>3, <2>a, <2>b DEF IInv, RegistriesExact, registries
    <2>H. HubsExact'
        BY <2>a DEF IInv, HubsExact, registries
    <2> QED
        BY <2>2, <2>T, <2>P, <2>R, <2>H DEF IInv
<1>2. CASE connState[at[l]] # "Init"
    <2>1. MovesOutside
        BY <1>0, <1>2, GotoMovesOutside DEF SetAuthed, Labels, Critical, AddLabels, RemoveLabels
    <2>2. Quiet
        BY <1>2, <2>1 DEF Quiet, SetAuthed, registries
    <2>3. TypeOK'
        BY <1>2, <2>1 DEF IInv, TypeOK, MovesOutside, sockets, server, registries, SetAuthed
    <2> QED
        BY <2>2, <2>3, QuietKeeps DEF IInv
<1> QED
    BY <1>0, <1>1, <1>2

\* addAliasConn registers the connection and its topic, under its session.
LEMMA AddAliasConnKeeps ==
    ASSUME IInv, NEW l \in Loops, NEW c \in Conns, at[l] = c, AddAliasConn(l)
    PROVE  IInv'
<1> USE ConstantsAssumption, NamesAssumption
<1> DEFINE g == Group(session[c])
<1>0. l \in Threads /\ pc[l] = "addAliasConn"
    BY DEF AddAliasConn, Threads
<1>1. c \in Conns /\ mu[c] = l /\ Stage(c) = "addAliasConn"
    BY <1>0, Holder DEF Critical, AddLabels, RemoveLabels
<1>s. connState[c] = "Authed" /\ session[c] \in Sessions
    BY <1>1 DEF IInv, TypeOK, Progress, AddLabels, RemoveLabels
<1>2. OnlyMoves(l) /\ pc'[l] = "addConn" /\ at'[l] = c
    BY <1>0, GotoMoves DEF AddAliasConn, Labels, Critical, AddLabels, RemoveLabels
<1>3. /\ MutualExclusion' /\ mu' \in [Conns -> Threads \union {NoThread}]
      /\ Stage(c)' = "addConn" /\ OthersUnmoved(c)
    BY <1>0, <1>2, Inside DEF AddAliasConn, Critical, AddLabels, RemoveLabels
<1>T. TypeOK'
    BY <1>1, <1>s, <1>2, <1>3 DEF IInv, TypeOK, OnlyMoves, Progress, sockets, server, registries, hubs, AddAliasConn, SubscribeTopic, Group, Groups
<1>P. Progress'
    BY <1>1, <1>s, <1>2, <1>3 DEF IInv, TypeOK, Progress, OthersUnmoved, AddAliasConn, Labels, Critical, AddLabels, RemoveLabels, registries
<1>g. /\ g \in Groups /\ g[1] = session[c].business /\ g[2] = session[c].alias
      /\ \A f \in Groups : f[1] = g[1] /\ f[2] = g[2] => f = g
    BY <1>s, GroupOfSession
<1>a. /\ hubConns' = [hubConns EXCEPT ![g] = @ \union {c}]
      /\ topicSet' = [topicSet EXCEPT ![g] = @ \union {session[c].topic}]
      /\ aliasHub' = aliasHub \union {g}
      /\ topicAliasInfoMap' = topicAliasInfoMap \union {<<g[1], session[c].topic, g[2]>>}
      /\ UNCHANGED <<connState, session, warned, allConns, connectionIDToConnMap>>
    BY <1>g DEF AddAliasConn, SubscribeTopic
<1> HIDE DEF g
<1>R. RegistriesExact'
    <2>1. c \notin warned
        BY <1>1 DEF IInv, Progress, AddLabels
    <2>2. /\ InConnMap(c)' <=> InConnMap(c)
          /\ InAllConns(c)' <=> InAllConns(c)
          /\ InHub(c)'
        BY <1>1, <1>s, <1>3, <1>a, <2>1 DEF InConnMap, InHub, InAllConns
    <2>3. \A d \in Conns \ {c} : /\ InConnMap(d)' <=> InConnMap(d)
                                 /\ InHub(d)' <=> InHub(d)
                                 /\ InAllConns(d)' <=> InAllConns(d)
        BY <1>3, <1>a DEF OthersUnmoved, InConnMap, InHub, InAllConns
    <2>4. ~InHub(c)
        BY <1>1, <1>s DEF InHub
    <2>5. \A f \in Groups : c \in hubConns'[f] <=> f = g
        BY <2>4, <1>1, <1>a, <1>g DEF IInv, TypeOK, RegistriesExact
    <2>6. \A d \in Conns \ {c} : \A f \in Groups : d \in hubConns'[f] <=> d \in hubConns[f]
        BY <1>a, <1>g DEF IInv, TypeOK
    <2>7. g = Group(session[c])
        BY DEF g
    <2> QED
        BY <2>2, <2>3, <2>5, <2>6, <2>7, <1>a DEF IInv, RegistriesExact
<1>H. HubsExact'
    <2> SUFFICES ASSUME NEW f \in Groups
                 PROVE  /\ f \in aliasHub' <=> hubConns'[f] # {}
                        /\ f \notin aliasHub' => topicSet'[f] = {}
                        /\ \A t \in Topics :
                             <<f[1], t, f[2]>> \in topicAliasInfoMap' <=> t \in topicSet'[f]
        BY DEF HubsExact
    <2>1. /\ f \in aliasHub <=> hubConns[f] # {}
          /\ f \notin aliasHub => topicSet[f] = {}
          /\ \A t \in Topics : <<f[1], t, f[2]>> \in topicAliasInfoMap <=> t \in topicSet[f]
        BY DEF IInv, HubsExact
    <2>2. CASE f = g
        BY <2>1, <2>2, <1>a, <1>g DEF IInv, TypeOK
    <2>3. CASE f # g
        <3>1. hubConns'[f] = hubConns[f] /\ topicSet'[f] = topicSet[f]
            BY <2>3, <1>a DEF IInv, TypeOK
        <3>2. \A t \in Topics : <<f[1], t, f[2]>> # <<g[1], session[c].topic, g[2]>>
            BY <2>3, <1>g
        <3> QED
            BY <2>1, <2>3, <3>1, <3>2, <1>a
    <2> QED
        BY <2>2, <2>3
<1> QED
    BY <1>3, <1>T, <1>P, <1>R, <1>H DEF IInv

\* addConn enters the connection in allConns.
LEMMA AddConnKeeps ==
    ASSUME IInv, NEW l \in Loops, NEW c \in Conns, at[l] = c, AddConn(l)
    PROVE  IInv'
<1> USE ConstantsAssumption, NamesAssumption
<1>0. l \in Threads /\ pc[l] = "addConn"
    BY DEF AddConn, Threads
<1>1. c \in Conns /\ mu[c] = l /\ Stage(c) = "addConn"
    BY <1>0, Holder DEF Critical, AddLabels, RemoveLabels
<1>s. connState[c] = "Authed" /\ session[c] \in Sessions
    BY <1>1 DEF IInv, TypeOK, Progress, AddLabels, RemoveLabels
<1>2. OnlyMoves(l) /\ pc'[l] = "connectCallback" /\ at'[l] = c
    BY <1>0, GotoMoves DEF AddConn, Labels, Critical, AddLabels, RemoveLabels
<1>3. /\ MutualExclusion' /\ mu' \in [Conns -> Threads \union {NoThread}]
      /\ Stage(c)' = "connectCallback" /\ OthersUnmoved(c)
    BY <1>0, <1>2, Inside DEF AddConn, Critical, AddLabels, RemoveLabels
<1>T. TypeOK'
    BY <1>1, <1>s, <1>2, <1>3 DEF IInv, TypeOK, OnlyMoves, Progress, sockets, server, registries, hubs, AddConn
<1>P. Progress'
    BY <1>1, <1>s, <1>2, <1>3 DEF IInv, TypeOK, Progress, OthersUnmoved, AddConn, Labels, Critical, AddLabels, RemoveLabels, registries
<1>R. RegistriesExact'
    BY <1>1, <1>s, <1>2, <1>3 DEF IInv, TypeOK, Progress, RegistriesExact, InConnMap, InHub, InAllConns, OthersUnmoved, AddConn, registries, Labels, Critical, AddLabels, RemoveLabels, hubs
<1>H. HubsExact'
    BY <1>1, <1>s, <1>2, <1>3 DEF IInv, HubsExact, AddConn, registries, hubs
<1> QED
    BY <1>3, <1>T, <1>P, <1>R, <1>H DEF IInv

\* removeAliasConn unregisters it, and takes the empty hub down.
LEMMA RemoveAliasConnKeeps ==
    ASSUME IInv, NEW t \in Threads, NEW c \in Conns, at[t] = c, RemoveAliasConn(t)
    PROVE  IInv'
<1> USE ConstantsAssumption, NamesAssumption
<1> DEFINE g == Group(session[c])
<1>0. t \in Threads /\ pc[t] = "removeAliasConn"
    BY DEF RemoveAliasConn, Threads
<1>1. c \in Conns /\ mu[c] = t /\ Stage(c) = "removeAliasConn"
    BY <1>0, Holder DEF Critical, AddLabels, RemoveLabels
<1>s. connState[c] = "Closing" /\ session[c] \in Sessions
    BY <1>1 DEF IInv, TypeOK, Progress, AddLabels, RemoveLabels
<1>2. OnlyMoves(t) /\ pc'[t] = "removeConn" /\ at'[t] = c
    BY <1>0, GotoMoves DEF RemoveAliasConn, Labels, Critical, AddLabels, RemoveLabels
<1>3. /\ MutualExclusion' /\ mu' \in [Conns -> Threads \union {NoThread}]
      /\ Stage(c)' = "removeConn" /\ OthersUnmoved(c)
    BY <1>0, <1>2, Inside DEF RemoveAliasConn, Critical, AddLabels, RemoveLabels
<1>g. /\ g \in Groups /\ g[1] = session[c].business /\ g[2] = session[c].alias
      /\ \A f \in Groups : f[1] = g[1] /\ f[2] = g[2] => f = g
    BY <1>s, GroupOfSession
<1>a. UNCHANGED <<connState, session, mu, warned, allConns, buisnessGroup,
                  connectionIDToConnMap>>
    BY DEF RemoveAliasConn
<1>P. Progress'
    BY <1>1, <1>s, <1>3, <1>a DEF IInv, Progress, OthersUnmoved, AddLabels, RemoveLabels
<1> HIDE DEF g
<1>i. /\ ~InHub(c)'
      /\ InConnMap(c)' <=> InConnMap(c)
      /\ InAllConns(c)' <=> InAllConns(c)
      /\ \A d \in Conns \ {c} : /\ InConnMap(d)' <=> InConnMap(d)
                                /\ InHub(d)' <=> InHub(d)
                                /\ InAllConns(d)' <=> InAllConns(d)
    BY <1>1, <1>s, <1>3, <1>a DEF OthersUnmoved, InConnMap, InHub, InAllConns
<1>m. \A f \in Groups : f # g => c \notin hubConns[f]
    BY DEF IInv, RegistriesExact, g
<1>4. CASE g \notin aliasHub
    <2>1. UNCHANGED <<aliasHub, hubConns, topicSet, topicAliasInfoMap>>
        BY <1>4 DEF RemoveAliasConn, hubs, g
    <2>2. c \notin hubConns[g]
        BY <1>4, <1>g DEF IInv, HubsExact
    <2>T. TypeOK'
        BY <1>2, <1>3, <1>a, <2>1 DEF IInv, TypeOK, OnlyMoves, sockets, server, RemoveAliasConn
    <2>R. RegistriesExact'
        BY <1>i, <1>m, <1>a, <2>1, <2>2 DEF IInv, RegistriesExact
    <2>H. HubsExact'
        BY <2>1 DEF IInv, HubsExact
    <2> QED
        BY <1>3, <1>P, <2>T, <2>R, <2>H DEF IInv
<1>5. CASE g \in aliasHub
    <2> DEFINE last == hubConns[g] \ {c} = {}
    <2>1. /\ hubConns' = [hubConns EXCEPT ![g] = @ \ {c}]
          /\ aliasHub' = IF last THEN aliasHub \ {g} ELSE aliasHub
          /\ topicSet' = IF last THEN [topicSet EXCEPT ![g] = {}] ELSE topicSet
          /\ topicAliasInfoMap' =
                 IF last THEN topicAliasInfoMap \
                              {<<g[1], topic, g[2]>> : topic \in topicSet[g]}
                         ELSE topicAliasInfoMap
        BY <1>5 DEF RemoveAliasConn, NoneLeft, g
    <2> HIDE DEF last
    <2>2. /\ hubConns' \in [Groups -> SUBSET Conns]
          /\ hubConns'[g] = hubConns[g] \ {c}
          /\ \A f \in Groups \ {g} : hubConns'[f] = hubConns[f]
        BY <2>1, <1>g DEF IInv, TypeOK
    <2>3. topicSet' \in [Groups -> SUBSET Topics]
        BY <2>1, <1>g DEF IInv, TypeOK
    <2>4. aliasHub' \subseteq Groups /\ topicAliasInfoMap' \subseteq Businesses \X Topics \X Aliases
        BY <2>1 DEF IInv, TypeOK
    <2>T. TypeOK'
        BY <1>2, <1>3, <1>a, <2>2, <2>3, <2>4
        DEF IInv, TypeOK, OnlyMoves, sockets, server, RemoveAliasConn
    <2>R. RegistriesExact'
        <3>1. \A f \in Groups : c \notin hubConns'[f]
            BY <2>2, <1>m
        <3>2. \A d \in Conns \ {c} : \A f \in Groups : d \in hubConns'[f] <=> d \in hubConns[f]
            BY <2>2
        <3> QED
            BY <1>i, <1>a, <3>1, <3>2 DEF IInv, RegistriesExact
    <2>H. HubsExact'
        <3> SUFFICES ASSUME NEW f \in Groups
                     PROVE  /\ f \in aliasHub' <=> hubConns'[f] # {}
                            /\ f \notin aliasHub' => topicSet'[f] = {}
                            /\ \A u \in Topics :
                                 <<f[1], u, f[2]>> \in topicAliasInfoMap' <=> u \in topicSet'[f]
            BY DEF HubsExact
        <3>1. /\ f \in aliasHub <=> hubConns[f] # {}
              /\ f \notin aliasHub => topicSet[f] = {}
              /\ \A u \in Topics : <<f[1], u, f[2]>> \in topicAliasInfoMap <=> u \in topicSet[f]
            BY DEF IInv, HubsExact
        <3>2. CASE f # g
            <4>1. topicSet'[f] = topicSet[f]
                BY <3>2, <2>1, <1>g DEF IInv, TypeOK
            <4>2. \A u \in Topics : \A v \in topicSet[g] : <<f[1], u, f[2]>> # <<g[1], v, g[2]>>
                BY <3>2, <1>g
            <4>3. \A u \in Topics : <<f[1], u, f[2]>> \in topicAliasInfoMap'
                                    <=> <<f[1], u, f[2]>> \in topicAliasInfoMap
                BY <4>2, <2>1
            <4> QED
                BY <3>1, <3>2, <4>1, <4>3, <2>1, <2>2
        <3>3. CASE f = g /\ last
            <4>1. topicSet'[f] = {} /\ hubConns'[f] = {} /\ f \notin aliasHub'
                BY <3>3, <2>1, <2>2, <1>g DEF last, IInv, TypeOK
            <4>2. \A u \in Topics : <<f[1], u, f[2]>> \notin topicAliasInfoMap'
                BY <3>1, <3>3, <2>1
            <4> QED
                BY <4>1, <4>2
        <3>4. CASE f = g /\ ~last
            BY <3>1, <3>4, <1>5, <2>1, <2>2 DEF last
        <3> QED
            BY <3>2, <3>3, <3>4
    <2> QED
        BY <1>3, <1>P, <2>T, <2>R, <2>H DEF IInv
<1> QED
    BY <1>4, <1>5

\* removeConn drops it from allConns.
LEMMA RemoveConnKeeps ==
    ASSUME IInv, NEW t \in Threads, NEW c \in Conns, at[t] = c, RemoveConn(t)
    PROVE  IInv'
<1> USE ConstantsAssumption, NamesAssumption
<1>0. t \in Threads /\ pc[t] = "removeConn"
    BY DEF RemoveConn, Threads
<1>1. c \in Conns /\ mu[c] = t /\ Stage(c) = "removeConn"
    BY <1>0, Holder DEF Critical, AddLabels, RemoveLabels
<1>s. connState[c] = "Closing" /\ session[c] \in Sessions
    BY <1>1 DEF IInv, TypeOK, Progress, AddLabels, RemoveLabels
<1>2. OnlyMoves(t) /\ pc'[t] = "disconnectCallback" /\ at'[t] = c
    BY <1>0, GotoMoves DEF RemoveConn, Labels, Critical, AddLabels, RemoveLabels
<1>3. /\ MutualExclusion' /\ mu' \in [Conns -> Threads \union {NoThread}]
      /\ Stage(c)' = "disconnectCallback" /\ OthersUnmoved(c)
    BY <1>0, <1>2, Inside DEF RemoveConn, Critical, AddLabels, RemoveLabels
<1>T. TypeOK'
    BY <1>1, <1>s, <1>2, <1>3 DEF IInv, TypeOK, OnlyMoves, Progress, sockets, server, registries, hubs, RemoveConn
<1>P. Progress'
    BY <1>1, <1>s, <1>2, <1>3 DEF IInv, TypeOK, Progress, OthersUnmoved, RemoveConn, Labels, Critical, AddLabels, RemoveLabels, registries
<1>R. RegistriesExact'
    BY <1>1, <1>s, <1>2, <1>3 DEF IInv, TypeOK, Progress, RegistriesExact, InConnMap, InHub, InAllConns, OthersUnmoved, RemoveConn, registries, Labels, Critical, AddLabels, RemoveLabels, hubs
<1>H. HubsExact'
    BY <1>1, <1>s, <1>2, <1>3 DEF IInv, HubsExact, RemoveConn, registries, hubs
<1> QED
    BY <1>3, <1>T, <1>P, <1>R, <1>H DEF IInv

\* AddAuthedConnection makes the connection known by its id, or, with no group
\* manager to be had, leaves it out of every registry and gives c.mu back.
LEMMA AddConnIDKeeps ==
    ASSUME IInv, NEW l \in Loops, NEW c \in Conns, at[l] = c, AddConnID(l)
    PROVE  IInv'
<1> USE ConstantsAssumption, NamesAssumption
<1>0. l \in Threads /\ pc[l] = "addConnID"
    BY DEF AddConnID, Threads
<1>1. mu[c] = l /\ Stage(c) = "addConnID"
    BY <1>0, Holder DEF Critical, AddLabels, RemoveLabels
<1>s. connState[c] = "Authed" /\ session[c] \in Sessions /\ c \notin warned
    BY <1>1 DEF IInv, TypeOK, Progress, AddLabels, RemoveLabels
<1>a. UNCHANGED <<connState, session, allConns, aliasHub, hubConns, topicSet,
                  topicAliasInfoMap>>
    BY DEF AddConnID, hubs
<1>H. HubsExact'
    BY <1>a DEF IInv, HubsExact
<1>o. ~InConnMap(c) /\ ~InHub(c) /\ ~InAllConns(c)
    BY <1>1, <1>s DEF InConnMap, InHub, InAllConns
<1>3. CASE /\ GetGroupManager(session[c].business)
           /\ connectionIDToConnMap' = connectionIDToConnMap \union {c}
           /\ Goto(l, "addAliasConn")
           /\ UNCHANGED <<mu, warned>>
    <2>1. OnlyMoves(l) /\ pc'[l] = "addAliasConn" /\ at'[l] = c
        BY <1>0, <1>3, GotoMoves DEF Labels, Critical, AddLabels, RemoveLabels
    <2>2. /\ MutualExclusion' /\ mu' \in [Conns -> Threads \union {NoThread}]
          /\ Stage(c)' = "addAliasConn" /\ OthersUnmoved(c)
        BY <1>0, <1>3, <2>1, Inside DEF Critical, AddLabels, RemoveLabels
    <2>T. TypeOK'
        BY <1>s, <1>a, <1>3, <2>1, <2>2 DEF IInv, TypeOK, OnlyMoves, sockets, server, AddConnID, GetGroupManager
    <2>P. Progress'
        BY <1>s, <1>a, <1>3, <2>2 DEF IInv, Progress, OthersUnmoved, AddLabels, GetGroupManager
    <2>i. /\ InConnMap(c)' /\ ~InHub(c)' /\ ~InAllConns(c)'
          /\ \A d \in Conns \ {c} : /\ InConnMap(d)' <=> InConnMap(d)
                                    /\ InHub(d)' <=> InHub(d)
                                    /\ InAllConns(d)' <=> InAllConns(d)
        BY <1>s, <1>a, <1>3, <2>2 DEF OthersUnmoved, InConnMap, InHub, InAllConns
    <2>R. RegistriesExact'
        BY <1>o, <1>a, <1>3, <2>i DEF IInv, RegistriesExact
    <2> QED
        BY <1>H, <2>2, <2>T, <2>P, <2>R DEF IInv
<1>4. CASE /\ GetGroupManagerFails(session[c].business)
           /\ warned' = warned \union {c}
           /\ mu' = [mu EXCEPT ![c] = NoThread]
           /\ Goto(l, "upgrade")
           /\ UNCHANGED connectionIDToConnMap
    <2>1. OnlyMoves(l) /\ pc'[l] = "upgrade" /\ at'[l] = c
        BY <1>0, <1>4, GotoMoves DEF Labels, Critical, AddLabels, RemoveLabels
    <2>2. /\ MutualExclusion' /\ mu' \in [Conns -> Threads \union {NoThread}]
          /\ Stage(c)' = "free" /\ OthersUnmoved(c)
        BY <1>0, <1>4, <2>1, Release DEF Critical, AddLabels, RemoveLabels
    <2>T. TypeOK'
        BY <1>s, <1>a, <1>4, <2>1, <2>2 DEF IInv, TypeOK, OnlyMoves, sockets, server, AddConnID, GetGroupManagerFails
    <2>P. Progress'
        BY <1>s, <1>a, <1>4, <2>2 DEF IInv, Progress, OthersUnmoved, AddLabels, GetGroupManagerFails
    <2>i. /\ ~InConnMap(c)' /\ ~InHub(c)' /\ ~InAllConns(c)'
          /\ \A d \in Conns \ {c} : /\ InConnMap(d)' <=> InConnMap(d)
                                    /\ InHub(d)' <=> InHub(d)
                                    /\ InAllConns(d)' <=> InAllConns(d)
        BY <1>s, <1>a, <1>4, <2>2 DEF OthersUnmoved, InConnMap, InHub, InAllConns
    <2>R. RegistriesExact'
        BY <1>o, <1>a, <1>4, <2>i DEF IInv, RegistriesExact
    <2> QED
        BY <1>H, <2>2, <2>T, <2>P, <2>R DEF IInv
<1> QED
    BY <1>3, <1>4 DEF AddConnID

\* The connect callback ends setAuthed; the connection is fully registered.
LEMMA ConnectCallbackKeeps ==
    ASSUME IInv, NEW l \in Loops, NEW c \in Conns, at[l] = c, ConnectCallback(l)
    PROVE  IInv'
<1> USE ConstantsAssumption, NamesAssumption
<1>0. l \in Threads /\ pc[l] = "connectCallback"
    BY DEF ConnectCallback, Threads
<1>1. mu[c] = l /\ Stage(c) = "connectCallback"
    BY <1>0, Holder DEF Critical, AddLabels, RemoveLabels
<1>s. connState[c] = "Authed" /\ session[c] \in Sessions
    BY <1>1 DEF IInv, TypeOK, Progress, AddLabels, RemoveLabels
<1>2. OnlyMoves(l) /\ pc'[l] = "upgrade" /\ at'[l] = c
    BY <1>0, GotoMoves DEF ConnectCallback, Labels, Critical, AddLabels, RemoveLabels
<1>3. /\ MutualExclusion' /\ mu' \in [Conns -> Threads \union {NoThread}]
      /\ Stage(c)' = "free" /\ OthersUnmoved(c)
    BY <1>0, <1>2, Release DEF ConnectCallback, Critical, AddLabels, RemoveLabels
<1>a. UNCHANGED <<connState, session, warned, registries>>
    BY DEF ConnectCallback
<1>c. callbacks' \in [Conns -> Seq({"Connect", "Receive", "Disconnect"})]
    BY CallbackTyped DEF ConnectCallback
<1>T. TypeOK'
    BY <1>2, <1>3, <1>a, <1>c DEF IInv, TypeOK, OnlyMoves, sockets, server, registries, ConnectCallback
<1>P. Progress'
    BY <1>1, <1>s, <1>3, <1>a DEF IInv, Progress, OthersUnmoved, AddLabels, registries
<1>R. RegistriesExact'
    <2>1. \A d \in Conns : /\ InConnMap(d)' <=> InConnMap(d)
                           /\ InHub(d)' <=> InHub(d)
                           /\ InAllConns(d)' <=> InAllConns(d)
        BY <1>1, <1>s, <1>3, <1>a DEF OthersUnmoved, InConnMap, InHub, InAllConns
    <2> QED
        BY <2>1, <1>a DEF IInv, RegistriesExact, registries
<1>H. HubsExact'
    BY <1>a DEF IInv, HubsExact, registries
<1> QED
    BY <1>3, <1>T, <1>P, <1>R, <1>H DEF IInv

\* Close of a connection in Init finds nothing registered.
LEMMA CloseInitKeeps ==
    ASSUME IInv, NEW t \in Threads, NEW c \in Conns, at[t] = c, CloseInit(t)
    PROVE  IInv'
<1> USE ConstantsAssumption, NamesAssumption
<1>1. /\ pc[t] = "close" /\ mu[c] = NoThread /\ connState[c] = "Init"
      /\ connState' = [connState EXCEPT ![c] = "Closed"]
      /\ UNCHANGED <<session, mu, warned, registries>>
      /\ CloseReturns(t, c)
    BY DEF CloseInit, Unlocked
<1>2. /\ OnlyMoves(t) /\ pc'[t] \notin Critical
      /\ inflight' \in [Conns -> Int]
      /\ hb' \in [Conns -> {"untracked", "tracked", "leaving"}]
    BY <1>1, CloseReturnsMoves
<1>m. MovesOutside
    BY <1>1, <1>2 DEF IInv, MutualExclusion, OnlyMoves, MovesOutside, Critical, AddLabels, RemoveLabels
<1>3. MutualExclusion'
    BY <1>1, <1>m DEF IInv, TypeOK, MovesOutside, MutualExclusion
<1>4. \A d \in Conns : Stage(d)' = Stage(d)
    BY <1>1, <1>2 DEF IInv, TypeOK, MutualExclusion, Stage, OnlyMoves, Critical, AddLabels, RemoveLabels
<1>5. connState'[c] = "Closed" /\ \A d \in Conns \ {c} : connState'[d] = connState[d]
    BY <1>1 DEF IInv, TypeOK
<1>6. /\ connState' \in [Conns -> {"Init", "Authed", "Closing", "Closed"}]
      /\ exited' \in [Conns -> BOOLEAN] /\ closeAsked' \in [Conns -> BOOLEAN]
    BY DEF IInv, TypeOK, CloseInit
<1>T. TypeOK'
    BY <1>1, <1>2, <1>6 DEF IInv, TypeOK, OnlyMoves, registries, CloseInit
<1>P. Progress'
    BY <1>1, <1>4, <1>5 DEF IInv, Progress, registries, Stage
<1>R. RegistriesExact'
    <2>1. \A d \in Conns : /\ InConnMap(d)' <=> InConnMap(d)
                           /\ InHub(d)' <=> InHub(d)
                           /\ InAllConns(d)' <=> InAllConns(d)
        BY <1>1, <1>4, <1>5 DEF InConnMap, InHub, InAllConns
    <2> QED
        BY <2>1, <1>1 DEF IInv, RegistriesExact, registries
<1>H. HubsExact'
    BY <1>1 DEF IInv, HubsExact, registries
<1> QED
    BY <1>3, <1>T, <1>P, <1>R, <1>H DEF IInv

\* Close takes the lock of an authenticated connection.
LEMMA CloseAuthedKeeps ==
    ASSUME IInv, NEW t \in Threads, NEW c \in Conns, at[t] = c, CloseAuthed(t)
    PROVE  IInv'
<1> USE ConstantsAssumption, NamesAssumption
<1>1. /\ pc[t] = "close" /\ mu[c] = NoThread /\ connState[c] = "Authed"
      /\ connState' = [connState EXCEPT ![c] = "Closing"]
      /\ mu' = [mu EXCEPT ![c] = t]
      /\ UNCHANGED <<session, warned, registries>>
    BY DEF CloseAuthed, Unlocked
<1>s. session[c] \in Sessions /\ Stage(c) = "free"
    BY <1>1 DEF IInv, Progress, Stage
<1>2. OnlyMoves(t) /\ pc'[t] = "removeConnID" /\ at'[t] = c
    <2>1. Goto(t, "removeConnID")
        BY <1>s DEF CloseAuthed
    <2> QED
        BY <1>1, <2>1, GotoMoves DEF Labels, Critical, AddLabels, RemoveLabels
<1>3. /\ MutualExclusion' /\ mu' \in [Conns -> Threads \union {NoThread}]
      /\ Stage(c)' = "removeConnID" /\ OthersUnmoved(c)
    BY <1>1, <1>2, Enter DEF Critical, AddLabels, RemoveLabels
<1>5. connState'[c] = "Closing" /\ \A d \in Conns \ {c} : connState'[d] = connState[d]
    BY <1>1 DEF IInv, TypeOK
<1>T. TypeOK'
    BY <1>1, <1>2, <1>3 DEF IInv, TypeOK, OnlyMoves, sockets, server, registries, CloseAuthed
<1>P. Progress'
    BY <1>1, <1>s, <1>3, <1>5 DEF IInv, Progress, OthersUnmoved, registries, AddLabels, RemoveLabels
<1>R. RegistriesExact'
    <2>1. \A d \in Conns : /\ InConnMap(d)' <=> InConnMap(d)
                           /\ InHub(d)' <=> InHub(d)
                           /\ InAllConns(d)' <=> InAllConns(d)
        BY <1>1, <1>s, <1>3, <1>5 DEF OthersUnmoved, InConnMap, InHub, InAllConns
    <2> QED
        BY <2>1, <1>1 DEF IInv, RegistriesExact, registries
<1>H. HubsExact'
    BY <1>1 DEF IInv, HubsExact, registries
<1> QED
    BY <1>3, <1>T, <1>P, <1>R, <1>H DEF IInv

\* RemoveAuthedConnection forgets the id.  It misses the group manager only
\* for a connection that was never registered.
LEMMA RemoveConnIDKeeps ==
    ASSUME IInv, NEW t \in Threads, NEW c \in Conns, at[t] = c, RemoveConnID(t)
    PROVE  IInv'
<1> USE ConstantsAssumption, NamesAssumption
<1>0. pc[t] = "removeConnID"
    BY DEF RemoveConnID
<1>1. mu[c] = t /\ Stage(c) = "removeConnID"
    BY <1>0, Holder DEF Critical, AddLabels, RemoveLabels
<1>s. connState[c] = "Closing" /\ session[c] \in Sessions
    BY <1>1 DEF IInv, TypeOK, Progress, AddLabels, RemoveLabels
<1>a. /\ connectionIDToConnMap' = connectionIDToConnMap \ {c}
      /\ UNCHANGED <<connState, session, mu, warned, allConns, aliasHub,
                     hubConns, topicSet, topicAliasInfoMap>>
    BY DEF RemoveConnID, hubs
<1>b. \E label \in {"removeAliasConn", "closeNetwork"} : Goto(t, label)
    BY DEF RemoveConnID
<1>2. /\ OnlyMoves(t) /\ pc'[t] \in {"removeAliasConn", "closeNetwork"}
      /\ at'[t] = c
    BY <1>0, <1>b, GotoMoves DEF Labels, Critical, AddLabels, RemoveLabels
<1>3. /\ MutualExclusion' /\ mu' \in [Conns -> Threads \union {NoThread}]
      /\ Stage(c)' = pc'[t] /\ OthersUnmoved(c)
    BY <1>0, <1>a, <1>2, Inside DEF Critical, AddLabels, RemoveLabels
<1>g. buisnessGroup \subseteq buisnessGroup' /\ buisnessGroup' \subseteq Businesses
    BY <1>s DEF RemoveConnID, GetGroupManager, GetGroupManagerFails, IInv, TypeOK
<1>w. c \in warned \/ pc'[t] = "removeAliasConn"
    <2>1. CASE c \notin warned
        <3>1. session[c].business \in buisnessGroup
            BY <1>1, <1>s, <2>1 DEF IInv, Progress
        <3>2. Goto(t, "removeAliasConn")
            BY <3>1 DEF RemoveConnID, GetGroupManagerFails
        <3> QED
            BY <1>0, <3>2, GotoMoves DEF Labels, Critical, AddLabels, RemoveLabels
    <2> QED
        BY <2>1
<1>T. TypeOK'
    BY <1>2, <1>3, <1>a, <1>g DEF IInv, TypeOK, OnlyMoves, sockets, server, RemoveConnID
<1>P. Progress'
    BY <1>1, <1>s, <1>2, <1>3, <1>a, <1>g DEF IInv, Progress, OthersUnmoved, AddLabels, RemoveLabels
<1>i. /\ ~InConnMap(c)'
      /\ InHub(c)' <=> InHub(c)
      /\ InAllConns(c)' <=> InAllConns(c)
      /\ \A d \in Conns \ {c} : /\ InConnMap(d)' <=> InConnMap(d)
                                /\ InHub(d)' <=> InHub(d)
                                /\ InAllConns(d)' <=> InAllConns(d)
    BY <1>1, <1>s, <1>2, <1>3, <1>a, <1>w DEF OthersUnmoved, InConnMap, InHub, InAllConns
<1>R. RegistriesExact'
    BY <1>i, <1>a DEF IInv, RegistriesExact
<1>H. HubsExact'
    BY <1>a DEF IInv, HubsExact
<1> QED
    BY <1>3, <1>T, <1>P, <1>R, <1>H DEF IInv

\* The disconnect callback leaves the registries alone.
LEMMA DisconnectCallbackKeeps ==
    ASSUME IInv, NEW t \in Threads, NEW c \in Conns, at[t] = c, DisconnectCallback(t)
    PROVE  IInv'
<1> USE ConstantsAssumption, NamesAssumption
<1>0. pc[t] = "disconnectCallback"
    BY DEF DisconnectCallback
<1>1. mu[c] = t /\ Stage(c) = "disconnectCallback"
    BY <1>0, Holder DEF Critical, AddLabels, RemoveLabels
<1>s. connState[c] = "Closing" /\ session[c] \in Sessions
    BY <1>1 DEF IInv, TypeOK, Progress, AddLabels, RemoveLabels
<1>2. OnlyMoves(t) /\ pc'[t] = "closeNetwork" /\ at'[t] = c
    BY <1>0, GotoMoves DEF DisconnectCallback, Labels, Critical, AddLabels, RemoveLabels
<1>a. UNCHANGED <<connState, session, mu, warned, registries>>
    BY DEF DisconnectCallback
<1>3. /\ MutualExclusion' /\ mu' \in [Conns -> Threads \union {NoThread}]
      /\ Stage(c)' = "closeNetwork" /\ OthersUnmoved(c)
    BY <1>0, <1>2, <1>a, Inside DEF Critical, AddLabels, RemoveLabels
<1>c. callbacks' \in [Conns -> Seq({"Connect", "Receive", "Disconnect"})]
    BY CallbackTyped DEF DisconnectCallback
<1>T. TypeOK'
    BY <1>2, <1>3, <1>a, <1>c DEF IInv, TypeOK, OnlyMoves, sockets, server, registries, DisconnectCallback
<1>P. Progress'
    BY <1>1, <1>s, <1>3, <1>a DEF IInv, Progress, OthersUnmoved, AddLabels, RemoveLabels, registries
<1>R. RegistriesExact'
    <2>1. \A d \in Conns : /\ InConnMap(d)' <=> InConnMap(d)
                           /\ InHub(d)' <=> InHub(d)
                           /\ InAllConns(d)' <=> InAllConns(d)
        BY <1>1, <1>s, <1>3, <1>a DEF OthersUnmoved, InConnMap, InHub, InAllConns
    <2> QED
        BY <2>1, <1>a DEF IInv, RegistriesExact, registries
<1>H. HubsExact'
    BY <1>a DEF IInv, HubsExact, registries
<1> QED
    BY <1>3, <1>T, <1>P, <1>R, <1>H DEF IInv

\* Close ends: the connection is Closed and out of every registry.
LEMMA CloseNetworkKeeps ==
    ASSUME IInv, NEW t \in Threads, NEW c \in Conns, at[t] = c, CloseNetwork(t)
    PROVE  IInv'
<1> USE ConstantsAssumption, NamesAssumption
<1>0. /\ pc[t] = "closeNetwork"
      /\ connState' = [connState EXCEPT ![c] = "Closed"]
      /\ mu' = [mu EXCEPT ![c] = NoThread]
      /\ UNCHANGED <<session, warned, registries>>
      /\ CloseReturns(t, c)
    BY DEF CloseNetwork
<1>1. mu[c] = t /\ Stage(c) = "closeNetwork"
    BY <1>0, Holder DEF Critical, AddLabels, RemoveLabels
<1>s. connState[c] = "Closing"
    BY <1>1 DEF IInv, TypeOK, Progress, AddLabels, RemoveLabels
<1>2. /\ OnlyMoves(t) /\ pc'[t] \notin Critical
      /\ inflight' \in [Conns -> Int]
      /\ hb' \in [Conns -> {"untracked", "tracked", "leaving"}]
    BY <1>0, CloseReturnsMoves
<1>3. /\ MutualExclusion' /\ mu' \in [Conns -> Threads \union {NoThread}]
      /\ Stage(c)' = "free" /\ OthersUnmoved(c)
    BY <1>0, <1>2, Release DEF Critical, AddLabels, RemoveLabels
<1>5. connState'[c] = "Closed" /\ \A d \in Conns \ {c} : connState'[d] = connState[d]
    BY <1>0 DEF IInv, TypeOK
<1>T. TypeOK'
    BY <1>0, <1>2, <1>3 DEF IInv, TypeOK, OnlyMoves, registries, CloseNetwork
<1>P. Progress'
    BY <1>0, <1>s, <1>3, <1>5 DEF IInv, Progress, OthersUnmoved, AddLabels, registries
<1>R. RegistriesExact'
    <2>1. \A d \in Conns : /\ InConnMap(d)' <=> InConnMap(d)
                           /\ InHub(d)' <=> InHub(d)
                           /\ InAllConns(d)' <=> InAllConns(d)
        BY <1>0, <1>1, <1>s, <1>3, <1>5 DEF OthersUnmoved, InConnMap, InHub, InAllConns
    <2> QED
        BY <2>1, <1>0 DEF IInv, RegistriesExact, registries
<1>H. HubsExact'
    BY <1>0 DEF IInv, HubsExact, registries
<1> QED
    BY <1>3, <1>T, <1>P, <1>R, <1>H DEF IInv

(***************************************************************************)
(* The invariant is inductive.                                             *)
(***************************************************************************)
\* A step that changes nothing keeps it.
LEMMA StutterKeeps ==
    ASSUME IInv, UNCHANGED vars
    PROVE  IInv'
<1> USE DEF vars, sockets, server, registries
<1>1. TypeOK'
    BY DEF IInv, TypeOK
<1>2. MutualExclusion' /\ HubsExact'
    BY DEF IInv, MutualExclusion, HubsExact
<1>3. \A c \in Conns : Stage(c)' = Stage(c)
    BY DEF Stage
<1>4. Progress' /\ RegistriesExact'
    BY <1>3 DEF IInv, Progress, RegistriesExact, InConnMap, InHub, InAllConns
<1> QED
    BY <1>1, <1>2, <1>4 DEF IInv

\* Every step of the broker keeps it: one case per action.
LEMMA NextKeeps ==
    ASSUME IInv, [Next]_vars
    PROVE  IInv'
<1>q. ASSUME TypeOK', Quiet PROVE IInv'
    BY <1>q, QuietKeeps DEF IInv
<1>1. ASSUME NEW c \in Conns, Event(c) PROVE IInv'
    <2>1. CASE OnOpened(c)
        BY <2>1, <1>q, OnOpenedQuiet
    <2>2. CASE SocketCloses(c)
        BY <2>2, <1>q, SocketClosesQuiet
    <2>3. CASE ReactBeforeUpgrade(c)
        BY <2>3, <1>q, ReactBeforeUpgradeQuiet
    <2>4. CASE OnFrame(c)
        BY <2>4, <1>q, OnFrameQuiet
    <2>5. CASE PingFails(c)
        BY <2>5, <1>q, PingFailsQuiet
    <2>6. CASE HeartbeatRemoveConn(c)
        BY <2>6, <1>q, HeartbeatRemoveConnQuiet
    <2> QED
        BY <1>1, <2>1, <2>2, <2>3, <2>4, <2>5, <2>6 DEF Event
<1>2. ASSUME NEW l \in Loops, LoopStep(l) PROVE IInv'
    <2>a. l \in Threads
        BY DEF Threads
    <2>1. CASE OnClosed(l)
        BY <2>1, <1>q, OnClosedQuiet
    <2>2. CASE OnAuthRequest(l)
        BY <2>2, <1>q, OnAuthRequestQuiet
    <2>3. CASE \E s \in Sessions : SetAuthed(l, s)
        BY <2>3, SetAuthedKeeps
    <2>4. CASE AddConnID(l)
        BY <2>a, <2>4, AtConn, AddConnIDKeeps DEF AddConnID
    <2>5. CASE AddAliasConn(l)
        BY <2>a, <2>5, AtConn, AddAliasConnKeeps DEF AddAliasConn
    <2>6. CASE AddConn(l)
        BY <2>a, <2>6, AtConn, AddConnKeeps DEF AddConn
    <2>7. CASE ConnectCallback(l)
        BY <2>a, <2>7, AtConn, ConnectCallbackKeeps DEF ConnectCallback
    <2>8. CASE Upgrade(l)
        BY <2>8, <1>q, UpgradeQuiet
    <2> QED
        BY <1>2, <2>1, <2>2, <2>3, <2>4, <2>5, <2>6, <2>7, <2>8 DEF LoopStep
<1>3. ASSUME NEW h \in Handlers, HandlerStep(h) PROVE IInv'
    BY <1>3, <1>q, OnRequestQuiet, ReadSessionQuiet, DispatchQuiet DEF HandlerStep
<1>4. ASSUME NEW t \in Threads, CloseStep(t) PROVE IInv'
    <2>1. CASE CloseInit(t)
        BY <2>1, AtConn, CloseInitKeeps DEF CloseInit
    <2>2. CASE CloseAuthed(t)
        BY <2>2, AtConn, CloseAuthedKeeps DEF CloseAuthed
    <2>3. CASE CloseAgain(t)
        BY <2>3, <1>q, CloseAgainQuiet
    <2>4. CASE RemoveConnID(t)
        BY <2>4, AtConn, RemoveConnIDKeeps DEF RemoveConnID
    <2>5. CASE RemoveAliasConn(t)
        BY <2>5, AtConn, RemoveAliasConnKeeps DEF RemoveAliasConn
    <2>6. CASE RemoveConn(t)
        BY <2>6, AtConn, RemoveConnKeeps DEF RemoveConn
    <2>7. CASE DisconnectCallback(t)
        BY <2>7, AtConn, DisconnectCallbackKeeps DEF DisconnectCallback
    <2>8. CASE CloseNetwork(t)
        BY <2>8, AtConn, CloseNetworkKeeps DEF CloseNetwork
    <2> QED
        BY <1>4, <2>1, <2>2, <2>3, <2>4, <2>5, <2>6, <2>7, <2>8 DEF CloseStep
<1>5. CASE AllGone \/ UNCHANGED vars
    BY <1>5, StutterKeeps DEF AllGone
<1> QED
    BY <1>1, <1>2, <1>3, <1>4, <1>5 DEF Next

\* The inductive invariant holds in every reachable state of the broker.
THEOREM Invariant == Spec => []IInv
<1>1. Init => IInv
    BY InitIInv
<1>2. IInv /\ [Next]_vars => IInv'
    BY NextKeeps
<1> QED
    BY <1>1, <1>2, PTL DEF Spec

\* Type correctness: no step of OnOpened, setAuthed, Close or a goroutine of
\* a frame leaves a variable outside its type.
THEOREM TypeCorrect == Spec => []TypeOK
<1>1. IInv => TypeOK
    BY DEF IInv
<1> QED
    BY <1>1, Invariant, PTL

\* However event loops, goroutines and the timer interleave in setAuthed and
\* Close, the registries hold exactly the live connections, each under the
\* business and alias of its own session; a Closed connection leaves nothing.
THEOREM RegistriesAreExact == Spec => []RegistriesExact
<1>1. IInv => RegistriesExact
    BY DEF IInv
<1> QED
    BY <1>1, Invariant, PTL

\* addAliasConn and removeAliasConn keep hubs, topicSet and the topic index in
\* agreement: a hub lives as long as its alias has a connection.
THEOREM HubsAreExact == Spec => []HubsExact
<1>1. IInv => HubsExact
    BY DEF IInv
<1> QED
    BY <1>1, Invariant, PTL

\* The sections of setAuthed and Close on one connection exclude each other
\* (c.mu, conn.go:284 and 372).
THEOREM SectionsExclude == Spec => []MutualExclusion
<1>1. IInv => MutualExclusion
    BY DEF IInv
<1> QED
    BY <1>1, Invariant, PTL

\* Each section finds the connection in the state it relies on, whoever closed
\* or authenticated it before: a registered connection has a session and a
\* group manager to be removed from.
THEOREM StagesFit == Spec => []Progress
<1>1. IInv => Progress
    BY DEF IInv
<1> QED
    BY <1>1, Invariant, PTL

(***************************************************************************)
(* What a step may never do.                                               *)
(***************************************************************************)
\* The state of every connection stays, or moves on from a state that a guard
\* read under c.mu.
LEMMA NextAdvances ==
    ASSUME IInv, [Next]_vars
    PROVE  \A c \in Conns : Rank(connState[c]) <= Rank(connState'[c])
<1>t. \A c \in Conns : connState[c] \in {"Init", "Authed", "Closing", "Closed"}
    BY DEF IInv, TypeOK
<1>u. ASSUME UNCHANGED connState
      PROVE  \A c \in Conns : Rank(connState[c]) <= Rank(connState'[c])
    BY <1>u, <1>t DEF Rank
<1>a. ASSUME NEW d \in Conns \union {NoConn},
             NEW to \in {"Authed", "Closing", "Closed"},
             connState' = [connState EXCEPT ![d] = to],
             d \in Conns => Rank(connState[d]) <= Rank(to)
      PROVE  \A c \in Conns : Rank(connState[c]) <= Rank(connState'[c])
    BY <1>a, <1>t DEF IInv, TypeOK, Rank
<1>n. \A t \in Threads : at[t] \in Conns \union {NoConn}
    BY DEF IInv, TypeOK
<1>1. ASSUME NEW c \in Conns, Event(c) PROVE UNCHANGED connState
    BY <1>1 DEF Event, OnOpened, SocketCloses, ReactBeforeUpgrade, OnFrame, PingFails, HeartbeatRemoveConn
<1>2. ASSUME NEW l \in Loops, LoopStep(l)
      PROVE  \A c \in Conns : Rank(connState[c]) <= Rank(connState'[c])
    <2>1. CASE \E s \in Sessions : SetAuthed(l, s)
        <3>1. CASE UNCHANGED connState
            BY <3>1, <1>u
        <3>2. CASE /\ connState[at[l]] = "Init"
                   /\ connState' = [connState EXCEPT ![at[l]] = "Authed"]
            <4>1. Rank("Init") <= Rank("Authed") /\ l \in Threads
                BY DEF Rank, Threads
            <4> QED
                BY <3>2, <4>1, <1>a, <1>n
        <3> QED
            BY <2>1, <3>1, <3>2 DEF SetAuthed, Unlocked
    <2>2. CASE ~\E s \in Sessions : SetAuthed(l, s)
        BY <1>2, <2>2, <1>u DEF LoopStep, OnClosed, OnAuthRequest, AddConnID, AddAliasConn, AddConn, ConnectCallback, Upgrade
    <2> QED
        BY <2>1, <2>2
<1>3. ASSUME NEW h \in Handlers, HandlerStep(h) PROVE UNCHANGED connState
    BY <1>3 DEF HandlerStep, OnRequest, ReadSession, Dispatch
<1>4. ASSUME NEW t \in Threads, CloseStep(t)
      PROVE  \A c \in Conns : Rank(connState[c]) <= Rank(connState'[c])
    <2>1. CASE CloseInit(t) \/ CloseNetwork(t)
        <3>1. connState' = [connState EXCEPT ![at[t]] = "Closed"]
            BY <2>1 DEF CloseInit, CloseNetwork
        <3>2. \A c \in Conns : Rank(connState[c]) <= Rank("Closed")
            BY <1>t DEF Rank
        <3> QED
            BY <3>1, <3>2, <1>a, <1>n
    <2>2. CASE CloseAuthed(t)
        <3>1. /\ connState' = [connState EXCEPT ![at[t]] = "Closing"]
              /\ connState[at[t]] = "Authed"
            BY <2>2 DEF CloseAuthed
        <3>2. Rank("Authed") <= Rank("Closing")
            BY DEF Rank
        <3> QED
            BY <3>1, <3>2, <1>a, <1>n
    <2>3. CASE ~(CloseInit(t) \/ CloseNetwork(t) \/ CloseAuthed(t))
        BY <1>4, <2>3, <1>u DEF CloseStep, CloseAgain, RemoveConnID, RemoveAliasConn, RemoveConn, DisconnectCallback
    <2> QED
        BY <2>1, <2>2, <2>3
<1>5. CASE AllGone \/ UNCHANGED vars
    BY <1>5, <1>u DEF AllGone, vars
<1> QED
    BY <1>1, <1>2, <1>3, <1>4, <1>5, <1>u DEF Next

\* setAuthed and Close, whoever calls them and in whatever order, never take a
\* connection back: connStateManager only advances.
THEOREM StatesOnlyAdvance == Spec => StateOnlyAdvances
<1>1. IInv /\ [Next]_vars =>
          [\A c \in Conns : Rank(connState[c]) <= Rank(connState'[c])]_vars
    BY NextAdvances
<1> QED
    BY <1>1, Invariant, PTL DEF Spec, StateOnlyAdvances
=============================================================================
