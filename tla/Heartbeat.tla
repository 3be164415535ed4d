----------------------------- MODULE Heartbeat ------------------------------
(***************************************************************************)
(* The heartbeat timer (heartbeat.go): the goroutine of Run, which takes   *)
(* operations from the channel opC and, at every tick, checks the overdue  *)
(* connections; the event loops, which send those operations from OnOpened *)
(* and OnClosed (gnet.go) and stamp lastReceiveFrameTime when data arrives *)
(* (conn_handler.go).  One iteration of checkTimeoutConn is two steps, so  *)
(* that data can arrive between the look at the deadline and the ping.     *)
(*                                                                         *)
(* The heap is a function from the connections it holds to their           *)
(* priorities; Pop takes any connection of least priority.                 *)
(*                                                                         *)
(* A definition that stands right before another and is used nowhere is a  *)
(* faulty variant of it, for testing that a property notices the fault.    *)
(***************************************************************************)
EXTENDS Integers, Sequences, FiniteSets, Functions

CONSTANTS
    Conns,
    HeartbeatInterval,   \* HeartbeatDeadlineInterval (30 s)
    CheckInterval,       \* checkInterval of NewHeartbeatTimer (30 s)
    DeadInterval,        \* defaultDeadConnDeadlineInterval (5 s)
    MaxCheckTimeoutConn, \* maxCheckTimeoutConn (65535)
    OpCap,               \* the capacity of opC (65535)
    DeadConns,           \* the connections setDead is called on; no caller of
                         \* setDead is left in the repository
    MaxTime,             \* bound: the last second of the clock
    NoConn

ASSUME ConstantsAssumption ==
    /\ HeartbeatInterval \in Nat \ {0}
    /\ CheckInterval \in Nat \ {0}
    /\ DeadInterval \in Nat
    /\ MaxCheckTimeoutConn \in Nat
    /\ OpCap \in Nat \ {0}
    /\ DeadConns \subseteq Conns
    /\ MaxTime \in Nat \ {0}
    /\ NoConn \notin Conns

VARIABLES
    now,            \* the clock, in seconds
    socket,         \* none, open, closed: which gnet callbacks have run
    connClosed,     \* the connections the timer has called Close on
    lastReceive,    \* Conn.lastReceiveFrameTime
    lastData,       \* when data of the peer (or the socket) last arrived
    isDeadConn,     \* Conn.isDeadConn
    opC,            \* HeartbeatTimer.opC
    pq,             \* HeartbeatTimer.pq
    connToPQItem,   \* the keys of HeartbeatTimer.connToPQItem
    exit,           \* HeartbeatTimer.exit is closed
    nextTick,       \* when checkIntervalTicker fires next
    run,            \* where Run is: select, check, ping, returned
    checkNow, count, el  \* the locals of checkTimeoutConn

conns == <<socket, lastReceive, lastData, isDeadConn>>
locals == <<checkNow, count, el>>
vars == <<now, conns, connClosed, opC, pq, connToPQItem, exit, nextTick, run,
          locals>>

Ops == [op : {"add", "remove"}, conn : Conns]
       \union [op : {"update"}, conn : Conns, priority : Nat]

Init ==
    /\ now = 1
    /\ socket = [c \in Conns |-> "none"]
    /\ connClosed = {}
    /\ lastReceive = [c \in Conns |-> 0]
    /\ lastData = [c \in Conns |-> 0]
    /\ isDeadConn = [c \in Conns |-> FALSE]
    /\ opC = <<>>
    /\ pq = [c \in {} |-> 0]
    /\ connToPQItem = {}
    /\ exit = FALSE
    /\ nextTick = 1 + CheckInterval
    /\ run = "select"
    /\ checkNow = 0 /\ count = 0 /\ el = NoConn

GetHeartbeatDeadline(c) ==
    IF isDeadConn[c] THEN -1 ELSE lastReceive[c] + HeartbeatInterval

(***************************************************************************)
(* The environment of the timer.                                           *)
(***************************************************************************)
Tick ==
    /\ now < MaxTime
    /\ now' = now + 1
    /\ UNCHANGED <<conns, connClosed, opC, pq, connToPQItem, exit, nextTick,
                   run, locals>>

\* AddConn, RemoveConn and UpdateConn: block while opC is full, give up once
\* the timer has exited (and may then do either, if there is room).
SendOrDrop(op) ==
    opC' = IF Len(opC) < OpCap THEN Append(opC, op) ELSE opC
Send(op) ==
    \/ Len(opC) < OpCap /\ opC' = Append(opC, op)
    \/ exit /\ UNCHANGED opC

OnOpened(c) ==
    /\ socket[c] = "none"
    /\ socket' = [socket EXCEPT ![c] = "open"]
    /\ lastReceive' = [lastReceive EXCEPT ![c] = now]
    /\ lastData' = [lastData EXCEPT ![c] = now]
    /\ Send([op |-> "add", conn |-> c])
    /\ UNCHANGED <<now, connClosed, isDeadConn, pq, connToPQItem, exit,
                   nextTick, run, locals>>

OnClosed(c) ==
    /\ socket[c] = "open"
    /\ socket' = [socket EXCEPT ![c] = "closed"]
    /\ Send([op |-> "remove", conn |-> c])
    /\ UNCHANGED <<now, lastReceive, lastData, connClosed, isDeadConn, pq,
                   connToPQItem, exit, nextTick, run, locals>>

\* onFrame and onPing stamp the connection.
OnData(c) ==
    /\ socket[c] = "open"
    /\ lastReceive' = [lastReceive EXCEPT ![c] = now]
    /\ lastData' = [lastData EXCEPT ![c] = now]
    /\ UNCHANGED <<now, socket, connClosed, isDeadConn, opC, pq, connToPQItem,
                   exit, nextTick, run, locals>>

SetDead(c) ==
    /\ c \in DeadConns /\ socket[c] = "open" /\ ~isDeadConn[c]
    /\ isDeadConn' = [isDeadConn EXCEPT ![c] = TRUE]
    /\ Send([op |-> "update", conn |-> c, priority |-> now + DeadInterval])
    /\ UNCHANGED <<now, socket, lastReceive, lastData, connClosed, pq,
                   connToPQItem, exit, nextTick, run, locals>>

\* HeartbeatTimer.Close
Close ==
    /\ ~exit
    /\ exit' = TRUE
    /\ UNCHANGED <<now, conns, connClosed, opC, pq, connToPQItem, nextTick,
                   run, locals>>

(***************************************************************************)
(* The goroutine of Run.                                                   *)
(***************************************************************************)
PushItem(c, priority) ==
    pq' = [d \in DOMAIN pq \union {c} |-> IF d = c THEN priority ELSE pq[d]]
RemoveItem(c) == pq' = Restrict(pq, DOMAIN pq \ {c})

AddConnFromNow(c) ==
    /\ PushItem(c, now + HeartbeatInterval)
    /\ connToPQItem' = connToPQItem \union {c}
AddConn(c) ==
    /\ PushItem(c, GetHeartbeatDeadline(c))
    /\ connToPQItem' = connToPQItem \union {c}

RemoveConnKeepsEntry(c) ==
    /\ IF c \in connToPQItem THEN RemoveItem(c) ELSE UNCHANGED pq
    /\ UNCHANGED connToPQItem
RemoveConn(c) ==
    \/ c \in connToPQItem /\ RemoveItem(c) /\ connToPQItem' = connToPQItem \ {c}
    \/ c \notin connToPQItem /\ UNCHANGED <<pq, connToPQItem>>

UpdateConn(c, priority) ==
    /\ IF c \in connToPQItem THEN PushItem(c, priority) ELSE UNCHANGED pq
    /\ UNCHANGED connToPQItem

\* As with one channel for each kind of operation.
RunOpByKind ==
    /\ run = "select"
    /\ \E i \in 1 .. Len(opC) :
           /\ \A j \in 1 .. i - 1 : opC[j].op # opC[i].op
           /\ \/ opC[i].op = "add" /\ AddConn(opC[i].conn)
              \/ opC[i].op = "remove" /\ RemoveConn(opC[i].conn)
              \/ opC[i].op = "update" /\ UpdateConn(opC[i].conn, opC[i].priority)
           /\ opC' = SubSeq(opC, 1, i - 1) \o SubSeq(opC, i + 1, Len(opC))
    /\ UNCHANGED <<now, conns, connClosed, exit, nextTick, run, locals>>
RunOp ==
    /\ run = "select" /\ opC # <<>>
    /\ LET op == Head(opC) IN
           \/ op.op = "add" /\ AddConn(op.conn)
           \/ op.op = "remove" /\ RemoveConn(op.conn)
           \/ op.op = "update" /\ UpdateConn(op.conn, op.priority)
    /\ opC' = Tail(opC)
    /\ UNCHANGED <<now, conns, connClosed, exit, nextTick, run, locals>>

RunExit ==
    /\ run = "select" /\ exit
    /\ run' = "returned"
    /\ UNCHANGED <<now, conns, connClosed, opC, pq, connToPQItem, exit,
                   nextTick, locals>>

\* A ticker holds one tick at most and keeps its period.
RunCheck ==
    /\ run = "select" /\ now >= nextTick
    /\ run' = "check"
    /\ nextTick' = nextTick
                   + ((now - nextTick) \div CheckInterval + 1) * CheckInterval
    /\ checkNow' = now
    /\ count' = 0
    /\ UNCHANGED <<now, conns, connClosed, opC, pq, connToPQItem, exit, el>>

\* The loop of checkTimeoutConn breaks: the limit is reached, the heap is
\* empty, or the head is not yet due.
LimitReached == count > MaxCheckTimeoutConn
IsHead(c) == c \in DOMAIN pq /\ \A d \in DOMAIN pq : pq[c] <= pq[d]

CheckBreak ==
    /\ run = "check"
    /\ \/ LimitReached
       \/ DOMAIN pq = {}
       \/ \E c \in Conns : IsHead(c) /\ pq[c] >= checkNow
    /\ run' = "select" /\ checkNow' = 0 /\ count' = 0
    /\ UNCHANGED <<now, conns, connClosed, opC, pq, connToPQItem, exit,
                   nextTick, el>>

CheckPopNoReread(c) ==
    /\ run = "check" /\ ~LimitReached
    /\ IsHead(c) /\ pq[c] < checkNow
    /\ count' = count + 1
    /\ RemoveItem(c)
    /\ run' = "ping" /\ el' = c
    /\ UNCHANGED <<now, conns, connClosed, opC, connToPQItem, exit, nextTick,
                   checkNow>>

\* Pop the head and look at its deadline now: push it back with that deadline,
\* or go on to ping it.
CheckPop(c) ==
    /\ run = "check" /\ ~LimitReached
    /\ IsHead(c) /\ pq[c] < checkNow
    /\ count' = count + 1
    /\ \/ /\ GetHeartbeatDeadline(c) > checkNow
          /\ PushItem(c, GetHeartbeatDeadline(c))
          /\ UNCHANGED <<run, el>>
       \/ /\ GetHeartbeatDeadline(c) <= checkNow
          /\ RemoveItem(c)
          /\ run' = "ping" /\ el' = c
    /\ UNCHANGED <<now, conns, connClosed, opC, connToPQItem, exit, nextTick,
                   checkNow>>

\* The deadline stored where the time of the last frame belongs.
PingSucceedsStampsDeadline ==
    /\ run = "ping"
    /\ lastReceive' = [lastReceive EXCEPT ![el] = now + HeartbeatInterval]
    /\ PushItem(el, IF isDeadConn[el] THEN -1 ELSE now + HeartbeatInterval)
    /\ run' = "check" /\ el' = NoConn
    /\ UNCHANGED <<now, socket, lastData, isDeadConn, connClosed, opC,
                   connToPQItem, exit, nextTick, checkNow, count>>
\* The ping is handed to gnet: the connection counts as heard from.
PingSucceeds ==
    /\ run = "ping"
    /\ lastReceive' = [lastReceive EXCEPT ![el] = now]
    /\ PushItem(el, IF isDeadConn[el] THEN -1 ELSE now + HeartbeatInterval)
    /\ run' = "check" /\ el' = NoConn
    /\ UNCHANGED <<now, socket, lastData, isDeadConn, connClosed, opC,
                   connToPQItem, exit, nextTick, checkNow, count>>

\* gnet refuses the ping: Close, and removeConnToPGItem.
PingFails ==
    /\ run = "ping"
    /\ connClosed' = connClosed \union {el}
    /\ connToPQItem' = connToPQItem \ {el}
    /\ run' = "check" /\ el' = NoConn
    /\ UNCHANGED <<now, conns, opC, pq, exit, nextTick, checkNow, count>>

RunStep ==
    \/ RunOp \/ RunExit \/ RunCheck \/ CheckBreak
    \/ \E c \in Conns : CheckPop(c)
    \/ PingSucceeds \/ PingFails

\* Run has returned and every socket is gone.
Returned ==
    /\ run = "returned" /\ now = MaxTime
    /\ \A c \in Conns : socket[c] = "closed"
    /\ UNCHANGED vars

Next ==
    \/ Tick
    \/ \E c \in Conns : OnOpened(c) \/ OnClosed(c) \/ OnData(c) \/ SetDead(c)
    \/ Close
    \/ RunStep
    \/ Returned

Spec == Init /\ [][Next]_vars
\* Run's goroutine keeps being scheduled; its ticker fires finitely often
\* between two operations, so select cannot put an operation off for ever.
FairSpec == Spec /\ WF_vars(RunStep)

(***************************************************************************)
(* Properties.                                                             *)
(***************************************************************************)

\* The types of the variables.  No stamp is ahead of the clock's last second:
\* lastReceiveFrameTime holds times, never deadlines (heartbeat.go:320-324).
TypeOK ==
    /\ now \in 1 .. MaxTime /\ checkNow \in 0 .. MaxTime /\ nextTick \in Nat
    /\ count \in Nat
    /\ socket \in [Conns -> {"none", "open", "closed"}]
    /\ lastReceive \in [Conns -> 0 .. MaxTime]
    /\ lastData \in [Conns -> 0 .. MaxTime]
    /\ isDeadConn \in [Conns -> BOOLEAN]
    /\ opC \in Seq(Ops)
    /\ DOMAIN pq \subseteq Conns /\ \A c \in DOMAIN pq : pq[c] \in Int
    /\ connToPQItem \subseteq Conns /\ connClosed \subseteq Conns
    /\ exit \in BOOLEAN
    /\ run \in {"select", "check", "ping", "returned"}
    /\ el \in Conns \union {NoConn}

\* The heap and connToPQItem know the same connections, except for the one
\* that checkTimeoutConn has popped.  removeConn and updateConn rely on it:
\* heap.Remove or heap.Fix on an item that is not in the heap panics.
QueueMatchesMap ==
    /\ connToPQItem = (DOMAIN pq \union {el}) \ {NoConn}
    /\ run = "ping" <=> el # NoConn
    /\ el \notin DOMAIN pq

\* A connection waits in the heap under a time no later than its deadline, so
\* a check that stops at the first item that is not due misses none that is.
PriorityNotLate ==
    \A c \in DOMAIN pq : ~isDeadConn[c] => pq[c] <= GetHeartbeatDeadline(c)

\* No connection falls out of the heartbeat check while its socket is open and
\* the timer runs: it is in the map, on its way there, or was closed.
EveryOpenConnWatched ==
    \A c \in Conns :
        socket[c] = "open" /\ c \notin connClosed /\ ~exit =>
            \/ c \in connToPQItem
            \/ \E i \in 1 .. Len(opC) : opC[i].op = "add" /\ opC[i].conn = c

\* AddConn and RemoveConn go through one channel, so that a connection whose
\* socket has closed is never left behind in the timer: whatever is queued
\* around them, behind its add, and while it is in the map, its remove waits in
\* opC (gnet.go:70, 89, heartbeat.go:176-180).
RemoveFollowsAdd ==
    \A c \in Conns :
        socket[c] = "closed" /\ ~exit =>
            /\ c \in connToPQItem =>
                   \E j \in 1 .. Len(opC) : opC[j].op = "remove" /\ opC[j].conn = c
            /\ \A i \in 1 .. Len(opC) :
                   opC[i].op = "add" /\ opC[i].conn = c =>
                       \E j \in i + 1 .. Len(opC) : opC[j].op = "remove" /\ opC[j].conn = c

\* The timer closes only connections that were silent for the whole interval
\* before the check, whatever arrives while the check is under way.
ClosesOnlySilent ==
    [][\A c \in connClosed' \ connClosed :
           ~isDeadConn[c] => \/ lastData[c] + HeartbeatInterval <= checkNow
                             \/ lastData[c] >= checkNow]_vars

\* A closed socket leaves the timer for good: Run comes to its remove, and
\* nothing that is still queued brings the connection back.
ClosedConnsForgotten ==
    \A c \in Conns :
        socket[c] = "closed" ~>
            \/ run = "returned"
            \/ [](c \notin connToPQItem \union DOMAIN pq)
=============================================================================
