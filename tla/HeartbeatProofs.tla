-------------------------- MODULE HeartbeatProofs ---------------------------
(***************************************************************************)
(* For any number of connections, any intervals, any capacity of opC and   *)
(* any limit of a check: the heap and connToPQItem agree, no open          *)
(* connection falls out of the check, a closed one cannot stay in it, and  *)
(* only silent ones are closed.                                            *)
(***************************************************************************)
EXTENDS Heartbeat, TLAPS

\* No stamp lies in the future, and a connection counts as heard from at least
\* since its last data.
TimesInOrder ==
    /\ checkNow <= now
    /\ \A c \in Conns : lastData[c] <= lastReceive[c] /\ lastReceive[c] <= now

\* What OnClosed and setDead did before they queued their operation.
OpsFit ==
    \A i \in 1 .. Len(opC) :
        /\ opC[i].op = "remove" => socket[opC[i].conn] = "closed"
        /\ opC[i].op = "update" => isDeadConn[opC[i].conn]

\* The connection that is about to be pinged was silent when it was popped;
\* what arrived since arrived after the check began.
PingedSilent ==
    run = "ping" /\ ~isDeadConn[el] =>
        \/ lastData[el] + HeartbeatInterval <= checkNow
        \/ lastData[el] >= checkNow

IInv ==
    /\ TypeOK /\ QueueMatchesMap /\ PriorityNotLate /\ EveryOpenConnWatched
    /\ TimesInOrder /\ OpsFit /\ PingedSilent

(***************************************************************************)
(* The channel                                                             *)
(***************************************************************************)
\* Every operation names a connection; only an update has a priority.
LEMMA OpFields ==
    ASSUME NEW op \in Ops
    PROVE  /\ op.conn \in Conns
           /\ op.op \in {"add", "remove", "update"}
           /\ op.op = "update" => op.priority \in Nat
BY DEF Ops

\* A send puts the operation behind the others, or gives up after exit.
LEMMA SendAppends ==
    ASSUME opC \in Seq(Ops), NEW op \in Ops, Send(op)
    PROVE  /\ opC' \in Seq(Ops)
           /\ \A i \in 1 .. Len(opC) : i \in 1 .. Len(opC') /\ opC'[i] = opC[i]
           /\ \A i \in 1 .. Len(opC') :
                  (i \in 1 .. Len(opC) /\ opC'[i] = opC[i]) \/ opC'[i] = op
           /\ ~exit => \E i \in 1 .. Len(opC') : opC'[i] = op
<1> USE ConstantsAssumption
<1>1. CASE exit /\ UNCHANGED opC
    BY <1>1
<1>2. CASE Len(opC) < OpCap /\ opC' = Append(opC, op)
    <2>1. /\ Len(opC') = Len(opC) + 1
          /\ \A i \in 1 .. Len(opC) : opC'[i] = opC[i]
          /\ opC'[Len(opC) + 1] = op
          /\ opC' \in Seq(Ops) /\ Len(opC) \in Nat
        BY <1>2
    <2> QED
        BY <1>2, <2>1
<1> QED
    BY <1>1, <1>2 DEF Send

\* Run takes the first operation and leaves the others in their order.
LEMMA TailShifts ==
    ASSUME opC \in Seq(Ops), opC # <<>>, opC' = Tail(opC)
    PROVE  /\ opC' \in Seq(Ops) /\ Len(opC') <= Len(opC)
           /\ 1 \in 1 .. Len(opC) /\ Head(opC) = opC[1] /\ Head(opC) \in Ops
           /\ \A i \in 1 .. Len(opC') : i + 1 \in 1 .. Len(opC) /\ opC'[i] = opC[i + 1]
           /\ \A i \in 1 .. Len(opC) :
                  i = 1 \/ (i - 1 \in 1 .. Len(opC') /\ opC'[i - 1] = opC[i])
<1>1. /\ Len(opC) \in Nat \ {0} /\ Len(opC') = Len(opC) - 1
      /\ opC' \in Seq(Ops) /\ Head(opC) = opC[1]
      /\ \A i \in 1 .. Len(opC') : opC'[i] = opC[i + 1]
    OBVIOUS
<1>2. opC[1] \in Ops
    BY <1>1
<1> QED
    BY <1>1, <1>2

(***************************************************************************)
(* One lemma per action                                                    *)
(***************************************************************************)
\* The clock only makes stamps older.
LEMMA TickKeeps ==
    ASSUME IInv, Tick
    PROVE  IInv'
<1> USE ConstantsAssumption
<1>1. TypeOK'
    BY DEF IInv, TypeOK, Ops, Tick, conns, locals
<1>2. QueueMatchesMap'
    BY DEF IInv, TypeOK, QueueMatchesMap, Tick, conns, locals
<1>3. PriorityNotLate'
    BY DEF IInv, TypeOK, PriorityNotLate, TimesInOrder, OpsFit, GetHeartbeatDeadline, Ops, QueueMatchesMap, Tick, conns, locals
<1>4. EveryOpenConnWatched'
    BY DEF IInv, TypeOK, EveryOpenConnWatched, OpsFit, Ops, QueueMatchesMap, Tick, conns, locals
<1>5. TimesInOrder'
    BY DEF IInv, TypeOK, TimesInOrder, QueueMatchesMap, Tick, conns, locals
<1>6. OpsFit'
    BY DEF IInv, TypeOK, OpsFit, Ops, Tick, conns, locals
<1>7. PingedSilent'
    BY DEF IInv, TypeOK, PingedSilent, TimesInOrder, QueueMatchesMap, Tick, conns, locals
<1> QED
    BY <1>1, <1>2, <1>3, <1>4, <1>5, <1>6, <1>7 DEF IInv

\* OnOpened stamps the connection before it queues the add.
LEMMA OnOpenedKeeps ==
    ASSUME IInv, NEW c \in Conns, OnOpened(c)
    PROVE  IInv'
<1> USE ConstantsAssumption
<1> DEFINE op == [op |-> "add", conn |-> c]
<1>o. op \in Ops
    BY DEF Ops, IInv, TypeOK
<1>s. /\ opC' \in Seq(Ops)
      /\ \A i \in 1 .. Len(opC) : i \in 1 .. Len(opC') /\ opC'[i] = opC[i]
      /\ \A i \in 1 .. Len(opC') :
             (i \in 1 .. Len(opC) /\ opC'[i] = opC[i]) \/ opC'[i] = op
      /\ ~exit => \E i \in 1 .. Len(opC') : opC'[i] = op
    BY <1>o, SendAppends DEF IInv, TypeOK, OnOpened
<1>f. /\ \A i \in 1 .. Len(opC) : opC[i] \in Ops
      /\ \A i \in 1 .. Len(opC) : opC[i].conn \in Conns
    BY OpFields DEF IInv, TypeOK
<1>g. op.op = "add" /\ op.conn = c
    OBVIOUS
<1> HIDE DEF op
<1>1. TypeOK'
    BY <1>s, <1>f DEF IInv, TypeOK, OnOpened, conns, locals
<1>2. QueueMatchesMap'
    BY DEF IInv, TypeOK, QueueMatchesMap, OnOpened, conns, locals
<1>3. PriorityNotLate'
    BY DEF IInv, TypeOK, PriorityNotLate, TimesInOrder, OpsFit, GetHeartbeatDeadline, Ops, QueueMatchesMap, OnOpened, conns, locals
<1>4. EveryOpenConnWatched'
    <2> SUFFICES ASSUME NEW d \in Conns, socket'[d] = "open", d \notin connClosed', ~exit',
                        d \notin connToPQItem'
                 PROVE  \E i \in 1 .. Len(opC') : opC'[i].op = "add" /\ opC'[i].conn = d
        BY DEF EveryOpenConnWatched
    <2>1. CASE d = c
        BY <2>1, <1>s, <1>g DEF OnOpened
    <2>2. CASE d # c
        <3>1. \E i \in 1 .. Len(opC) : opC[i].op = "add" /\ opC[i].conn = d
            BY <2>2 DEF IInv, TypeOK, EveryOpenConnWatched, OnOpened
        <3> QED
            BY <3>1, <1>s
    <2> QED
        BY <2>1, <2>2
<1>5. TimesInOrder'
    BY DEF IInv, TypeOK, TimesInOrder, QueueMatchesMap, OnOpened, conns, locals
<1>6. OpsFit'
    <2> SUFFICES ASSUME NEW i \in 1 .. Len(opC')
                 PROVE  /\ opC'[i].op = "remove" => socket'[opC'[i].conn] = "closed"
                        /\ opC'[i].op = "update" => isDeadConn'[opC'[i].conn]
        BY DEF OpsFit
    <2>1. CASE opC'[i] = op
        BY <2>1, <1>g DEF IInv, TypeOK, OnOpened
    <2>2. CASE i \in 1 .. Len(opC) /\ opC'[i] = opC[i]
        BY <2>2, <1>f DEF IInv, TypeOK, OpsFit, OnOpened
    <2> QED
        BY <2>1, <2>2, <1>s
<1>7. PingedSilent'
    BY DEF IInv, TypeOK, PingedSilent, TimesInOrder, QueueMatchesMap, OnOpened, conns, locals
<1> QED
    BY <1>1, <1>2, <1>3, <1>4, <1>5, <1>6, <1>7 DEF IInv

\* OnClosed marks the socket closed before it queues the remove.
LEMMA OnClosedKeeps ==
    ASSUME IInv, NEW c \in Conns, OnClosed(c)
    PROVE  IInv'
<1> USE ConstantsAssumption
<1> DEFINE op == [op |-> "remove", conn |-> c]
<1>o. op \in Ops
    BY DEF Ops, IInv, TypeOK
<1>s. /\ opC' \in Seq(Ops)
      /\ \A i \in 1 .. Len(opC) : i \in 1 .. Len(opC') /\ opC'[i] = opC[i]
      /\ \A i \in 1 .. Len(opC') :
             (i \in 1 .. Len(opC) /\ opC'[i] = opC[i]) \/ opC'[i] = op
      /\ ~exit => \E i \in 1 .. Len(opC') : opC'[i] = op
    BY <1>o, SendAppends DEF IInv, TypeOK, OnClosed
<1>f. /\ \A i \in 1 .. Len(opC) : opC[i] \in Ops
      /\ \A i \in 1 .. Len(opC) : opC[i].conn \in Conns
    BY OpFields DEF IInv, TypeOK
<1>g. op.op = "remove" /\ op.conn = c
    OBVIOUS
<1> HIDE DEF op
<1>1. TypeOK'
    BY <1>s, <1>f DEF IInv, TypeOK, OnClosed, conns, locals
<1>2. QueueMatchesMap'
    BY DEF IInv, TypeOK, QueueMatchesMap, OnClosed, conns, locals
<1>3. PriorityNotLate'
    BY DEF IInv, TypeOK, PriorityNotLate, TimesInOrder, OpsFit, GetHeartbeatDeadline, Ops, QueueMatchesMap, OnClosed, conns, locals
<1>4. EveryOpenConnWatched'
    <2> SUFFICES ASSUME NEW d \in Conns, socket'[d] = "open", d \notin connClosed', ~exit',
                        d \notin connToPQItem'
                 PROVE  \E i \in 1 .. Len(opC') : opC'[i].op = "add" /\ opC'[i].conn = d
        BY DEF EveryOpenConnWatched
    <2>1. \E i \in 1 .. Len(opC) : opC[i].op = "add" /\ opC[i].conn = d
        BY DEF IInv, TypeOK, EveryOpenConnWatched, OnClosed
    <2> QED
        BY <2>1, <1>s
<1>5. TimesInOrder'
    BY DEF IInv, TypeOK, TimesInOrder, QueueMatchesMap, OnClosed, conns, locals
<1>6. OpsFit'
    <2> SUFFICES ASSUME NEW i \in 1 .. Len(opC')
                 PROVE  /\ opC'[i].op = "remove" => socket'[opC'[i].conn] = "closed"
                        /\ opC'[i].op = "update" => isDeadConn'[opC'[i].conn]
        BY DEF OpsFit
    <2>1. CASE opC'[i] = op
        BY <2>1, <1>g DEF IInv, TypeOK, OnClosed
    <2>2. CASE i \in 1 .. Len(opC) /\ opC'[i] = opC[i]
        BY <2>2, <1>f DEF IInv, TypeOK, OpsFit, OnClosed
    <2> QED
        BY <2>1, <2>2, <1>s
<1>7. PingedSilent'
    BY DEF IInv, TypeOK, PingedSilent, TimesInOrder, QueueMatchesMap, OnClosed, conns, locals
<1> QED
    BY <1>1, <1>2, <1>3, <1>4, <1>5, <1>6, <1>7 DEF IInv

\* Data moves the deadline of a connection on, never back.
LEMMA OnDataKeeps ==
    ASSUME IInv, NEW c \in Conns, OnData(c)
    PROVE  IInv'
<1> USE ConstantsAssumption
<1>1. TypeOK'
    BY DEF IInv, TypeOK, Ops, OnData, conns, locals
<1>2. QueueMatchesMap'
    BY DEF IInv, TypeOK, QueueMatchesMap, OnData, conns, locals
<1>3. PriorityNotLate'
    BY DEF IInv, TypeOK, PriorityNotLate, TimesInOrder, OpsFit, GetHeartbeatDeadline, Ops, QueueMatchesMap, OnData, conns, locals
<1>4. EveryOpenConnWatched'
    BY DEF IInv, TypeOK, EveryOpenConnWatched, OpsFit, Ops, QueueMatchesMap, OnData, conns, locals
<1>5. TimesInOrder'
    BY DEF IInv, TypeOK, TimesInOrder, QueueMatchesMap, OnData, conns, locals
<1>6. OpsFit'
    BY DEF IInv, TypeOK, OpsFit, Ops, OnData, conns, locals
<1>7. PingedSilent'
    BY DEF IInv, TypeOK, PingedSilent, TimesInOrder, QueueMatchesMap, OnData, conns, locals
<1> QED
    BY <1>1, <1>2, <1>3, <1>4, <1>5, <1>6, <1>7 DEF IInv

\* setDead: the connection has no deadline from here on.
LEMMA SetDeadKeeps ==
    ASSUME IInv, NEW c \in Conns, SetDead(c)
    PROVE  IInv'
<1> USE ConstantsAssumption
<1> DEFINE op == [op |-> "update", conn |-> c, priority |-> now + DeadInterval]
<1>o. op \in Ops
    BY DEF Ops, IInv, TypeOK
<1>s. /\ opC' \in Seq(Ops)
      /\ \A i \in 1 .. Len(opC) : i \in 1 .. Len(opC') /\ opC'[i] = opC[i]
      /\ \A i \in 1 .. Len(opC') :
             (i \in 1 .. Len(opC) /\ opC'[i] = opC[i]) \/ opC'[i] = op
      /\ ~exit => \E i \in 1 .. Len(opC') : opC'[i] = op
    BY <1>o, SendAppends DEF IInv, TypeOK, SetDead
<1>f. /\ \A i \in 1 .. Len(opC) : opC[i] \in Ops
      /\ \A i \in 1 .. Len(opC) : opC[i].conn \in Conns
    BY OpFields DEF IInv, TypeOK
<1>g. op.op = "update" /\ op.conn = c
    OBVIOUS
<1> HIDE DEF op
<1>1. TypeOK'
    BY <1>s, <1>f DEF IInv, TypeOK, SetDead, conns, locals
<1>2. QueueMatchesMap'
    BY DEF IInv, TypeOK, QueueMatchesMap, SetDead, conns, locals
<1>3. PriorityNotLate'
    BY DEF IInv, TypeOK, PriorityNotLate, TimesInOrder, OpsFit, GetHeartbeatDeadline, Ops, QueueMatchesMap, SetDead, conns, locals
<1>4. EveryOpenConnWatched'
    <2> SUFFICES ASSUME NEW d \in Conns, socket'[d] = "open", d \notin connClosed', ~exit',
                        d \notin connToPQItem'
                 PROVE  \E i \in 1 .. Len(opC') : opC'[i].op = "add" /\ opC'[i].conn = d
        BY DEF EveryOpenConnWatched
    <2>1. \E i \in 1 .. Len(opC) : opC[i].op = "add" /\ opC[i].conn = d
        BY DEF IInv, TypeOK, EveryOpenConnWatched, SetDead
    <2> QED
        BY <2>1, <1>s
<1>5. TimesInOrder'
    BY DEF IInv, TypeOK, TimesInOrder, QueueMatchesMap, SetDead, conns, locals
<1>6. OpsFit'
    <2> SUFFICES ASSUME NEW i \in 1 .. Len(opC')
                 PROVE  /\ opC'[i].op = "remove" => socket'[opC'[i].conn] = "closed"
                        /\ opC'[i].op = "update" => isDeadConn'[opC'[i].conn]
        BY DEF OpsFit
    <2>1. CASE opC'[i] = op
        BY <2>1, <1>g DEF IInv, TypeOK, SetDead
    <2>2. CASE i \in 1 .. Len(opC) /\ opC'[i] = opC[i]
        BY <2>2, <1>f DEF IInv, TypeOK, OpsFit, SetDead
    <2> QED
        BY <2>1, <2>2, <1>s
<1>7. PingedSilent'
    BY DEF IInv, TypeOK, PingedSilent, TimesInOrder, QueueMatchesMap, SetDead, conns, locals
<1> QED
    BY <1>1, <1>2, <1>3, <1>4, <1>5, <1>6, <1>7 DEF IInv

\* HeartbeatTimer.Close: sends may give up from here on.
LEMMA CloseKeeps ==
    ASSUME IInv, Close
    PROVE  IInv'
<1> USE ConstantsAssumption
<1>1. TypeOK'
    BY DEF IInv, TypeOK, Ops, Close, conns, locals
<1>2. QueueMatchesMap'
    BY DEF IInv, TypeOK, QueueMatchesMap, Close, conns, locals
<1>3. PriorityNotLate'
    BY DEF IInv, TypeOK, PriorityNotLate, TimesInOrder, OpsFit, GetHeartbeatDeadline, Ops, QueueMatchesMap, Close, conns, locals
<1>4. EveryOpenConnWatched'
    BY DEF IInv, TypeOK, EveryOpenConnWatched, OpsFit, Ops, QueueMatchesMap, Close, conns, locals
<1>5. TimesInOrder'
    BY DEF IInv, TypeOK, TimesInOrder, QueueMatchesMap, Close, conns, locals
<1>6. OpsFit'
    BY DEF IInv, TypeOK, OpsFit, Ops, Close, conns, locals
<1>7. PingedSilent'
    BY DEF IInv, TypeOK, PingedSilent, TimesInOrder, QueueMatchesMap, Close, conns, locals
<1> QED
    BY <1>1, <1>2, <1>3, <1>4, <1>5, <1>6, <1>7 DEF IInv

\* Run returns between two checks, with nothing popped.
LEMMA RunExitKeeps ==
    ASSUME IInv, RunExit
    PROVE  IInv'
<1> USE ConstantsAssumption
<1>1. TypeOK'
    BY DEF IInv, TypeOK, Ops, RunExit, conns, locals
<1>2. QueueMatchesMap'
    BY DEF IInv, TypeOK, QueueMatchesMap, RunExit, conns, locals
<1>3. PriorityNotLate'
    BY DEF IInv, TypeOK, PriorityNotLate, TimesInOrder, OpsFit, GetHeartbeatDeadline, Ops, QueueMatchesMap, RunExit, conns, locals
<1>4. EveryOpenConnWatched'
    BY DEF IInv, TypeOK, EveryOpenConnWatched, OpsFit, Ops, QueueMatchesMap, RunExit, conns, locals
<1>5. TimesInOrder'
    BY DEF IInv, TypeOK, TimesInOrder, QueueMatchesMap, RunExit, conns, locals
<1>6. OpsFit'
    BY DEF IInv, TypeOK, OpsFit, Ops, RunExit, conns, locals
<1>7. PingedSilent'
    BY DEF IInv, TypeOK, PingedSilent, TimesInOrder, QueueMatchesMap, RunExit, conns, locals
<1> QED
    BY <1>1, <1>2, <1>3, <1>4, <1>5, <1>6, <1>7 DEF IInv

\* A tick starts a check at the present second.
LEMMA RunCheckKeeps ==
    ASSUME IInv, RunCheck
    PROVE  IInv'
<1> USE ConstantsAssumption
<1>1. TypeOK'
    BY DEF IInv, TypeOK, Ops, RunCheck, conns, locals
<1>2. QueueMatchesMap'
    BY DEF IInv, TypeOK, QueueMatchesMap, RunCheck, conns, locals
<1>3. PriorityNotLate'
    BY DEF IInv, TypeOK, PriorityNotLate, TimesInOrder, OpsFit, GetHeartbeatDeadline, Ops, QueueMatchesMap, RunCheck, conns, locals
<1>4. EveryOpenConnWatched'
    BY DEF IInv, TypeOK, EveryOpenConnWatched, OpsFit, Ops, QueueMatchesMap, RunCheck, conns, locals
<1>5. TimesInOrder'
    BY DEF IInv, TypeOK, TimesInOrder, QueueMatchesMap, RunCheck, conns, locals
<1>6. OpsFit'
    BY DEF IInv, TypeOK, OpsFit, Ops, RunCheck, conns, locals
<1>7. PingedSilent'
    BY DEF IInv, TypeOK, PingedSilent, TimesInOrder, QueueMatchesMap, RunCheck, conns, locals
<1> QED
    BY <1>1, <1>2, <1>3, <1>4, <1>5, <1>6, <1>7 DEF IInv

\* The check ends and the limit starts over.
LEMMA CheckBreakKeeps ==
    ASSUME IInv, CheckBreak
    PROVE  IInv'
<1> USE ConstantsAssumption
<1>1. TypeOK'
    BY DEF IInv, TypeOK, Ops, CheckBreak, conns, locals
<1>2. QueueMatchesMap'
    BY DEF IInv, TypeOK, QueueMatchesMap, CheckBreak, conns, locals
<1>3. PriorityNotLate'
    BY DEF IInv, TypeOK, PriorityNotLate, TimesInOrder, OpsFit, GetHeartbeatDeadline, Ops, QueueMatchesMap, CheckBreak, conns, locals
<1>4. EveryOpenConnWatched'
    BY DEF IInv, TypeOK, EveryOpenConnWatched, OpsFit, Ops, QueueMatchesMap, CheckBreak, conns, locals
<1>5. TimesInOrder'
    BY DEF IInv, TypeOK, TimesInOrder, QueueMatchesMap, CheckBreak, conns, locals
<1>6. OpsFit'
    BY DEF IInv, TypeOK, OpsFit, Ops, CheckBreak, conns, locals
<1>7. PingedSilent'
    BY DEF IInv, TypeOK, PingedSilent, TimesInOrder, QueueMatchesMap, CheckBreak, conns, locals
<1> QED
    BY <1>1, <1>2, <1>3, <1>4, <1>5, <1>6, <1>7 DEF IInv

\* The head of the heap goes back under its present deadline, or is the one
\* connection that the map knows and the heap does not.
LEMMA CheckPopKeeps ==
    ASSUME IInv, NEW c \in Conns, CheckPop(c)
    PROVE  IInv'
<1> USE ConstantsAssumption
<1>1. TypeOK'
    BY DEF IInv, TypeOK, Ops, CheckPop, PushItem, RemoveItem, Restrict, LimitReached, IsHead, GetHeartbeatDeadline, conns, locals
<1>2. QueueMatchesMap'
    BY DEF IInv, TypeOK, QueueMatchesMap, CheckPop, PushItem, RemoveItem, Restrict, LimitReached, IsHead, GetHeartbeatDeadline, conns, locals
<1>3. PriorityNotLate'
    BY DEF IInv, TypeOK, PriorityNotLate, TimesInOrder, OpsFit, GetHeartbeatDeadline, Ops, QueueMatchesMap, CheckPop, PushItem, RemoveItem, Restrict, LimitReached, IsHead, GetHeartbeatDeadline, conns, locals
<1>4. EveryOpenConnWatched'
    BY DEF IInv, TypeOK, EveryOpenConnWatched, OpsFit, Ops, QueueMatchesMap, CheckPop, PushItem, RemoveItem, Restrict, LimitReached, IsHead, GetHeartbeatDeadline, conns, locals
<1>5. TimesInOrder'
    BY DEF IInv, TypeOK, TimesInOrder, QueueMatchesMap, CheckPop, PushItem, RemoveItem, Restrict, LimitReached, IsHead, GetHeartbeatDeadline, conns, locals
<1>6. OpsFit'
    BY DEF IInv, TypeOK, OpsFit, Ops, CheckPop, PushItem, RemoveItem, Restrict, LimitReached, IsHead, GetHeartbeatDeadline, conns, locals
<1>7. PingedSilent'
    BY DEF IInv, TypeOK, PingedSilent, TimesInOrder, QueueMatchesMap, CheckPop, PushItem, RemoveItem, Restrict, LimitReached, IsHead, GetHeartbeatDeadline, conns, locals
<1> QED
    BY <1>1, <1>2, <1>3, <1>4, <1>5, <1>6, <1>7 DEF IInv

\* The pinged connection is back in the heap under a fresh deadline.
LEMMA PingSucceedsKeeps ==
    ASSUME IInv, PingSucceeds
    PROVE  IInv'
<1> USE ConstantsAssumption
<1>1. TypeOK'
    BY DEF IInv, TypeOK, QueueMatchesMap, PingSucceeds, PushItem, conns, locals
<1>2. QueueMatchesMap'
    BY DEF IInv, TypeOK, QueueMatchesMap, PingSucceeds, PushItem, conns, locals
<1>3. PriorityNotLate'
    BY DEF IInv, TypeOK, PriorityNotLate, TimesInOrder, OpsFit, GetHeartbeatDeadline, Ops, QueueMatchesMap, PingSucceeds, PushItem, conns, locals
<1>4. EveryOpenConnWatched'
    BY DEF IInv, TypeOK, EveryOpenConnWatched, OpsFit, Ops, QueueMatchesMap, PingSucceeds, PushItem, conns, locals
<1>5. TimesInOrder'
    BY DEF IInv, TypeOK, TimesInOrder, QueueMatchesMap, PingSucceeds, PushItem, conns, locals
<1>6. OpsFit'
    BY DEF IInv, TypeOK, OpsFit, Ops, PingSucceeds, PushItem, conns, locals
<1>7. PingedSilent'
    BY DEF IInv, TypeOK, PingedSilent, TimesInOrder, QueueMatchesMap, PingSucceeds, PushItem, conns, locals
<1> QED
    BY <1>1, <1>2, <1>3, <1>4, <1>5, <1>6, <1>7 DEF IInv

\* The pinged connection is closed and forgotten.
LEMMA PingFailsKeeps ==
    ASSUME IInv, PingFails
    PROVE  IInv'
<1> USE ConstantsAssumption
<1>1. TypeOK'
    BY DEF IInv, TypeOK, QueueMatchesMap, PingFails, conns, locals
<1>2. QueueMatchesMap'
    BY DEF IInv, TypeOK, QueueMatchesMap, PingFails, conns, locals
<1>3. PriorityNotLate'
    BY DEF IInv, TypeOK, PriorityNotLate, TimesInOrder, OpsFit, GetHeartbeatDeadline, Ops, QueueMatchesMap, PingFails, conns, locals
<1>4. EveryOpenConnWatched'
    BY DEF IInv, TypeOK, EveryOpenConnWatched, OpsFit, Ops, QueueMatchesMap, PingFails, conns, locals
<1>5. TimesInOrder'
    BY DEF IInv, TypeOK, TimesInOrder, QueueMatchesMap, PingFails, conns, locals
<1>6. OpsFit'
    BY DEF IInv, TypeOK, OpsFit, Ops, PingFails, conns, locals
<1>7. PingedSilent'
    BY DEF IInv, TypeOK, PingedSilent, TimesInOrder, QueueMatchesMap, PingFails, conns, locals
<1> QED
    BY <1>1, <1>2, <1>3, <1>4, <1>5, <1>6, <1>7 DEF IInv

\* An add enters the connection in heap and map, with a deadline that is right.
LEMMA AddConnKeeps ==
    ASSUME IInv, NEW c \in Conns, AddConn(c), run = "select",
           UNCHANGED <<conns, run, el>>
    PROVE  /\ DOMAIN pq' = DOMAIN pq \union {c} /\ connToPQItem' = connToPQItem \union {c}
           /\ \A d \in DOMAIN pq' : pq'[d] \in Int
           /\ QueueMatchesMap' /\ PriorityNotLate'
<1> USE ConstantsAssumption
<1>1. /\ DOMAIN pq' = DOMAIN pq \union {c} /\ connToPQItem' = connToPQItem \union {c}
      /\ \A d \in DOMAIN pq' : pq'[d] = IF d = c THEN GetHeartbeatDeadline(c) ELSE pq[d]
    BY DEF AddConn, PushItem
<1>2. GetHeartbeatDeadline(c) \in Int
    BY DEF GetHeartbeatDeadline, IInv, TypeOK
<1>3. QueueMatchesMap'
    BY <1>1 DEF QueueMatchesMap, IInv
<1>4. PriorityNotLate'
    BY <1>1, <1>2 DEF PriorityNotLate, GetHeartbeatDeadline, IInv, TypeOK, conns
<1> QED
    BY <1>1, <1>2, <1>3, <1>4 DEF IInv, TypeOK

\* A remove takes the connection out of both.
LEMMA RemoveConnKeeps ==
    ASSUME IInv, NEW c \in Conns, RemoveConn(c), run = "select",
           UNCHANGED <<conns, run, el>>
    PROVE  /\ DOMAIN pq' = DOMAIN pq \ {c} /\ connToPQItem' = connToPQItem \ {c}
           /\ \A d \in DOMAIN pq' : pq'[d] \in Int
           /\ QueueMatchesMap' /\ PriorityNotLate'
<1> USE ConstantsAssumption
<1>0. connToPQItem = DOMAIN pq /\ el = NoConn
    BY DEF IInv, TypeOK, QueueMatchesMap
<1>1. /\ DOMAIN pq' = DOMAIN pq \ {c} /\ connToPQItem' = connToPQItem \ {c}
      /\ \A d \in DOMAIN pq' : pq'[d] = pq[d]
    BY <1>0 DEF RemoveConn, RemoveItem, Restrict
<1>2. QueueMatchesMap'
    BY <1>0, <1>1 DEF QueueMatchesMap, IInv
<1>3. PriorityNotLate'
    BY <1>1 DEF PriorityNotLate, GetHeartbeatDeadline, IInv, TypeOK, conns
<1> QED
    BY <1>1, <1>2, <1>3 DEF IInv, TypeOK

\* An update comes from setDead, whose connection has no deadline any more.
LEMMA UpdateConnKeeps ==
    ASSUME IInv, NEW c \in Conns, NEW p \in Nat, UpdateConn(c, p), isDeadConn[c],
           run = "select", UNCHANGED <<conns, run, el>>
    PROVE  /\ DOMAIN pq' = DOMAIN pq /\ connToPQItem' = connToPQItem
           /\ \A d \in DOMAIN pq' : pq'[d] \in Int
           /\ QueueMatchesMap' /\ PriorityNotLate'
<1> USE ConstantsAssumption
<1>0. connToPQItem = DOMAIN pq /\ el = NoConn
    BY DEF IInv, TypeOK, QueueMatchesMap
<1>1. /\ DOMAIN pq' = DOMAIN pq /\ connToPQItem' = connToPQItem
      /\ \A d \in DOMAIN pq' : (d = c /\ pq'[d] = p) \/ pq'[d] = pq[d]
    BY <1>0 DEF UpdateConn, PushItem
<1>2. QueueMatchesMap'
    BY <1>1 DEF QueueMatchesMap, IInv
<1>3. PriorityNotLate'
    BY <1>1 DEF PriorityNotLate, GetHeartbeatDeadline, IInv, TypeOK, conns
<1> QED
    BY <1>1, <1>2, <1>3 DEF IInv, TypeOK

\* Run applies one operation of the channel.
LEMMA RunOpKeeps ==
    ASSUME IInv, RunOp
    PROVE  IInv'
<1> USE ConstantsAssumption
<1> DEFINE op == Head(opC)
<1>t. /\ opC' \in Seq(Ops) /\ Len(opC') <= Len(opC)
      /\ 1 \in 1 .. Len(opC) /\ op = opC[1] /\ op \in Ops
      /\ \A i \in 1 .. Len(opC') : i + 1 \in 1 .. Len(opC) /\ opC'[i] = opC[i + 1]
      /\ \A i \in 1 .. Len(opC) :
             i = 1 \/ (i - 1 \in 1 .. Len(opC') /\ opC'[i - 1] = opC[i])
    BY TailShifts DEF IInv, TypeOK, RunOp
<1>f. op.conn \in Conns /\ (op.op = "update" => op.priority \in Nat)
    BY <1>t, OpFields
<1>u. /\ run = "select"
      /\ UNCHANGED <<now, connClosed, exit, nextTick, run, checkNow, count, el>>
      /\ UNCHANGED <<socket, lastReceive, lastData, isDeadConn>>
      /\ UNCHANGED <<conns, run, el>>
    BY DEF RunOp, locals, conns
<1>o. \/ op.op = "add" /\ AddConn(op.conn)
      \/ op.op = "remove" /\ RemoveConn(op.conn)
      \/ op.op = "update" /\ UpdateConn(op.conn, op.priority)
    BY DEF RunOp
<1>x. /\ op.op = "remove" => socket[op.conn] = "closed"
      /\ op.op = "update" => isDeadConn[op.conn]
    BY <1>t DEF IInv, OpsFit
<1> HIDE DEF op
<1>p. /\ DOMAIN pq' \subseteq Conns /\ connToPQItem' \subseteq Conns
      /\ \A d \in DOMAIN pq' : pq'[d] \in Int
      /\ QueueMatchesMap' /\ PriorityNotLate'
      /\ \A d \in connToPQItem : d \in connToPQItem' \/ socket[d] = "closed"
      /\ op.op = "add" => op.conn \in connToPQItem'
    <2>0. DOMAIN pq \subseteq Conns /\ connToPQItem \subseteq Conns
        BY DEF IInv, TypeOK
    <2>1. CASE op.op = "add" /\ AddConn(op.conn)
        BY <2>0, <2>1, <1>f, <1>u, AddConnKeeps
    <2>2. CASE op.op = "remove" /\ RemoveConn(op.conn)
        BY <2>0, <2>2, <1>f, <1>u, <1>x, RemoveConnKeeps
    <2>3. CASE op.op = "update" /\ UpdateConn(op.conn, op.priority)
        BY <2>0, <2>3, <1>f, <1>u, <1>x, UpdateConnKeeps
    <2> QED
        BY <1>o, <2>1, <2>2, <2>3
<1>1. TypeOK'
    BY <1>t, <1>u, <1>p DEF IInv, TypeOK
<1>2. EveryOpenConnWatched'
    <2> SUFFICES ASSUME NEW d \in Conns, socket'[d] = "open", d \notin connClosed', ~exit',
                        d \notin connToPQItem'
                 PROVE  \E i \in 1 .. Len(opC') : opC'[i].op = "add" /\ opC'[i].conn = d
        BY DEF EveryOpenConnWatched
    <2>1. d \notin connToPQItem
        BY <1>p, <1>u
    <2>2. PICK i \in 1 .. Len(opC) : opC[i].op = "add" /\ opC[i].conn = d
        BY <2>1, <1>u DEF IInv, EveryOpenConnWatched
    <2>3. i # 1
        BY <2>2, <1>t, <1>p
    <2> QED
        BY <2>2, <2>3, <1>t
<1>3. TimesInOrder' /\ PingedSilent'
    BY <1>u DEF IInv, TimesInOrder, PingedSilent
<1>4. OpsFit'
    <2> SUFFICES ASSUME NEW i \in 1 .. Len(opC')
                 PROVE  /\ opC'[i].op = "remove" => socket'[opC'[i].conn] = "closed"
                        /\ opC'[i].op = "update" => isDeadConn'[opC'[i].conn]
        BY DEF OpsFit
    <2>1. i + 1 \in 1 .. Len(opC) /\ opC'[i] = opC[i + 1]
        BY <1>t
    <2> QED
        BY <2>1, <1>u DEF IInv, OpsFit
<1> QED
    BY <1>1, <1>2, <1>3, <1>4, <1>p DEF IInv

\* The timer starts with an empty heap and an empty channel.
LEMMA InitIInv == Init => IInv
<1> SUFFICES ASSUME Init PROVE IInv
    OBVIOUS
<1> USE ConstantsAssumption
<1>1. TypeOK
    <2>1. opC \in Seq(Ops) /\ Len(opC) = 0
        BY DEF Init
    <2>2. DOMAIN pq = {}
        BY DEF Init
    <2> QED
        <3>1. 1 + CheckInterval \in Nat /\ 1 \in 1 .. MaxTime /\ 0 \in 0 .. MaxTime
            OBVIOUS
        <3> QED
            BY <2>1, <2>2, <3>1 DEF Init, TypeOK
<1>2. QueueMatchesMap /\ PriorityNotLate
    BY DEF Init, QueueMatchesMap, PriorityNotLate
<1>3. EveryOpenConnWatched
    BY DEF Init, EveryOpenConnWatched
<1>4. TimesInOrder /\ OpsFit /\ PingedSilent
    BY DEF Init, TimesInOrder, OpsFit, PingedSilent
<1> QED
    BY <1>1, <1>2, <1>3, <1>4 DEF IInv

\* Every step of the timer and of its environment keeps the invariant.
LEMMA NextKeeps ==
    ASSUME IInv, [Next]_vars
    PROVE  IInv'
<1>1. CASE UNCHANGED vars
    BY <1>1 DEF vars, conns, locals, IInv, TypeOK, QueueMatchesMap, PriorityNotLate, GetHeartbeatDeadline,
                EveryOpenConnWatched, TimesInOrder, OpsFit, PingedSilent
<1>2. CASE RunStep
    BY <1>2, RunOpKeeps, RunExitKeeps, RunCheckKeeps, CheckBreakKeeps, CheckPopKeeps,
       PingSucceedsKeeps, PingFailsKeeps DEF RunStep
<1> QED
    BY <1>1, <1>2, TickKeeps, OnOpenedKeeps, OnClosedKeeps, OnDataKeeps, SetDeadKeeps, CloseKeeps
    DEF Next, Returned

\* The inductive invariant holds in every reachable state of the timer.
THEOREM Invariant == Spec => []IInv
<1>1. Init => IInv
    BY InitIInv
<1>2. IInv /\ [Next]_vars => IInv'
    BY NextKeeps
<1> QED
    BY <1>1, <1>2, PTL DEF Spec

\* Type correctness of the timer and its environment.
THEOREM TypeCorrect == Spec => []TypeOK
<1>1. IInv => TypeOK
    BY DEF IInv
<1> QED
    BY <1>1, Invariant, PTL

\* heap.Remove and heap.Fix are only ever called for items that are in the
\* heap: connToPQItem and the heap agree in every state of Run.
THEOREM QueueAndMapAgree == Spec => []QueueMatchesMap
<1>1. IInv => QueueMatchesMap
    BY DEF IInv
<1> QED
    BY <1>1, Invariant, PTL

\* However data, pings and operations interleave, no connection waits in the
\* heap behind its deadline, so checkTimeoutConn may stop at the first item
\* that is not due.
THEOREM PrioritiesNotLate == Spec => []PriorityNotLate
<1>1. IInv => PriorityNotLate
    BY DEF IInv
<1> QED
    BY <1>1, Invariant, PTL

\* While the timer runs no open connection that it has not closed falls out
\* of the heartbeat check, however full opC is.
THEOREM OpenConnsWatched == Spec => []EveryOpenConnWatched
<1>1. IInv => EveryOpenConnWatched
    BY DEF IInv
<1> QED
    BY <1>1, Invariant, PTL

\* Steps that leave the channel and the sockets alone take nothing into the map.
LEMMA OthersKeepOrder ==
    ASSUME IInv, RemoveFollowsAdd, UNCHANGED <<opC, socket>>,
           connToPQItem' \subseteq connToPQItem, exit => exit'
    PROVE  RemoveFollowsAdd'
BY DEF RemoveFollowsAdd

\* An operation behind the others comes after every add; a remove is queued
\* when its socket closes.
LEMMA SendKeepsOrder ==
    ASSUME IInv, RemoveFollowsAdd, NEW op \in Ops, Send(op),
           UNCHANGED <<connToPQItem, exit>>,
           op.op = "add" => socket'[op.conn] # "closed",
           \A c \in Conns : socket'[c] = "closed" /\ socket[c] # "closed" =>
                               op.op = "remove" /\ op.conn = c
    PROVE  RemoveFollowsAdd'
<1> SUFFICES ASSUME NEW c \in Conns, socket'[c] = "closed", ~exit
             PROVE  /\ c \in connToPQItem =>
                          \E j \in 1 .. Len(opC') : opC'[j].op = "remove" /\ opC'[j].conn = c
                    /\ \A i \in 1 .. Len(opC') :
                          opC'[i].op = "add" /\ opC'[i].conn = c =>
                              \E j \in i + 1 .. Len(opC') :
                                  opC'[j].op = "remove" /\ opC'[j].conn = c
    BY DEF RemoveFollowsAdd
<1>0. opC \in Seq(Ops) /\ opC' = Append(opC, op)
    BY DEF Send, IInv, TypeOK
<1>1. /\ Len(opC) \in Nat /\ Len(opC') = Len(opC) + 1
      /\ \A i \in 1 .. Len(opC) : opC'[i] = opC[i]
      /\ opC'[Len(opC) + 1] = op
    BY ONLY <1>0, op \in Ops
<1>2. CASE op.op = "remove" /\ op.conn = c
    <2>1. \A i \in 1 .. Len(opC') :
              opC'[i].op = "add" => Len(opC') \in i + 1 .. Len(opC')
        BY <1>1, <1>2
    <2>2. Len(opC') \in 1 .. Len(opC') /\ opC'[Len(opC')].op = "remove" /\ opC'[Len(opC')].conn = c
        BY <1>1, <1>2
    <2> QED
        BY <2>1, <2>2
<1>3. CASE ~(op.op = "remove" /\ op.conn = c)
    <2>1. socket[c] = "closed"
        BY <1>3
    <2>2. \A i \in 1 .. Len(opC') : opC'[i].op = "add" /\ opC'[i].conn = c =>
                                     i \in 1 .. Len(opC)
        BY <1>1
    <2>3. ASSUME c \in connToPQItem
          PROVE  \E j \in 1 .. Len(opC') : opC'[j].op = "remove" /\ opC'[j].conn = c
        <3>1. PICK j \in 1 .. Len(opC) : opC[j].op = "remove" /\ opC[j].conn = c
            BY <2>1, <2>3 DEF RemoveFollowsAdd
        <3> QED
            BY <3>1, <1>1
    <2>4. ASSUME NEW i \in 1 .. Len(opC'), opC'[i].op = "add" /\ opC'[i].conn = c
          PROVE  \E j \in i + 1 .. Len(opC') : opC'[j].op = "remove" /\ opC'[j].conn = c
        <3>0. i \in 1 .. Len(opC) /\ opC[i] = opC'[i]
            BY <2>2, <2>4, <1>1
        <3>1. PICK j \in i + 1 .. Len(opC) : opC[j].op = "remove" /\ opC[j].conn = c
            BY <3>0, <2>1, <2>4 DEF RemoveFollowsAdd
        <3> QED
            BY <3>0, <3>1, <1>1
    <2> QED
        BY <2>3, <2>4
<1> QED
    BY <1>2, <1>3

\* Run applies the first operation: an add whose remove is still behind it, or
\* a remove with which the connection leaves the map.
LEMMA RunOpKeepsOrder ==
    ASSUME IInv, RemoveFollowsAdd, RunOp
    PROVE  RemoveFollowsAdd'
<1> SUFFICES ASSUME NEW c \in Conns, socket[c] = "closed", ~exit
             PROVE  /\ c \in connToPQItem' =>
                          \E j \in 1 .. Len(opC') : opC'[j].op = "remove" /\ opC'[j].conn = c
                    /\ \A i \in 1 .. Len(opC') :
                          opC'[i].op = "add" /\ opC'[i].conn = c =>
                              \E j \in i + 1 .. Len(opC') :
                                  opC'[j].op = "remove" /\ opC'[j].conn = c
    BY DEF RemoveFollowsAdd, RunOp, conns
<1>1. /\ Len(opC) \in Nat \ {0} /\ Len(opC') = Len(opC) - 1 /\ Head(opC) = opC[1]
      /\ \A i \in 1 .. Len(opC') : opC'[i] = opC[i + 1]
    BY DEF IInv, TypeOK, RunOp
<1>2. \A j \in 2 .. Len(opC) : j - 1 \in 1 .. Len(opC') /\ opC'[j - 1] = opC[j]
    BY <1>1
<1>3. ASSUME c \in connToPQItem'
      PROVE  \E j \in 2 .. Len(opC) : opC[j].op = "remove" /\ opC[j].conn = c
    <2>1. CASE opC[1].op = "add" /\ opC[1].conn = c
        <3>1. 1 \in 1 .. Len(opC) /\ 1 + 1 = 2
            BY <1>1
        <3> QED
            BY <2>1, <3>1 DEF RemoveFollowsAdd
    <2>2. CASE ~(opC[1].op = "add" /\ opC[1].conn = c)
        <3>1. c \in connToPQItem /\ ~(opC[1].op = "remove" /\ opC[1].conn = c)
            BY <1>1, <1>3, <2>2 DEF RunOp, AddConn, RemoveConn, UpdateConn
        <3>2. PICK j \in 1 .. Len(opC) : opC[j].op = "remove" /\ opC[j].conn = c
            BY <3>1 DEF RemoveFollowsAdd
        <3> QED
            BY <3>1, <3>2
    <2> QED
        BY <2>1, <2>2
<1>4. ASSUME NEW i \in 1 .. Len(opC'), opC'[i].op = "add" /\ opC'[i].conn = c
      PROVE  \E j \in i + 1 .. Len(opC') : opC'[j].op = "remove" /\ opC'[j].conn = c
    <2>1. i + 1 \in 1 .. Len(opC) /\ opC[i + 1] = opC'[i]
        BY <1>1
    <2>2. PICK j \in (i + 1) + 1 .. Len(opC) : opC[j].op = "remove" /\ opC[j].conn = c
        BY <2>1, <1>4 DEF RemoveFollowsAdd
    <2>3. j \in 2 .. Len(opC) /\ j - 1 \in i + 1 .. Len(opC')
        BY <1>1, <2>1, <2>2
    <2> QED
        BY <1>2, <2>2, <2>3
<1> QED
    BY <1>2, <1>3, <1>4

\* For any capacity of opC: a connection whose socket has closed cannot stay in
\* the timer, because its add is never applied behind its remove.
THEOREM AddsBeforeRemoves == Spec => []RemoveFollowsAdd
<1>1. Init => RemoveFollowsAdd
    BY DEF Init, RemoveFollowsAdd
<1>2. ASSUME IInv, RemoveFollowsAdd, [Next]_vars
      PROVE  RemoveFollowsAdd'
    <2>1. ASSUME NEW c \in Conns, OnOpened(c) PROVE RemoveFollowsAdd'
        <3>1. [op |-> "add", conn |-> c] \in Ops
            BY DEF Ops
        <3> QED
            BY <1>2, <2>1, <3>1, SendKeepsOrder DEF OnOpened, IInv, TypeOK
    <2>2. ASSUME NEW c \in Conns, OnClosed(c) PROVE RemoveFollowsAdd'
        <3>1. [op |-> "remove", conn |-> c] \in Ops
            BY DEF Ops
        <3> QED
            BY <1>2, <2>2, <3>1, SendKeepsOrder DEF OnClosed, IInv, TypeOK
    <2>3. ASSUME NEW c \in Conns, SetDead(c) PROVE RemoveFollowsAdd'
        <3>1. [op |-> "update", conn |-> c, priority |-> now + DeadInterval] \in Ops
            BY <1>2, ConstantsAssumption DEF Ops, IInv, TypeOK
        <3> QED
            BY <1>2, <2>3, <3>1, SendKeepsOrder DEF SetDead, IInv, TypeOK
    <2>4. CASE RunOp
        BY <1>2, <2>4, RunOpKeepsOrder
    <2>5. CASE \/ Tick \/ (\E c \in Conns : OnData(c)) \/ Close \/ RunExit \/ RunCheck \/ CheckBreak
               \/ (\E c \in Conns : CheckPop(c)) \/ PingSucceeds \/ PingFails \/ UNCHANGED vars
        <3>1. /\ UNCHANGED <<opC, socket>> /\ connToPQItem' \subseteq connToPQItem
              /\ exit => exit'
            BY <2>5 DEF Tick, OnData, Close, RunExit, RunCheck, CheckBreak, CheckPop, PingSucceeds,
                        PingFails, vars, conns
        <3> QED
            BY <1>2, <3>1, OthersKeepOrder
    <2> QED
        BY <1>2, <2>1, <2>2, <2>3, <2>4, <2>5 DEF Next, RunStep, Returned
<1>3. IInv /\ RemoveFollowsAdd /\ [Next]_vars => RemoveFollowsAdd'
    BY <1>2
<1> QED
    BY <1>1, <1>3, Invariant, PTL DEF Spec

\* checkTimeoutConn never closes a connection that was heard from in the
\* interval before the check, whatever arrives between the look at its
\* deadline and the ping.
THEOREM OnlySilentClosed == Spec => ClosesOnlySilent
<1>1. ASSUME IInv, [Next]_vars
      PROVE  [\A c \in connClosed' \ connClosed :
                 ~isDeadConn[c] => \/ lastData[c] + HeartbeatInterval <= checkNow
                                   \/ lastData[c] >= checkNow]_vars
    <2>1. CASE PingFails
        <3>1. connClosed' \ connClosed \subseteq {el} /\ run = "ping"
            BY <2>1 DEF PingFails
        <3> QED
            BY <1>1, <3>1 DEF IInv, PingedSilent
    <2>2. CASE ~PingFails
        <3>1. UNCHANGED connClosed
            BY <1>1, <2>2 DEF Next, Tick, OnOpened, OnClosed, OnData, SetDead, Close, RunStep, RunOp, RunExit,
                  RunCheck, CheckBreak, CheckPop, PingSucceeds, Returned, vars
        <3> QED
            BY <3>1
    <2> QED
        BY <2>1, <2>2
<1>2. IInv /\ [Next]_vars =>
          [\A c \in connClosed' \ connClosed :
              ~isDeadConn[c] => \/ lastData[c] + HeartbeatInterval <= checkNow
                                \/ lastData[c] >= checkNow]_vars
    BY <1>1
<1> QED
    BY <1>2, Invariant, PTL DEF Spec, ClosesOnlySilent
=============================================================================
