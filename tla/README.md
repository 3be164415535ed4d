# longcom, verified with TLA+

longcom is a long-connection (WebSocket) gateway. Clients open sockets to a
broker node, authenticate with a token, send frames that are forwarded to a
business by HTTP callbacks, and receive messages that the business pushes to a
user, to a topic or to everyone. This directory models the node's core, checks
the models with TLC and proves theorems about them with TLAPS.

## Inventory of the system

| part | state | operations | interacts with |
|---|---|---|---|
| Conn (`broker/conn.go`, `conn_handler.go`) | state Init, Authed, Closing, Closed; session; ExitChan; inflight counter; `mu` | setAuthed, Close, onFrame, onAuthRequest, onRequest | called by event loops, frame goroutines and the timer; calls Server |
| gnet callbacks (`gnet.go`, `websocket.go`) | gnetConnToConn, connCount, the upgraded flag | OnOpened, OnClosed, React | one event loop per socket, several loops per node |
| Server (`server.go`) | connectionIDToConnMap | AddAuthedConnection, RemoveAuthedConnection, push handlers | group managers, callbacks |
| group manager, hub (`group.go`, `hub.go`) | buisnessGroup, allConns, aliasHub, hub.conns, topicSet, topicAliasInfoMap | addAliasConn, removeAliasConn, addConn, removeConn, Broadcast... | redis, under aliasHubMutex |
| heartbeat timer (`heartbeat.go`) | opC, heap, connToPQItem | Run, AddConn, RemoveConn, UpdateConn, checkTimeoutConn, Close | pings and closes Conns |
| user state (`logic/state_logic.go`) | a redis hash per user, two fields per node, a time to live | SetUserState, ExpireUserState, GetUserState | written by every node |
| callbacks (`callback.go`, `repo/request`) | none | Connect, Receive, Disconnect requests | called under c.mu (Connect, Disconnect) |
| push (`server.go`, `group.go`, `hub.go`) | pool tasks, hub.broadcast and hub.topicPush, the hub goroutine | the three push handlers, SendMessage, Broadcast, BroadcastByAlias, BroadcastByTopic, hub.run, Send | reads the hubs while connections come and go |
| WebSocket (`websocket.go`, `repo/ws`) | inbound buffer, upgraded flag, headers seen | Decode, Upgrade, onReactAfterUpgrade, control frames, Cipher | event loop |
| message queue (`repo/mq/kafka`) | consumer groups, sessions, offsets, ready channel | SendBytesMsg, StartConsume, Setup, ConsumeClaim | RPC service, push handlers, kafka |
| RPC service (`trpc_handler.go`) | none | GetUserState, SendMessage, SendMessageByUser, SendMessageByTopic | registries, redis, message queue |
| futures (`repo/message`) | id counter, channels | Get, Invoke, Terminate | created per Conn, never used |
| noop queue, tokens, configuration, metrics, access log | none that matters here | | |

What is hard here: three kinds of threads call Close on one connection, one of
them while another is in setAuthed; a registration touches seven containers
under two locks and can fail half way; connections of one user share a hub that
the last one takes down, while a push task still holds a pointer to it; the
timer keeps connections in a heap under deadlines that move; redis is written by
several nodes that may crash; TCP cuts frames anywhere; kafka rebalances,
repeats and starts groups without a position. `PROJECT.json` lists each hazard
at its line with the properties that watch it.

What makes each part correct, in a sentence: a connection is in all registries
or in none, and leaves them all (`Broker`); who a push can reach is who is
connected (`Presence`); a silent connection is closed and no other
(`Heartbeat`); redis names no user that is not there (`UserState`); a push
reaches everyone who stays, once and in order (`Push`); what a peer sent is what
is handled (`WebSocket`); every node gets every push (`MessageQueue`).

## Modules

| module | models | proved in |
|---|---|---|
| `Presence` | abstract: who a push can reach, by user and by topic | |
| `Broker` | one node: connections, event loops, frame goroutines, timer, registries, hubs, callbacks; implements `Presence` | `BrokerProofs`, `BrokerPromiseProofs` |
| `Heartbeat` | the timer in detail, with its environment | `HeartbeatProofs` |
| `UserState` | the redis state of one user over several nodes | `UserStateProofs` |
| `Push` | from a push handler to the sockets of one user on one node | `PushProofs` |
| `Cipher` | which byte of the mask each byte of a payload gets | `CipherProofs` |
| `Frames` | WebSocket frames as bytes: headers, checks, UTF-8, close codes; uses `Cipher` | `WebSocketProofs` |
| `WebSocket` | one socket from its first byte on: codec, upgrade, frames, answers; uses `Frames` | `WebSocketProofs` |
| `MessageQueue` | producers, consumer groups and offsets between the RPC service and the push handlers | `MessageQueueProofs` |
| `MCBroker`, `MCHeartbeat`, `MCUserState`, `MCPush`, `MCWebSocket`, `MCMessageQueue` | instances for TLC | |

A push travels `MessageQueue`, `Push`, socket; what `Push` assumes of the
registries (in which order a connection enters and leaves them) is what `Broker`
shows. A frame travels `WebSocket`, then `OnFrame` of `Broker`. `Heartbeat` and
`Broker` share the timer: in `Broker` it is an actor that closes any connection
at any time, which is all that `Heartbeat` allows it to do.

### Broker

A thread has a program counter `pc` and the connection `at` it works on. A step
is what a thread does between two points where another thread can tell the
difference:

* An event loop runs `OnOpened`, `OnClosed`, the handshake
  (`ReactBeforeUpgrade`, `OnAuthRequest`, `SetAuthed`, `AddConnID`,
  `AddAliasConn`, `AddConn`, `ConnectCallback`, `Upgrade`) and `OnFrame`. While
  it is inside one of them it does nothing for its other sockets.
* The goroutine of a frame runs `OnRequest` (reads the state without a lock),
  `ReadSession` (waits for c.mu), `Dispatch`.
* The timer is, for a connection, `PingFails` and `HeartbeatRemoveConn`.
* `Close` is called by all three: `CloseInit`, `CloseAgain`, or `CloseAuthed`
  followed by `RemoveConnID`, `RemoveAliasConn`, `RemoveConn`,
  `DisconnectCallback`, `CloseNetwork` with c.mu held.

`mu` is a lock; addAliasConn and removeAliasConn hold aliasHubMutex from start
to end and are one step. `getGroupManager` can fail (its goroutine pools may not
come up) only for a business that has no manager. `warned` is a history
variable: the connections whose setAuthed logged that failure; the code leaves
them Authed and unregistered. Tokens, names and frames are abstract values; a
frame is a heartbeat packet or not; HTTP callbacks are recorded, not performed.

### Heartbeat

`Run` is one goroutine: `RunOp`, `RunExit`, `RunCheck`, and the iterations of
checkTimeoutConn (`CheckBreak`, `CheckPop`, then `PingSucceeds` or `PingFails`),
split so that data can arrive between the look at the deadline and the ping. The
heap is a function from connections to priorities; Pop takes any least element.
The limit of a check is compared as the code does it (`LimitReached`).
setDead has no callers left; the constant `DeadConns` lets it be explored.

### UserState

One user on several nodes; `AddAliasConn` and `RemoveAliasConn` write the hash,
`Tick` advances the clock and drops an expired key. `GetUserState` is the set of
answers that the loop can come to over all orders of a Go map.

### Push

One business, one user. A connection has a position `life` in the registries,
and its steps are those of addAliasConn, addConn, Close, removeAliasConn and
removeConn. A call of a handler has a name `p`, and with it the pool task it
submits, at `pc[p]`: `TaskLookup` reads the hub with aliasHubMutex and keeps the
pointer, `TaskClosed`, `TaskStart` and `TaskEnqueue` use it later without the
mutex, and `TaskGivesUp` is the select's other two cases. The goroutine that a
task starts is `loop[p]`: `LoopBroadcast` and `LoopTopic` take from a channel and
hold the hub's read lock until `LoopSend` has dealt with the last connection.
`Broadcast` walks a sync.Map that changes (`RangeVisit`, `RangeEnd`).
`HandlerRefuses` is a handler that returns an error: an empty business or topic
name, or a business without a group manager whose pools cannot be made.
`Cancel` ends the context that a consumer's session gives to the handler.
`queued` and `due` are history: the order in which a channel took its messages,
and the connections that were there when the handler was called and have not
begun to close.

### Cipher, Frames, WebSocket

`Frames` works on bytes because the properties do: a header of two to fourteen
bytes, three forms of the length, the mask, the UTF-8 automaton with its table.
A 64 bit length is exact up to 2^24 and `Huge` beyond, which no buffer reaches.
`WebSocket` has the peer (`PeerSends`), the network (`Arrive` takes any number of
the bytes on their way) and the event loop: `DecodeRequest`, the request line,
one `HeaderLine` per turn of Upgrade's loop, `UpgradeReply`, and `DecodeFrame`,
which is Decode followed by React on what Decode returned. The request's text is
abstracted to its lines and whether each value is the one required; its bytes
count only by number (`HeadLen`). Conn.Pong's AsyncWrite is done by a later task
of the loop (`AsyncWrite`). Conn.Pong builds its frame (conn.go:232) with
github.com/gobwas/ws, which is not in the repository; `repo/ws` is a copy of it,
so `OnPing` uses the same `NewFrame`.

### MessageQueue

A log for each partition, the committed offsets, and for each group and
partition who reads it (`claim`). `SendBytesMsg` and `SendAgain` are the two
calls of sarama's SendMessage; a call makes up to 1 + `MaxRetry` attempts
(producer.go:37, without idempotence), all to the partition it has chosen, and
each attempt may store the message and still fail. `StartSessions`, `Rebalance`, `EndSession`, `ConsumeFails`, `AutoCommit`
and `Crash` are kafka and sarama as the code meets them, with the ready channel
that Setup closes and the loop of StartConsume makes anew. `HandlerCalled` and
`HandlerReturns` are one turn of ConsumeClaim. `Foreign` are messages that
cannot be unmarshalled. The id of a node is made at random at start-up, so a
node that crashed does not come back to its groups.

## Runs

| run | configuration | shows |
|---|---|---|
| `broker_shared_user` | 2 connections of one user or of namesakes in 2 businesses, 2 topics, 2 loops, timer | `TypeOK`, `MutualExclusion`, `Progress`, `RegistriesExact`, `HubsExact`, and `ImplementsPresence` |
| `broker_frames` | 1 connection, 2 frame goroutines, 4 frames, limit 3 | `InflightExact`, `CallbackOrder`, `StateOnlyAdvances`, `ClosedSocketsCleanedUp`, `CloseReachesSocket` |
| `heartbeat` | 2 connections, channel of 2, check limit 1, clock to 4 | `QueueMatchesMap`, `PriorityNotLate`, `EveryOpenConnWatched`, `RemoveFollowsAdd`, `ClosesOnlySilent`, `ClosedConnsForgotten`, `TypeOK` |
| `user_state` | 3 nodes, 2 connections each, redis failures and crashes, clock to 4 | `NoGhostConnection`, `OfflineKeyExpires`, `TypeOK` |
| `push_hubs` | 2 connections, a push through any of the four handlers and one by alias, channels of 1, pools of 2 | nothing twice (`DeliveredOnce`), the order of a hub is kept (`HubOrder`), a push whose task is over is on its way to all who stay (`NothingLost`), every task ends (`TasksEnd`), `TypeOK` |
| `push_topics` | 2 connections, 2 topics, 1 push through any of the four handlers, pools of 1, 2 seconds | the time of the subscription takes a push from nobody who was there (`NothingLost`), who stays gets it (`StableConnGetsPush`), every goroutine of a closed hub ends (`HubLoopsEnd`) |
| `websocket` | 25 sorts of frames, 2 of them sent, any cuts, any handshake | `HandshakeExact`, `FramesInOrder`, `RepliesReadable`, `NoFrameLeftBehind`, `TypeOK` |
| `message_queue` | 2 nodes, 1 push, 1 foreign message, 1 partition of 3 messages, 1 retry in each send, 2 disturbances | `NothingPassedOver`, `ReadyClosedOnce`, `NilMeansStored`, `EveryNodeGetsPush`, `TypeOK` |

The bounds are small but reach every case the code distinguishes. `Broker`: two
connections are enough for one to join a hub while the other leaves it, and for
both orders of setAuthed and a foreign Close; all three threads that can call
Close are present; the inflight limit is reached with two goroutines at work.
`Heartbeat`: the channel fills, the add and the remove of one connection wait in
it together, a check hits its limit, the clock passes two check intervals. `UserState`: one time to live passes. `Push`: a hub is closed
and another one made while a task holds the first; channels of one fill with two
pushes; two tasks race to start one goroutine; the walk over all
connections and a hub deliver to the same sockets; a second connection moves the
time of a subscription, or comes after the push, within the same second or in
the next. `WebSocket`: payloads of 125
and 126 bytes stand on both sides of the two limits, nine bytes take every loop
of Cipher, two frames are enough for one to be cut anywhere with the next one
behind it, and for a frame behind a forbidden one. `MessageQueue`: a rebalance
between handling and marking, a commit that fails, a foreign message before and
after the push, a crash; `MaxStored` cuts the copies of a push at three, of the
2 * (MaxRetry + 1) that are possible and that the proof allows; the three clients that a node has for alias pushes
share a group and divide its partitions, which the module can express, while the
instance takes the topic kind, whose handler returns the error of a message that
cannot be unmarshalled. What the bounds leave open for safety is closed by the
proofs, which hold for all constants.

CHECK_DEADLOCK is off where a run may end: all connections closed and all
pushes done, all frames sent, the clock at its bound.

Runs that are expected to fail show where the code departs from what the
repository says of it (the quotations are in `PROJECT.json`):

* `user_state_map_order`: GetUserState may report a closed node while the user is
  online elsewhere, depending on map order;
* `user_state_ttl`: the time to live of an earlier leave deletes the state of a
  user that is back;
* `push_marked`: a message is marked as dealt with when its task is submitted;
  the task has the context of the consumer's session, so a rebalance right after
  the mark drops the push for a connection that stays;
* `websocket_empty_frame`: a frame without payload gives offset 0, with which
  gnet drops the whole buffer, the frames behind it included, and a frame that
  was cut there is continued in the middle.

Other things seen while modelling, for which no run is kept:

* heartbeat.go:293: the count is compared with > before it is raised, so a check
  handles one connection more than the comment at heartbeat.go:145 says ("at most
  how many connections one check looks at"); the model keeps the code's
  comparison, and nothing else depends on the limit; heartbeat.go:324: an accepted ping counts as received data;
* trpc_handler.go:40: connect and disconnect within one second read as online;
  group.go:163: state is written under an empty topic and read with one;
  state_logic.go:138: the fields of a crashed node never expire;
* websocket.go:323: HandleClose always returns an error, so the close frame it
  has written is never sent; conn.go:232: Conn.Pong sends a ping frame beside the
  pong of HandlePing; a ping without payload gets no answer and an unmasked empty
  frame does not close the socket (both follow from read.go:109);
* consumer.go:58: until a group has committed, each new session starts at the
  newest message and what was stored in between is skipped (`Served` leaves it
  out); consumer.go:134-139: client.Close is not reached;
* future.go:37: Get may take either of two closed channels; nothing calls it.

## Fairness

`Broker!FairSpec`: every thread that can take its next step eventually takes it
(the Go scheduler; every lock is released after finitely many steps), gnet
carries out a `Close()` it was asked for, and the timer gets to a queued remove.
New sockets, frames, hang-ups and ping failures are never forced.
`Heartbeat!FairSpec`: Run keeps running. Go's select picks among ready cases at
random and the ticker is ready once per interval, so a queued operation is not
put off for ever; in the model the clock is bounded, which gives the same.
`Push!Spec`: a submitted task and a started goroutine take their steps; nothing
makes a connection come or go, or a context end. A hub goroutine with both a
message and its exit signal may take either.
`MessageQueue!Spec`: kafka completes a rebalance, a session whose claims have
returned ends, and ConsumeClaim goes on (the push handlers return: `TasksEnd`).
Sends, commits, rebalances, failures and crashes are never forced.
`WebSocket!Spec` has no fairness: everything asked of it is safety, and "no frame
is left behind" is asked of the states in which the loop is idle.

## Proofs

Every theorem holds for all values of the constants that satisfy the module's
named assumptions (non-empty sets where the code needs one, bounds that are
natural numbers, labels that differ). Each `Spec => []P` rests on an inductive
invariant `IInv` of its module: `Init => IInv`, `IInv /\ [Next]_vars => IInv'`
(one lemma per action), `IInv => P`. Each `IInv` was checked with TLC on the
instances of the runs before it was proved.

### Broker

`BrokerProofs`: `TypeCorrect`, `RegistriesAreExact`, `HubsAreExact`,
`SectionsExclude` (`MutualExclusion`), `StagesFit` (`Progress`) and
`StatesOnlyAdvance`, an action property.

All rest on one inductive invariant, the conjunction of the five state
predicates. None of them is inductive alone. `RegistriesExact` says which
registries a connection is in from its state and from how far the holder of its
lock has come; to see that a step keeps it one must know that the holder is the
only thread inside (`MutualExclusion`) and in which state it finds the
connection (`Progress`). That Close never misses the group manager of a
registered connection, and so never leaves a hub entry behind, is the last
conjunct of `Progress`. `TypeOK` needs `Progress` because a business is entered
from a session, which has to be there.

The proof splits the actions in two. Steps that hold no lock and touch no
registry are `Quiet`; `QuietKeeps` handles them together, after one lemma per
action that it is quiet and keeps the types. The others move one thread into,
inside or out of a section of c.mu; `Enter`, `Inside` and `Release` say what
that does to the locks, and one lemma per action (`...Keeps`) does the rest.

`BrokerPromiseProofs` builds on that invariant:

* `PresenceImplemented`: `Spec => ImplementsPresence`, the refinement of
  `Presence`. Only `AddAliasConn` and `RemoveAliasConn` change whom a push can
  reach, and each is a Join or a Leave: the topics a hub has are those of the
  sessions in it (`HubsExact`), so the last one to leave takes all of them along.
* `InflightIsExact`: the counter is the number of goroutines at work, below the
  limit. `Counted` makes it inductive: an idle goroutine is at no connection, so
  taking a frame adds one that was not counted.
* `CallbacksInOrder`: needs `Phases`, who may be where. Frames are worked on only
  after the upgrade, the upgrade follows setAuthed on the connection's own event
  loop, so no goroutine can send Receive before the Connect callback of
  setAuthed, and one that dispatches has a session. `CallbackInv` ties what the
  business was told to the connection's state and to how far the holder of c.mu
  has come.

### Heartbeat

`HeartbeatProofs`: `TypeCorrect`, `QueueAndMapAgree`, `PrioritiesNotLate`,
`OpenConnsWatched`, `AddsBeforeRemoves` (`RemoveFollowsAdd`, for any capacity of
opC) and `OnlySilentClosed` (an action property). To the properties
`IInv` adds `TimesInOrder` (no stamp lies in the future), `OpsFit` (a queued
remove is of a closed socket, a queued update of a dead connection) and
`PingedSilent` (the connection that checkTimeoutConn is about to ping was silent
when it was popped; what arrived since arrived after the check began). Without
`OpsFit` a remove could take an open connection out of the timer; without
`TimesInOrder` data that arrives could lower a deadline below the priority in
the heap; without `PingedSilent` a failed ping says nothing about silence.

### UserState

`UserStateProofs`: `TypeCorrect`, `NoGhosts`, `OfflineKeysExpire`. `IInv` adds
`FieldsPast` (the times in the hash are not in the future, so a disconnect that
is written now is not before the connect) and `LastingFieldsOnline` (as long as
nodes run and reach redis, a key without a time to live has fields only of nodes
where the user is), which is what the script of ExpireUserState preserves when
nodes leave in any order.

### Push

`PushProofs`: `TypeCorrect`, `NoSecondDelivery`, `HubsKeepOrder` and
`NonePushedInVain` (`NothingLost`). The first three rest on `IInv`. The key is `SingleLoop`: a hub
has at most one goroutine in its life, since the flag that a task takes under
the hub's lock is never given back. With it `QueueFits` holds: what is in the
channel is a suffix of what the channel has ever taken, and the message that the
goroutine is delivering is the one right before that suffix. What a connection
got is in no channel any more, and neither the goroutine nor a task has this
connection still to come (`Taken`, `GotFits`), so it gets nothing twice, and what
it gets next from the hub is later in the channel's order than all it has.
`TaskFits`, `LoopFits` and `ChannelFits` tie tasks, goroutines and messages to
the hub they hold, also after it was closed and another one made; `Born` says
that whatever names a connection names one that was opened.

`NothingLost` needs a second invariant, `LInv`, on top of `IInv`. `Registry`: the
connections of the user are those of the hub in the map, which is open. So the
hub of a connection that stays is neither closed nor replaced (`HubStays`), and
a task that read it from the map while the connection was there holds that very
hub. `Served`: a running hub has its goroutine, which ends only after the hub was
closed; so what the task puts into the channel is taken out. `Subscribed`: a
connection in the hub was opened no later than the time of the subscription to
its topic, so the comparison at hub.go:84 never excludes one that was there when
the handler was called (`DueFits`). `Kept` follows a push for one connection:
its task still has something before it (`Ahead`), or the push is on its way;
`WayStays` shows that it then stays so over every step of goroutines, channels,
pool tasks and other connections.

### MessageQueue

`MessageQueueProofs`: `TypeCorrect`, `CommitsPassNothing`, `NoSecondClose`,
`NilIsStored`. `CommitCovers` and `ClaimCovers` say that everything below a
committed offset, and everything a session has read, was handled, was foreign, or
was not awaited by the group. `AwaitedHavePosition` closes the gap at the start of
a group: one without a position was awaited by no message, so it may start
anywhere. `ReadyFits` says that the ready channel is open between two calls of
Consume. `CopiesFit` bounds the copies of a push by the attempts that the calls
of SendMessage have made so far (`Attempts`).

### Cipher, Frames, WebSocket

`CipherProofs`, for every length and every offset:

* `LoopsPartitionChunk`: the three loops of Cipher visit each byte of a chunk of
  eight or more exactly once;
* `CipherExact`: byte i of a chunk at an offset gets byte (offset + i) mod 4 of
  the mask;
* `ChunksCompose`: a payload unmasked in two reads is unmasked as one.

The argument: the unaligned head has at most three bytes and brings the offset
to a multiple of 4; head and tail leave a multiple of 8 between them, so the wide
loop begins on the first byte of the mask and ends where the tail begins; in each
of the three the index then is the same residue.

`WebSocketProofs`:

* `UnmaskRestores`: whatever payload a peer masks as RFC 6455 says, Cipher gives
  it back. From `CipherExact` and `XorTwice`; the exclusive or of bytes is
  defined on bits by arithmetic, which the prover can follow.
* `Utf8Exact`: the automaton of utf8.go accepts exactly the byte sequences that
  can be cut into the characters of RFC 3629. `Fits` says for each state which
  beginning of a character the last one to three bytes are, and where the last
  whole character ended; `FitsStep` follows it over one byte. The induction is
  over the length of the prefix: `SetInduction` has it from the library's theorem
  that a set of numbers has a least element, because the library's induction
  rules take a predicate as a parameter. That the two recursive functions exist
  is shown first (`StatesFollow`, `WholeFollows`).
* `TypeCorrect`: the buffers hold bytes. This needs that frames are laid out in
  bytes (`PeerLayout`) and that the codec's offset is a number (`OffsetTyped`),
  and that no frame is handled before the upgrade.
* `HandshakeIsExact`: `LinesFit` says that while the loop of Upgrade runs all
  lines were right and `seen` is what they have of the five headers; a line
  without a colon is never right, so at the end nothing else can have been there.
* `NothingLeftBehind` and `FramesKeepOrder`, for any frames, any number of them
  and any cuts. Two layers. The codec: `HeaderRead` and `FrameRead` say what
  ReadFrameFromBytes does on a buffer that begins as a frame does (asks for more,
  refuses it, or hands on that frame and its length), and `MaskedRead` what
  ReadClientMessage makes of a masked frame. The stream: `StreamFits` says that
  buffer and network hold the bytes of exactly those frames that were sent and
  not handled, one behind the other (`CutsFit` names the places between them);
  it is kept by a frame that is sent (`CutsAppend`), by any arrival, and by
  taking the request or a frame away (`CutsShift`). `Idle` adds that the loop
  rests only where the codec asked for more, so a whole frame at the front
  contradicts it. A frame without a mask may be cut wrongly by the codec (its
  header of two bytes is returned with offset 0), but it is refused and closes
  the socket, so no later frame is read behind it. As in the properties themselves, an empty frame
  in the stream is excepted: the run `websocket_empty_frame` shows what it does.

* `RepliesAreReadable`, for any frames and any number of pings. `MessageRead` says
  of any bytes that ReadClientMessage accepts that the operation code is one of
  five and that the payload of a ping has at most 125 bytes; `ReadBack` that a
  frame with such a payload, written by WriteFrame, is read back; `Reacts` that a
  ping is answered at once by one pong with its payload, and nothing else is.
  That the n-th pong answers the n-th ping is said with cardinalities of the sets
  of their places (SelectSeq takes a filter, which the provers do not take);
  `CountedLast` says that a place behind the others leaves their counts alone,
  `PairedNext` that a ping and its pong, both added last, are paired. The third
  invariant, `RInv`, adds what is needed around it: what waits in `async` is ping
  frames, so a later task never writes a pong out of turn, and nothing is on the
  socket before the status while something is once frames are handled.

The invariants `SInv` and `RInv` were checked by TLC on the instance of the run
`websocket` before they were proved, the latter with its typing by index.

### Only model-checked

* Liveness: `ClosedSocketsCleanedUp`, `CloseReachesSocket`, `TasksEnd`,
  `HubLoopsEnd`, `StableConnGetsPush`, `EveryNodeGetsPush`, and
  `ClosedConnsForgotten` of `Heartbeat`: fairness and ENABLED are outside the
  prover's reach.

## Not modelled

* The client side of `repo/ws` (dialer.go, the client checks, wsutil/writer.go,
  wsutil/dialer.go) and HTTPUpgrader: the broker calls none of it.
* Fragmented messages in wsutil.Reader: the broker makes a new Reader for each
  frame, so a fragment is an error, which `WebSocket` shows.
* repo/message futures: created for each connection and never used.
* Functions without callers: Subscribe, UnSubscribe, onDisconnectRequest,
  onReply, sendAuthFailedAndSetDead, SendMsg.
* Tokens: a JWT library decides; `Broker` has both outcomes.
* The noop queue does nothing; the SCRAM client wraps a library.
* Generated protobuf and RPC code, configuration, metrics, access log, start-up
  and shutdown: no protocol state.
* How long redis or a callback takes while c.mu or aliasHubMutex is held: the
  models have no durations.
* What the code itself leaves wrong and nothing repairs: the fields of a node
  that crashed, a write to redis that failed, the messages before the first
  commit of a group. They are actions or states of the models, and the
  properties say in their conditions that they are excepted.

## Plan

All components are modelled as far as the tables above say, and every safety
property of the runs is proved. Should the broker begin to use fragmented
messages or a message future, `Frames` and a module of its own are where they go.
