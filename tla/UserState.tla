----------------------------- MODULE UserState ------------------------------
(***************************************************************************)
(* The state of one user in redis (logic/state_logic.go), as the broker    *)
(* nodes write it when connections of the user come and go (addAliasConn   *)
(* and removeAliasConn of broker/group.go, which call redis under          *)
(* aliasHubMutex) and as GetUserState reads it (broker/trpc_handler.go).   *)
(* The hash has two fields per node; 0 is a field that is not there.       *)
(*                                                                         *)
(* A definition that stands right before another and is used nowhere is a  *)
(* faulty variant of it, for testing that a property notices the fault.    *)
(***************************************************************************)
EXTENDS Integers, FiniteSets, SequencesExt

CONSTANTS
    Nodes,          \* node ids; a restarted node draws a new one
    MaxConns,       \* bound: connections of the user on one node
    Expire,         \* cacheExpireState (3600 s)
    MaxTime,        \* bound: the last second of the clock
    RedisMayFail,   \* a call of redis may fail
    NodesMayCrash,  \* a node may stop without closing its connections
    EmptyTopic,     \* the "" that addAliasConn and removeAliasConn pass
    NoExpiry, NoNode

ASSUME ConstantsAssumption ==
    /\ IsFiniteSet(Nodes) /\ NoNode \notin Nodes
    /\ MaxConns \in Nat \ {0} /\ Expire \in Nat \ {0} /\ MaxTime \in Nat \ {0}
    /\ RedisMayFail \in BOOLEAN /\ NodesMayCrash \in BOOLEAN
    /\ NoExpiry \notin Nat

VARIABLES
    now,                 \* the clock, in seconds
    local,               \* local[n]: connections in the hub of the user on n
    up,                  \* the nodes that run
    connect, disconnect, \* the fields <node>_connect, <node>_disconnect
    expireAt,            \* when redis drops the key
    missed               \* nodes one of whose redis calls failed

hash == <<connect, disconnect, expireAt>>
vars == <<now, local, up, hash, missed>>

Init ==
    /\ now = 1
    /\ local = [n \in Nodes |-> 0]
    /\ up = Nodes
    /\ connect = [n \in Nodes |-> 0]
    /\ disconnect = [n \in Nodes |-> 0]
    /\ expireAt = NoExpiry
    /\ missed = {}

(***************************************************************************)
(* redis                                                                   *)
(***************************************************************************)
Cleared == [n \in Nodes |-> 0]

\* A key that has expired is gone with all its fields.
Tick ==
    /\ now < MaxTime
    /\ now' = now + 1
    /\ IF expireAt # NoExpiry /\ expireAt <= now + 1
       THEN connect' = Cleared /\ disconnect' = Cleared /\ expireAt' = NoExpiry
       ELSE UNCHANGED hash
    /\ UNCHANGED <<local, up, missed>>

\* hset keeps the time to live of the key.
SetUserState(n) ==
    /\ connect' = [connect EXCEPT ![n] = now]
    /\ UNCHANGED <<disconnect, expireAt>>

ExpireKeepsConnect(n) ==
    /\ disconnect' = [disconnect EXCEPT ![n] = 0]
    /\ expireAt' = now + Expire
    /\ UNCHANGED connect
ExpireNever(n) ==
    /\ disconnect' = [disconnect EXCEPT ![n] = now]
    /\ UNCHANGED <<connect, expireAt>>

\* expireStateScript: set the disconnect field, then drop the fields of the
\* node if the hash has fields of others, else let the key expire.
ExpireUserState(n) ==
    LET disc == [disconnect EXCEPT ![n] = now]
        hlen == Cardinality({m \in Nodes : connect[m] # 0})
                + Cardinality({m \in Nodes : disc[m] # 0}) IN
    IF hlen > 2
    THEN /\ connect' = [connect EXCEPT ![n] = 0]
         /\ disconnect' = [disc EXCEPT ![n] = 0]
         /\ UNCHANGED expireAt
    ELSE /\ disconnect' = disc
         /\ expireAt' = now + Expire
         /\ UNCHANGED connect

RedisFails(n) ==
    /\ RedisMayFail
    /\ missed' = missed \union {n}
    /\ UNCHANGED hash

(***************************************************************************)
(* The nodes.  An error of redis is logged and otherwise ignored.          *)
(***************************************************************************)
AddAliasConn(n) ==
    /\ n \in up /\ local[n] < MaxConns
    /\ local' = [local EXCEPT ![n] = @ + 1]
    /\ \/ SetUserState(n) /\ UNCHANGED missed
       \/ RedisFails(n)
    /\ UNCHANGED <<now, up>>

RemoveAliasConnUnknown(n) ==
    /\ n \in up
    /\ local' = [local EXCEPT ![n] = @ - 1]
    /\ IF local[n] > 1 THEN UNCHANGED hash ELSE ExpireUserState(n)
    /\ UNCHANGED <<now, up, missed>>

RemoveAliasConn(n) ==
    /\ n \in up /\ local[n] > 0
    /\ local' = [local EXCEPT ![n] = @ - 1]
    /\ \/ local[n] > 1 /\ UNCHANGED <<hash, missed>>
       \/ local[n] = 1 /\ ExpireUserState(n) /\ UNCHANGED missed
       \/ local[n] = 1 /\ RedisFails(n)
    /\ UNCHANGED <<now, up>>

Crash(n) ==
    /\ NodesMayCrash /\ n \in up
    /\ up' = up \ {n}
    /\ local' = [local EXCEPT ![n] = 0]
    /\ UNCHANGED <<now, hash, missed>>

\* The bound of the clock is reached.
Stop == now = MaxTime /\ UNCHANGED vars

Next ==
    \/ Tick
    \/ \E n \in Nodes : AddAliasConn(n) \/ RemoveAliasConn(n) \/ Crash(n)
    \/ Stop

Spec == Init /\ [][Next]_vars

(***************************************************************************)
(* GetUserState: hGetAll, valueMap, and a loop over a Go map, whose order  *)
(* is any.                                                                 *)
(***************************************************************************)
UserStateOf(n) == [node |-> n, connectTime |-> connect[n],
                   disconnectTime |-> disconnect[n]]
NoState == [node |-> NoNode, connectTime |-> 0, disconnectTime |-> 0]

\* hGetAll and valueMap of the key of a topic.
ValueMap(topic) ==
    {UserStateOf(n) : n \in
        {m \in Nodes : topic = EmptyTopic /\ (connect[m] > 0 \/ disconnect[m] > 0)}}

Better(ret, s) ==
    \/ ret.connectTime = 0
    \/ s.disconnectTime = 0 /\ s.connectTime < ret.connectTime
    \/ /\ s.disconnectTime > 0 /\ ret.disconnectTime > 0
       /\ ret.disconnectTime < s.disconnectTime
Pick(ret, s) == IF Better(ret, s) THEN s ELSE ret

\* Every answer the loop can come to.
GetUserState(topic) ==
    {FoldLeft(Pick, NoState, order) : order \in SetToSeqs(ValueMap(topic))}

Closed(state) ==
    state.connectTime = 0 \/ state.disconnectTime > state.connectTime

(***************************************************************************)
(* Properties.                                                             *)
(***************************************************************************)
Online(n) == local[n] > 0

\* The types of the variables.
TypeOK ==
    /\ now \in 1 .. MaxTime
    /\ local \in [Nodes -> 0 .. MaxConns]
    /\ up \subseteq Nodes /\ missed \subseteq Nodes
    /\ connect \in [Nodes -> 0 .. MaxTime]
    /\ disconnect \in [Nodes -> 0 .. MaxTime]
    /\ expireAt \in Nat \union {NoExpiry}

\* Nothing in redis claims the user is connected to a node where it is not,
\* unless the node crashed or could not reach redis.
NoGhostConnection ==
    \A n \in up \ missed :
        ~Online(n) /\ connect[n] > 0 => disconnect[n] >= connect[n]

\* A key whose user has gone from every node is going to be dropped, whichever
\* node the user left last, as long as the nodes run and reach redis.
Offline == \A n \in Nodes : ~Online(n)
OfflineKeyExpires ==
    Offline /\ ValueMap(EmptyTopic) # {} /\ up = Nodes /\ missed = {} =>
        expireAt # NoExpiry

\* "最早一次在线中的连接或最后一次已关闭的连接" (state_logic.go 45): while the
\* user is connected somewhere, GetUserState answers with an online node.
OnlineNotReportedClosed ==
    (\E n \in Nodes : Online(n)) =>
        \A state \in GetUserState(EmptyTopic) : ~Closed(state)

\* "主要是建连、断连相关信息，可以直接从redis读取" (docs/conn_manage.md 32): the
\* key of a user that is connected holds the node it is connected to.
OnlineStateKept == \A n \in Nodes : Online(n) => connect[n] > 0
=============================================================================
