-------------------------- MODULE UserStateProofs ---------------------------
(***************************************************************************)
(* For any number of nodes and connections and any time to live, with      *)
(* redis calls that fail and nodes that crash: redis names no connection   *)
(* that is gone, and the key of a user that left everywhere expires.       *)
(***************************************************************************)
EXTENDS UserState, TLAPS

\* No field of the hash lies in the future.
FieldsPast == \A n \in Nodes : connect[n] <= now /\ disconnect[n] <= now

\* A key without a time to live has fields only of nodes where the user is:
\* whatever number of fields the script finds, it drops those of the node that
\* is left or gives the key a time to live.
LastingFieldsOnline ==
    up = Nodes /\ missed = {} /\ expireAt = NoExpiry =>
        \A n \in Nodes : connect[n] > 0 \/ disconnect[n] > 0 => Online(n)

IInv == TypeOK /\ FieldsPast /\ NoGhostConnection /\ LastingFieldsOnline

\* No node, no field, no time to live.
LEMMA InitIInv == Init => IInv
BY ConstantsAssumption
DEF Init, IInv, TypeOK, FieldsPast, NoGhostConnection, LastingFieldsOnline, Online

\* The clock, and redis when it drops a key with all its fields.
LEMMA TickKeeps ==
    ASSUME IInv, Tick
    PROVE  IInv'
<1> USE ConstantsAssumption
<1>1. \/ UNCHANGED hash
      \/ connect' = Cleared /\ disconnect' = Cleared /\ expireAt' = NoExpiry
    BY DEF Tick
<1>2. TypeOK'
    BY <1>1 DEF IInv, TypeOK, Tick, hash, Cleared
<1>3. FieldsPast'
    BY <1>1 DEF IInv, TypeOK, FieldsPast, Tick, hash, Cleared
<1>4. NoGhostConnection'
    BY <1>1 DEF IInv, TypeOK, NoGhostConnection, Online, Tick, hash, Cleared
<1>5. LastingFieldsOnline'
    BY <1>1 DEF IInv, TypeOK, LastingFieldsOnline, Online, Tick, hash, Cleared
<1> QED
    BY <1>2, <1>3, <1>4, <1>5 DEF IInv

\* hset of a node that has a connection of the user, or a call that fails.
LEMMA AddAliasConnKeeps ==
    ASSUME IInv, NEW n \in Nodes, AddAliasConn(n)
    PROVE  IInv'
<1> USE ConstantsAssumption DEF AddAliasConn, SetUserState, RedisFails, hash
<1>1. TypeOK'
    BY DEF IInv, TypeOK
<1>2. FieldsPast'
    BY DEF IInv, TypeOK, FieldsPast
<1>3. NoGhostConnection'
    BY DEF IInv, TypeOK, NoGhostConnection, Online
<1>4. LastingFieldsOnline'
    BY DEF IInv, TypeOK, LastingFieldsOnline, Online
<1> QED
    BY <1>1, <1>2, <1>3, <1>4 DEF IInv

\* What the expire script leaves of the node, whichever branch it takes.
LEMMA ExpireScript ==
    ASSUME IInv, NEW n \in Nodes, ExpireUserState(n)
    PROVE  /\ connect' \in [Nodes -> 0 .. MaxTime] /\ disconnect' \in [Nodes -> 0 .. MaxTime]
           /\ expireAt' \in Nat \union {NoExpiry}
           /\ \A m \in Nodes \ {n} : connect'[m] = connect[m] /\ disconnect'[m] = disconnect[m]
           /\ \/ connect'[n] = 0 /\ disconnect'[n] = 0 /\ expireAt' = expireAt
              \/ connect'[n] = connect[n] /\ disconnect'[n] = now /\ expireAt' # NoExpiry
<1> USE ConstantsAssumption DEF IInv, TypeOK
<1> DEFINE disc == [disconnect EXCEPT ![n] = now]
<1>1. disc \in [Nodes -> 0 .. MaxTime] /\ disc[n] = now /\ \A m \in Nodes \ {n} : disc[m] = disconnect[m]
    OBVIOUS
<1>2. \/ /\ connect' = [connect EXCEPT ![n] = 0]
         /\ disconnect' = [disc EXCEPT ![n] = 0]
         /\ UNCHANGED expireAt
      \/ disconnect' = disc /\ expireAt' = now + Expire /\ UNCHANGED connect
    BY DEF ExpireUserState
<1>3. now + Expire \in Nat
    OBVIOUS
<1> HIDE DEF disc
<1> QED
    BY <1>1, <1>2, <1>3

\* A connection leaves; the last one runs the script or fails to reach redis.
LEMMA RemoveAliasConnKeeps ==
    ASSUME IInv, NEW n \in Nodes, RemoveAliasConn(n)
    PROVE  IInv'
<1> USE ConstantsAssumption
<1>0. /\ local' \in [Nodes -> 0 .. MaxConns] /\ UNCHANGED <<now, up>>
      /\ local[n] > 0 /\ local'[n] = local[n] - 1 /\ \A m \in Nodes \ {n} : local'[m] = local[m]
    BY DEF IInv, TypeOK, RemoveAliasConn
<1>1. CASE local[n] > 1 /\ UNCHANGED <<hash, missed>>
    BY <1>0, <1>1 DEF IInv, TypeOK, FieldsPast, NoGhostConnection, LastingFieldsOnline, Online, hash
<1>2. CASE local[n] = 1 /\ ExpireUserState(n) /\ UNCHANGED missed
    <2>1. TypeOK'
        BY <1>0, <1>2, ExpireScript DEF IInv, TypeOK
    <2>2. FieldsPast'
        BY <1>0, <1>2, ExpireScript DEF IInv, TypeOK, FieldsPast
    <2>3. NoGhostConnection'
        BY <1>0, <1>2, ExpireScript DEF IInv, TypeOK, FieldsPast, NoGhostConnection, Online
    <2>4. LastingFieldsOnline'
        BY <1>0, <1>2, ExpireScript DEF IInv, TypeOK, LastingFieldsOnline, Online
    <2> QED
        BY <2>1, <2>2, <2>3, <2>4 DEF IInv
<1>3. CASE local[n] = 1 /\ RedisFails(n)
    BY <1>0, <1>3 DEF IInv, TypeOK, FieldsPast, NoGhostConnection, LastingFieldsOnline, Online, RedisFails, hash
<1> QED
    BY <1>1, <1>2, <1>3 DEF RemoveAliasConn

\* A crashed node writes nothing any more; nothing is promised of its fields.
LEMMA CrashKeeps ==
    ASSUME IInv, NEW n \in Nodes, Crash(n)
    PROVE  IInv'
<1> USE ConstantsAssumption DEF Crash, hash
<1>1. TypeOK' /\ FieldsPast'
    BY DEF IInv, TypeOK, FieldsPast
<1>2. NoGhostConnection'
    BY DEF IInv, TypeOK, NoGhostConnection, Online
<1>3. LastingFieldsOnline'
    BY DEF IInv, TypeOK, LastingFieldsOnline
<1> QED
    BY <1>1, <1>2, <1>3 DEF IInv

\* Every step of the nodes and of redis keeps the invariant.
LEMMA NextKeeps ==
    ASSUME IInv, [Next]_vars
    PROVE  IInv'
<1>1. CASE UNCHANGED vars
    BY <1>1 DEF vars, hash, IInv, TypeOK, FieldsPast, NoGhostConnection, LastingFieldsOnline, Online
<1> QED
    BY <1>1, TickKeeps, AddAliasConnKeeps, RemoveAliasConnKeeps, CrashKeeps DEF Next, Stop

\* The inductive invariant holds in every reachable state.
THEOREM Invariant == Spec => []IInv
<1>1. Init => IInv
    BY InitIInv
<1>2. IInv /\ [Next]_vars => IInv'
    BY NextKeeps
<1> QED
    BY <1>1, <1>2, PTL DEF Spec

\* Type correctness: hub sizes, fields and the time to live of the key.
THEOREM TypeCorrect == Spec => []TypeOK
<1>1. IInv => TypeOK
    BY DEF IInv
<1> QED
    BY <1>1, Invariant, PTL

\* However many nodes write the hash, in whatever order users come and go on
\* them: redis never shows a user as connected to a node it has left, unless
\* that node crashed or could not reach redis.
THEOREM NoGhosts == Spec => []NoGhostConnection
<1>1. IInv => NoGhostConnection
    BY DEF IInv
<1> QED
    BY <1>1, Invariant, PTL

\* Whichever node a user leaves last, and however the number of fields stood
\* when the script ran, the key of a user that is offline expires.
THEOREM OfflineKeysExpire == Spec => []OfflineKeyExpires
<1>1. IInv => OfflineKeyExpires
    <2> SUFFICES ASSUME IInv, Offline, up = Nodes, missed = {}, expireAt = NoExpiry
                 PROVE  ValueMap(EmptyTopic) = {}
        BY DEF OfflineKeyExpires
    <2>1. \A m \in Nodes : ~(connect[m] > 0 \/ disconnect[m] > 0)
        BY DEF IInv, LastingFieldsOnline, Offline
    <2> QED
        BY <2>1 DEF ValueMap
<1> QED
    BY <1>1, Invariant, PTL
=============================================================================
