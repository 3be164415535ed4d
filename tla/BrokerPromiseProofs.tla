------------------------- MODULE BrokerPromiseProofs ------------------------
(***************************************************************************)
(* What the broker promises to others, for any number of connections,      *)
(* event loops, goroutines, users and topics: it implements Presence, it   *)
(* counts the frames in work, and it calls the business back in order.     *)
(***************************************************************************)
EXTENDS BrokerProofs, FiniteSetTheorems

(***************************************************************************)
(* Where a step leaves the sections of setAuthed and Close                 *)
(***************************************************************************)
\* Threads that move outside of them leave them where they are.
LEMMA OutsideStages ==
    ASSUME IInv, MovesOutside, mu' = mu
    PROVE  \A c \in Conns : Stage(c)' = Stage(c)
BY ConstantsAssumption, NamesAssumption
DEF IInv, TypeOK, MovesOutside, Stage, MutualExclusion

\* The holder of c.mu goes from one label to the next.
LEMMA StageGoes ==
    ASSUME IInv, NEW t \in Threads, NEW c, c = at[t], pc[t] \in Critical,
           NEW label \in Critical, Goto(t, label), mu' = mu
    PROVE  /\ c \in Conns /\ Stage(c) = pc[t] /\ Stage(c)' = label /\ OthersUnmoved(c)
<1>1. c \in Conns /\ Stage(c) = pc[t] /\ pc[t] # "idle"
    BY Holder DEF Critical, AddLabels, RemoveLabels
<1>2. OnlyMoves(t) /\ pc'[t] = label /\ at'[t] = at[t]
    BY <1>1, GotoMoves DEF Labels
<1>3. Stage(at[t])' = label /\ OthersUnmoved(at[t])
    BY <1>2, Inside
<1>4. Stage(c)' = label
    BY <1>2, <1>3 DEF Stage
<1> QED
    BY <1>1, <1>3, <1>4

\* It leaves, whether it goes on outside or ends.
LEMMA StageFreed ==
    ASSUME IInv, NEW t \in Threads, NEW c, c = at[t], pc[t] \in Critical,
           Goto(t, "upgrade") \/ CloseReturns(t, c), mu' = [mu EXCEPT ![c] = NoThread]
    PROVE  /\ c \in Conns /\ Stage(c) = pc[t] /\ Stage(c)' = "free" /\ OthersUnmoved(c)
<1>1. c \in Conns /\ Stage(c) = pc[t] /\ pc[t] # "idle"
    BY Holder DEF Critical, AddLabels, RemoveLabels
<1>2. OnlyMoves(t) /\ pc'[t] \notin Critical
    BY <1>1, GotoMoves, CloseReturnsMoves DEF Labels, Critical, AddLabels, RemoveLabels
<1> QED
    BY <1>1, <1>2, Release

(***************************************************************************)
(* Who ever joined                                                         *)
(***************************************************************************)
Joined(d) ==
    session[d] # NoSession /\ d \notin warned /\ Stage(d) \notin {"addConnID", "addAliasConn"}

LEMMA JoinedAlike ==
    ASSUME \A d \in Conns : /\ Joined(d)' <=> Joined(d)
                            /\ Joined(d) => session'[d] = session[d]
    PROVE  EverJoined' = EverJoined
<1>1. EverJoined = {<<c, Group(session[c]), session[c].topic>> : c \in {d \in Conns : Joined(d)}}
    BY DEF EverJoined, Joined
<1>2. EverJoined' = {<<c, Group(session'[c]), session'[c].topic>> : c \in {d \in Conns : Joined(d)'}}
    BY DEF EverJoined, Joined, Group
<1>3. {d \in Conns : Joined(d)'} = {d \in Conns : Joined(d)}
    OBVIOUS
<1> DEFINE S == {d \in Conns : Joined(d)}
<1>4. \A c \in S : session'[c] = session[c]
    OBVIOUS
<1> HIDE DEF S
<1>5. EverJoined = {<<c, Group(session[c]), session[c].topic>> : c \in S}
    BY <1>1 DEF S
<1>6. EverJoined' = {<<c, Group(session'[c]), session'[c].topic>> : c \in S}
    BY <1>2, <1>3 DEF S
<1> QED
    BY <1>4, <1>5, <1>6

\* A step at c leaves the others as they are.
Elsewhere(c) ==
    /\ OthersUnmoved(c)
    /\ \A d \in Conns \ {c} : session'[d] = session[d] /\ (d \in warned' <=> d \in warned)

LEMMA JoinedAt ==
    ASSUME NEW c \in Conns, Elsewhere(c),
           Joined(c)' <=> Joined(c), Joined(c) => session'[c] = session[c]
    PROVE  EverJoined' = EverJoined
<1>1. \A d \in Conns \ {c} : (Joined(d)' <=> Joined(d)) /\ session'[d] = session[d]
    BY DEF Elsewhere, OthersUnmoved, Joined
<1> QED
    BY <1>1, JoinedAlike

\* A quiet step.
LEMMA QuietJoined ==
    ASSUME IInv, Quiet
    PROVE  EverJoined' = EverJoined
<1>1. \A d \in Conns : Joined(d)' <=> Joined(d)
    BY OutsideStages DEF Quiet, Joined
<1> QED
    BY <1>1, JoinedAlike DEF Quiet

(***************************************************************************)
(* Every step but addAliasConn and removeAliasConn leaves Presence alone   *)
(***************************************************************************)
Apart == UNCHANGED <<hubConns, topicAliasInfoMap>> /\ EverJoined' = EverJoined

LEMMA QuietApart ==
    ASSUME IInv, Quiet
    PROVE  Apart
BY QuietJoined DEF Quiet, registries, Apart

\* A step inside a section, past addAliasConn.
LEMMA GoesApart ==
    ASSUME IInv, NEW t \in Threads, pc[t] \in Critical \ {"addConnID", "addAliasConn"},
           NEW label \in Critical \ {"addConnID", "addAliasConn"}, Goto(t, label),
           UNCHANGED <<mu, session, warned, hubConns, topicAliasInfoMap>>
    PROVE  Apart
<1>1. PICK c : c = at[t]
    OBVIOUS
<1>2. /\ c \in Conns /\ Stage(c) = pc[t] /\ Stage(c)' = label /\ OthersUnmoved(c)
    BY <1>1, StageGoes
<1>3. (Joined(c)' <=> Joined(c)) /\ Elsewhere(c)
    BY <1>2 DEF Joined, Elsewhere
<1> QED
    BY <1>2, <1>3, JoinedAt DEF Apart

\* The end of a section, past addAliasConn.
LEMMA FreedApart ==
    ASSUME IInv, NEW t \in Threads, NEW c, c = at[t], pc[t] \in Critical \ {"addConnID", "addAliasConn"},
           Goto(t, "upgrade") \/ CloseReturns(t, c), mu' = [mu EXCEPT ![c] = NoThread],
           UNCHANGED <<session, warned, hubConns, topicAliasInfoMap>>
    PROVE  Apart
<1>1. /\ c \in Conns /\ Stage(c) = pc[t] /\ Stage(c)' = "free" /\ OthersUnmoved(c)
    BY StageFreed
<1>2. (Joined(c)' <=> Joined(c)) /\ Elsewhere(c)
    BY <1>1 DEF Joined, Elsewhere
<1> QED
    BY <1>1, <1>2, JoinedAt DEF Apart

\* setAuthed gives a connection its session, but has not registered it yet.
LEMMA SetAuthedApart ==
    ASSUME IInv, NEW l \in Loops, NEW s \in Sessions, SetAuthed(l, s)
    PROVE  Apart
<1> USE ConstantsAssumption, NamesAssumption
<1>0. l \in Threads /\ at[l] \in Conns /\ pc[l] = "setAuthed"
    BY AtConn DEF SetAuthed, Threads
<1>1. ASSUME NEW c \in Conns, c = at[l], connState[c] = "Init"
      PROVE  Apart
    <2>1. /\ mu[c] = NoThread /\ mu' = [mu EXCEPT ![c] = l]
          /\ session' = [session EXCEPT ![c] = s]
          /\ Goto(l, "addConnID")
          /\ UNCHANGED <<hubConns, topicAliasInfoMap, warned>>
        BY <1>1 DEF SetAuthed, Unlocked, registries
    <2>2. OnlyMoves(l) /\ pc'[l] = "addConnID" /\ at'[l] = c
        BY <1>0, <1>1, <2>1, GotoMoves DEF Labels, Critical, AddLabels, RemoveLabels
    <2>3. Stage(c)' = "addConnID" /\ OthersUnmoved(c)
        BY <1>0, <1>1, <2>1, <2>2, Enter DEF Critical, AddLabels, RemoveLabels
    <2>4. session[c] = NoSession
        BY <1>1 DEF IInv, Progress
    <2>5. ~Joined(c)' /\ ~Joined(c)
        BY <2>3, <2>4 DEF Joined
    <2>6. Elsewhere(c)
        BY <2>1, <2>3 DEF Elsewhere, IInv, TypeOK
    <2> QED
        BY <2>1, <2>5, <2>6, JoinedAt DEF Apart
<1>2. CASE connState[at[l]] # "Init"
    <2>1. MovesOutside
        BY <1>0, <1>2, GotoMovesOutside DEF SetAuthed, Labels, Critical, AddLabels, RemoveLabels
    <2>2. Quiet
        BY <1>2, <2>1 DEF Quiet, SetAuthed, registries
    <2> QED
        BY <2>2, QuietApart
<1> QED
    BY <1>0, <1>1, <1>2

\* Nor has AddAuthedConnection when addAliasConn is yet to come, or will not.
LEMMA AddConnIDApart ==
    ASSUME IInv, NEW l \in Loops, AddConnID(l)
    PROVE  Apart
<1> USE DEF Critical, AddLabels, RemoveLabels
<1>0. l \in Threads /\ pc[l] = "addConnID" /\ UNCHANGED <<session, hubConns, topicAliasInfoMap>>
    BY DEF AddConnID, Threads, hubs
<1>1. PICK c : c = at[l]
    OBVIOUS
<1>2. CASE Goto(l, "addAliasConn") /\ UNCHANGED <<mu, warned>>
    <2>1. /\ c \in Conns /\ Stage(c) = "addConnID" /\ Stage(c)' = "addAliasConn" /\ OthersUnmoved(c)
        BY <1>0, <1>1, <1>2, StageGoes
    <2>2. ~Joined(c)' /\ ~Joined(c) /\ Elsewhere(c)
        BY <1>0, <1>2, <2>1 DEF Joined, Elsewhere
    <2> QED
        BY <1>0, <2>1, <2>2, JoinedAt DEF Apart
<1>3. CASE /\ warned' = warned \union {c} /\ mu' = [mu EXCEPT ![c] = NoThread]
           /\ Goto(l, "upgrade")
    <2>1. /\ c \in Conns /\ Stage(c) = "addConnID" /\ Stage(c)' = "free" /\ OthersUnmoved(c)
        BY <1>0, <1>1, <1>3, StageFreed
    <2>2. ~Joined(c)' /\ ~Joined(c) /\ Elsewhere(c)
        BY <1>0, <1>3, <2>1 DEF Joined, Elsewhere
    <2> QED
        BY <1>0, <2>1, <2>2, JoinedAt DEF Apart
<1> QED
    BY <1>1, <1>2, <1>3 DEF AddConnID

\* Close of a connection nobody authenticated.
LEMMA CloseInitApart ==
    ASSUME IInv, NEW t \in Threads, CloseInit(t)
    PROVE  Apart
<1>0. at[t] \in Conns /\ pc[t] = "close"
    BY AtConn DEF CloseInit
<1>1. UNCHANGED <<session, mu, warned, registries>> /\ OnlyMoves(t) /\ pc'[t] \notin Critical
    BY <1>0, CloseReturnsMoves DEF CloseInit
<1>m. MovesOutside
    BY <1>0, <1>1 DEF IInv, MutualExclusion, OnlyMoves, MovesOutside, Critical, AddLabels, RemoveLabels
<1>2. \A c \in Conns : Stage(c)' = Stage(c)
    BY <1>m, <1>1, OutsideStages
<1>3. \A d \in Conns : Joined(d)' <=> Joined(d)
    BY <1>1, <1>2 DEF Joined
<1> QED
    BY <1>1, <1>3, JoinedAlike DEF Apart, registries

\* Close of an authenticated connection begins: it joined, or is noted as warned.
LEMMA CloseAuthedApart ==
    ASSUME IInv, NEW t \in Threads, CloseAuthed(t)
    PROVE  Apart
<1>0. at[t] \in Conns /\ pc[t] = "close"
    BY AtConn DEF CloseAuthed
<1>1. PICK c \in Conns : c = at[t]
    BY <1>0
<1>2. /\ mu[c] = NoThread /\ mu' = [mu EXCEPT ![c] = t]
      /\ UNCHANGED <<session, warned, registries>>
      /\ \E label \in {"removeConnID", "closeNetwork"} : Goto(t, label)
    BY <1>1 DEF CloseAuthed, Unlocked
<1>3. PICK label \in {"removeConnID", "closeNetwork"} : Goto(t, label)
    BY <1>2
<1>4. OnlyMoves(t) /\ pc'[t] = label /\ at'[t] = c
    BY <1>0, <1>1, <1>3, GotoMoves DEF Labels, Critical, AddLabels, RemoveLabels
<1>5. Stage(c)' = label /\ OthersUnmoved(c) /\ Stage(c) = "free"
    BY <1>0, <1>1, <1>2, <1>4, Enter DEF Critical, AddLabels, RemoveLabels, Stage
<1>6. (Joined(c)' <=> Joined(c)) /\ Elsewhere(c)
    BY <1>2, <1>5 DEF Joined, Elsewhere
<1> QED
    BY <1>2, <1>6, JoinedAt DEF Apart, registries

(***************************************************************************)
(* addAliasConn is Join, removeAliasConn is Leave                          *)
(***************************************************************************)
TopicIndex == [g \in Groups |-> {t \in Topics : <<g[1], t, g[2]>> \in topicAliasInfoMap}]

\* The topics a push reaches a user for are those of its hub.
LEMMA IndexIsTopicSet ==
    ASSUME TypeOK, HubsExact
    PROVE  TopicIndex = topicSet
<1>1. \A g \in Groups : TopicIndex[g] = topicSet[g]
    BY DEF TypeOK, HubsExact, TopicIndex
<1>2. topicSet = [g \in Groups |-> topicSet[g]]
    BY DEF TypeOK
<1> QED
    BY <1>1, <1>2 DEF TopicIndex

LEMMA IndexIsTopicSetNext ==
    ASSUME TypeOK', HubsExact'
    PROVE  TopicIndex' = topicSet'
<1>1. \A g \in Groups : TopicIndex'[g] = topicSet'[g]
    BY DEF TypeOK, HubsExact, TopicIndex
<1>2. topicSet' = [g \in Groups |-> topicSet'[g]]
    BY DEF TypeOK
<1> QED
    BY <1>1, <1>2 DEF TopicIndex

LEMMA ApartStutters ==
    ASSUME Apart
    PROVE  UNCHANGED Promise!vars
<1>1. TopicIndex' = TopicIndex
    BY DEF Apart, TopicIndex
<1> QED
    BY <1>1 DEF Apart, Promise!vars, TopicIndex

LEMMA AddAliasConnJoins ==
    ASSUME IInv, IInv', NEW l \in Loops, AddAliasConn(l)
    PROVE  Promise!Next
<1>0. l \in Threads /\ pc[l] = "addAliasConn" /\ UNCHANGED <<session, warned, mu>>
    BY DEF AddAliasConn, Threads
<1>1. at[l] \in Conns /\ Stage(at[l]) = "addAliasConn"
    BY <1>0, Holder DEF Critical, AddLabels, RemoveLabels
<1>c. PICK c \in Conns : c = at[l]
    BY <1>1
<1>2. session[c] \in Sessions /\ c \notin warned /\ session[c] # NoSession
    <2>1. connState[c] \in {"Init", "Authed", "Closing", "Closed"}
        BY DEF IInv, TypeOK
    <2>2. connState[c] = "Authed"
        BY <2>1, <1>1, <1>c DEF IInv, Progress, RemoveLabels
    <2> QED
        BY <2>2, <1>1, <1>c, NamesAssumption DEF IInv, Progress, AddLabels
<1>s. PICK s \in Sessions : s = session[c]
    BY <1>2
<1>g. PICK g \in Groups : g = Group(s)
    BY GroupOfSession
<1>3. s.topic \in Topics
    BY ConstantsAssumption
<1>4. Stage(c)' = "addConn" /\ OthersUnmoved(c)
    BY <1>0, <1>c, StageGoes DEF AddAliasConn, Critical, AddLabels, RemoveLabels
<1>5. /\ hubConns' = [hubConns EXCEPT ![g] = @ \union {c}]
      /\ topicSet' = [topicSet EXCEPT ![g] = @ \union {s.topic}]
    BY <1>c, <1>s, <1>g DEF AddAliasConn, SubscribeTopic
<1>6. \A j \in EverJoined : j[1] # c
    BY <1>1, <1>c DEF EverJoined
<1>7. EverJoined' = EverJoined \union {<<c, g, s.topic>>}
    <2>1. {d \in Conns : Joined(d)'} = {d \in Conns : Joined(d)} \union {c}
        BY <1>0, <1>2, <1>4 DEF Joined, OthersUnmoved
    <2>2. EverJoined = {<<d, Group(session[d]), session[d].topic>> : d \in {e \in Conns : Joined(e)}}
        BY DEF EverJoined, Joined
    <2>3. EverJoined' = {<<d, Group(session[d]), session[d].topic>> : d \in {e \in Conns : Joined(e)'}}
        BY <1>0 DEF EverJoined, Joined, Group
    <2> DEFINE S == {d \in Conns : Joined(d)}
    <2>4. EverJoined' = {<<d, Group(session[d]), session[d].topic>> : d \in S \union {c}}
        BY <2>1, <2>3
    <2>5. EverJoined = {<<d, Group(session[d]), session[d].topic>> : d \in S}
        BY <2>2
    <2> HIDE DEF S
    <2> QED
        BY <2>4, <2>5, <1>s, <1>g
<1>8. TopicIndex' = [TopicIndex EXCEPT ![g] = @ \union {s.topic}]
    BY <1>5, IndexIsTopicSet, IndexIsTopicSetNext DEF IInv
<1>9. Promise!Join(c, g, s.topic)
    BY <1>5, <1>6, <1>7, <1>8 DEF Promise!Join, TopicIndex
<1> QED
    BY <1>3, <1>9 DEF Promise!Next

LEMMA RemoveAliasConnLeaves ==
    ASSUME IInv, IInv', NEW t \in Threads, RemoveAliasConn(t)
    PROVE  Promise!Next \/ UNCHANGED Promise!vars
<1>0. pc[t] = "removeAliasConn" /\ UNCHANGED <<session, warned, mu>> /\ Goto(t, "removeConn")
    BY DEF RemoveAliasConn
<1>1. at[t] \in Conns /\ Stage(at[t]) = "removeAliasConn"
    BY <1>0, Holder DEF Critical, AddLabels, RemoveLabels
<1>c. PICK c \in Conns : c = at[t]
    BY <1>1
<1>2. session[c] \in Sessions
    <2>1. connState[c] \in {"Init", "Authed", "Closing", "Closed"}
        BY DEF IInv, TypeOK
    <2> QED
        BY <2>1, <1>1, <1>c DEF IInv, Progress, AddLabels
<1>g. PICK g \in Groups : g = Group(session[c])
    BY <1>2, GroupOfSession
<1>3. EverJoined' = EverJoined
    <2>1. Stage(c)' = "removeConn" /\ OthersUnmoved(c) /\ Stage(c) = "removeAliasConn"
        BY <1>0, <1>c, StageGoes DEF Critical, AddLabels, RemoveLabels
    <2>2. (Joined(c)' <=> Joined(c)) /\ Elsewhere(c)
        BY <1>0, <2>1 DEF Joined, Elsewhere
    <2> QED
        BY <1>0, <2>2, JoinedAt
<1>4. /\ g \in aliasHub <=> hubConns[g] # {}
      /\ hubConns \in [Groups -> SUBSET Conns] /\ topicSet \in [Groups -> SUBSET Topics]
    BY DEF IInv, TypeOK, HubsExact
<1>5. CASE c \notin hubConns[g]
    <2>1. UNCHANGED <<hubConns, topicAliasInfoMap>>
        <3>1. CASE g \notin aliasHub
            BY <3>1, <1>c, <1>g DEF RemoveAliasConn, hubs
        <3>2. CASE g \in aliasHub
            <4>1. hubConns[g] \ {c} # {} /\ hubConns[g] \ {c} = hubConns[g]
                BY <3>2, <1>4, <1>5
            <4>2. /\ hubConns' = [hubConns EXCEPT ![g] = @ \ {c}]
                  /\ topicAliasInfoMap' = topicAliasInfoMap
                BY <3>2, <4>1, <1>c, <1>g DEF RemoveAliasConn, NoneLeft
            <4> QED
                BY <4>1, <4>2, <1>4
        <3> QED
            BY <3>1, <3>2
    <2> QED
        BY <2>1, <1>3, ApartStutters DEF Apart
<1>6. CASE c \in hubConns[g]
    <2>1. g \in aliasHub
        BY <1>4, <1>6
    <2>2. /\ hubConns' = [hubConns EXCEPT ![g] = @ \ {c}]
          /\ topicSet' = IF hubConns[g] \ {c} = {} THEN [topicSet EXCEPT ![g] = {}] ELSE topicSet
        BY <2>1, <1>c, <1>g DEF RemoveAliasConn, NoneLeft
    <2>3. hubConns[g] \ {c} = {} <=> hubConns[g] = {c}
        BY <1>6
    <2>4. topicSet' = [topicSet EXCEPT ![g] = IF hubConns[g] = {c} THEN {} ELSE @]
        BY <2>2, <2>3, <1>4
    <2>5. TopicIndex' = [TopicIndex EXCEPT ![g] = IF hubConns[g] = {c} THEN {} ELSE @]
        BY <2>4, IndexIsTopicSet, IndexIsTopicSetNext DEF IInv
    <2>6. Promise!Leave(c, g)
        BY <1>3, <1>6, <2>2, <2>5 DEF Promise!Leave, TopicIndex
    <2> QED
        BY <2>6 DEF Promise!Next
<1> QED
    BY <1>5, <1>6

LEMMA NextImplements ==
    ASSUME IInv, IInv', [Next]_vars
    PROVE  [Promise!Next]_Promise!vars
<1>a. ASSUME Apart PROVE [Promise!Next]_Promise!vars
    BY <1>a, ApartStutters
<1>q. ASSUME Quiet PROVE [Promise!Next]_Promise!vars
    BY <1>a, <1>q, QuietApart
<1> USE DEF Critical, AddLabels, RemoveLabels
<1>1. ASSUME NEW c \in Conns, Event(c) PROVE Quiet
    BY <1>1, OnOpenedQuiet, SocketClosesQuiet, ReactBeforeUpgradeQuiet, OnFrameQuiet,
       PingFailsQuiet, HeartbeatRemoveConnQuiet DEF Event
<1>2. ASSUME NEW l \in Loops, LoopStep(l) PROVE [Promise!Next]_Promise!vars
    <2>a. l \in Threads
        BY DEF Threads
    <2>1. CASE OnClosed(l) \/ OnAuthRequest(l) \/ Upgrade(l)
        BY <2>1, <1>q, OnClosedQuiet, OnAuthRequestQuiet, UpgradeQuiet
    <2>2. CASE (\E s \in Sessions : SetAuthed(l, s)) \/ AddConnID(l)
        BY <2>2, <1>a, SetAuthedApart, AddConnIDApart
    <2>3. CASE AddAliasConn(l)
        BY <2>3, AddAliasConnJoins
    <2>4. CASE AddConn(l)
        BY <2>a, <2>4, <1>a, GoesApart DEF AddConn, hubs
    <2>5. CASE ConnectCallback(l)
        BY <2>a, <2>5, <1>a, FreedApart DEF ConnectCallback, registries
    <2> QED
        BY <1>2, <2>1, <2>2, <2>3, <2>4, <2>5 DEF LoopStep
<1>3. ASSUME NEW h \in Handlers, HandlerStep(h) PROVE Quiet
    BY <1>3, OnRequestQuiet, ReadSessionQuiet, DispatchQuiet DEF HandlerStep
<1>4. ASSUME NEW t \in Threads, CloseStep(t) PROVE [Promise!Next]_Promise!vars
    <2>1. CASE CloseInit(t) \/ CloseAuthed(t)
        BY <2>1, <1>a, CloseInitApart, CloseAuthedApart
    <2>2. CASE CloseAgain(t)
        BY <2>2, <1>q, CloseAgainQuiet
    <2>3. CASE RemoveConnID(t)
        BY <2>3, <1>a, GoesApart DEF RemoveConnID, hubs
    <2>4. CASE RemoveAliasConn(t)
        BY <2>4, RemoveAliasConnLeaves
    <2>5. CASE RemoveConn(t)
        BY <2>5, <1>a, GoesApart DEF RemoveConn, hubs
    <2>6. CASE DisconnectCallback(t)
        BY <2>6, <1>a, GoesApart DEF DisconnectCallback, registries
    <2>7. CASE CloseNetwork(t)
        BY <2>7, <1>a, FreedApart DEF CloseNetwork, registries
    <2> QED
        BY <1>4, <2>1, <2>2, <2>3, <2>4, <2>5, <2>6, <2>7 DEF CloseStep
<1>5. CASE AllGone \/ UNCHANGED vars
    <2>1. UNCHANGED <<session, warned, mu, pc, hubConns, topicAliasInfoMap>>
        BY <1>5 DEF AllGone, vars, registries
    <2>2. \A d \in Conns : Joined(d)' <=> Joined(d)
        BY <2>1 DEF Joined, Stage
    <2> QED
        BY <2>1, <2>2, <1>a, JoinedAlike DEF Apart
<1> QED
    BY <1>1, <1>2, <1>3, <1>4, <1>5, <1>q DEF Next

\* The broker implements Presence: with all its locks, threads and failures, a
\* user is present exactly from the addAliasConn of its first connection to
\* the removeAliasConn of its last, with its topics, and no connection joins
\* twice (group.go, hub.go).
THEOREM PresenceImplemented == Spec => ImplementsPresence
<1>1. Init => Promise!Init
    <2> SUFFICES ASSUME Init PROVE Promise!Init
        OBVIOUS
    <2>1. TopicIndex = [g \in Groups |-> {}]
        BY DEF Init, TopicIndex
    <2>2. EverJoined = {}
        BY DEF Init, EverJoined
    <2> QED
        BY <2>1, <2>2 DEF Init, Promise!Init, TopicIndex
<1>2. IInv /\ IInv' /\ [Next]_vars => [Promise!Next]_Promise!vars
    BY NextImplements
<1> QED
    BY <1>1, <1>2, Invariant, PTL DEF Spec, ImplementsPresence, Promise!Spec

(***************************************************************************)
(* Frames in work                                                          *)
(***************************************************************************)
Workers(c) == {h \in Handlers : at[h] = c}

\* InflightExact with what makes it inductive: an idle goroutine is at no
\* connection, and those at a connection can be counted.
Counted ==
    /\ \A h \in Handlers : pc[h] = "idle" => at[h] = NoConn
    /\ \A c \in Conns : /\ IsFiniteSet(Workers(c)) /\ inflight[c] = Cardinality(Workers(c))
                        /\ inflight[c] < MaxInflight

\* A step that neither starts nor ends a goroutine of a frame.
WorkUnmoved ==
    /\ inflight' = inflight
    /\ \A h \in Handlers : at'[h] = at[h] /\ (pc'[h] = "idle" => pc[h] = "idle")

LEMMA WorkUnmovedKeeps ==
    ASSUME Counted, WorkUnmoved
    PROVE  Counted'
<1>1. \A c : Workers(c)' = Workers(c)
    BY DEF WorkUnmoved, Workers
<1> QED
    BY <1>1 DEF Counted, WorkUnmoved

\* onFrame starts a goroutine, below the limit.
LEMMA WorkStarts ==
    ASSUME IInv, Counted, NEW c \in Conns, NEW h \in Handlers, pc[h] = "idle",
           Begin(h, c, "onRequest"), inflight[c] + 1 < MaxInflight,
           inflight' = [inflight EXCEPT ![c] = @ + 1]
    PROVE  Counted'
<1>0. h \in Threads /\ Handlers \subseteq Threads /\ at[h] = NoConn /\ NoConn \notin Conns
    BY NamesAssumption DEF Threads, Counted
<1>1. /\ at'[h] = c /\ pc'[h] = "onRequest"
      /\ \A u \in Handlers \ {h} : at'[u] = at[u] /\ pc'[u] = pc[u]
      /\ inflight'[c] = inflight[c] + 1 /\ \A d \in Conns \ {c} : inflight'[d] = inflight[d]
    BY <1>0 DEF IInv, TypeOK, Begin
<1>2. \A d \in Conns \ {c} : Workers(d)' = Workers(d)
    BY <1>0, <1>1 DEF Workers
<1>3. Workers(c)' = Workers(c) \union {h} /\ h \notin Workers(c)
    BY <1>0, <1>1 DEF Workers
<1>4. IsFiniteSet(Workers(c)') /\ Cardinality(Workers(c)') = Cardinality(Workers(c)) + 1
    BY <1>3, FS_AddElement DEF Counted
<1> QED
    BY <1>0, <1>1, <1>2, <1>4 DEF Counted

\* The goroutine ends and takes its frame off the count.
LEMMA WorkEnds ==
    ASSUME IInv, Counted, NEW h \in Handlers, NEW c \in Conns, at[h] = c, Finish(h), DecInflight(c)
    PROVE  Counted'
<1>0. h \in Threads /\ Handlers \subseteq Threads /\ NoConn \notin Conns
    BY NamesAssumption DEF Threads
<1>1. /\ at'[h] = NoConn
      /\ \A u \in Handlers \ {h} : at'[u] = at[u] /\ pc'[u] = pc[u]
      /\ inflight'[c] = inflight[c] - 1 /\ \A d \in Conns \ {c} : inflight'[d] = inflight[d]
    BY <1>0 DEF IInv, TypeOK, Begin, Finish, DecInflight
<1>2. \A d \in Conns \ {c} : Workers(d)' = Workers(d)
    BY <1>0, <1>1 DEF Workers
<1>3. Workers(c)' = Workers(c) \ {h} /\ h \in Workers(c)
    BY <1>0, <1>1 DEF Workers
<1>4. IsFiniteSet(Workers(c)') /\ Cardinality(Workers(c)') = Cardinality(Workers(c)) - 1
    BY <1>3, FS_RemoveElement DEF Counted
<1>5. inflight[c] \in Int /\ MaxInflight \in Nat
    BY ConstantsAssumption DEF IInv, TypeOK
<1> QED
    BY <1>0, <1>1, <1>2, <1>4, <1>5 DEF Counted

\* The other threads do not touch the goroutines of frames.
LEMMA OthersLeaveWork ==
    ASSUME IInv, NEW t \in Threads \ Handlers, NEW label, inflight' = inflight,
           Goto(t, label) \/ \E c : Begin(t, c, label)
    PROVE  WorkUnmoved
BY DEF IInv, TypeOK, Threads, Goto, Begin, WorkUnmoved

\* A goroutine that goes on.
LEMMA WorkGoesOn ==
    ASSUME IInv, NEW t \in Threads, NEW label, label # "idle", inflight' = inflight, Goto(t, label)
    PROVE  WorkUnmoved
BY DEF IInv, TypeOK, Threads, Goto, WorkUnmoved

LEMMA CloseReturnsCounts ==
    ASSUME IInv, Counted, NEW t \in Threads, NEW c \in Conns, at[t] = c, CloseReturns(t, c)
    PROVE  Counted'
<1> USE NamesAssumption
<1>1. CASE t \in Loops /\ UNCHANGED inflight /\ (Goto(t, "upgrade") \/ Finish(t))
    <2>1. t \in Threads \ Handlers
        BY <1>1
    <2> QED
        BY <1>1, <2>1, OthersLeaveWork, WorkUnmovedKeeps DEF Finish
<1>2. CASE t \in Handlers /\ DecInflight(c) /\ Finish(t)
    BY <1>2, WorkEnds
<1>3. CASE t = Timer /\ UNCHANGED inflight /\ Finish(t)
    <2>1. t \in Threads \ Handlers
        BY <1>3
    <2> QED
        BY <1>3, <2>1, OthersLeaveWork, WorkUnmovedKeeps DEF Finish
<1> QED
    BY <1>1, <1>2, <1>3 DEF CloseReturns

LEMMA NextCounts ==
    ASSUME IInv, Counted, [Next]_vars
    PROVE  Counted'
<1> USE ConstantsAssumption, NamesAssumption
<1>u. ASSUME WorkUnmoved PROVE Counted'
    BY <1>u, WorkUnmovedKeeps
<1>t. /\ Timer \in Threads \ Handlers /\ \A l \in Loops : l \in Threads \ Handlers
      /\ \A c \in Conns : LoopOf[c] \in Threads \ Handlers
    BY DEF Threads
<1>n. ASSUME UNCHANGED <<inflight, pc, at>> PROVE WorkUnmoved
    BY <1>n DEF WorkUnmoved
<1>1. ASSUME NEW c \in Conns, Event(c) PROVE Counted'
    <2>1. CASE OnOpened(c)
        BY <2>1, <1>u, <1>t, <1>n, OthersLeaveWork DEF OnOpened
    <2>2. CASE SocketCloses(c)
        BY <2>2, <1>u, <1>t, OthersLeaveWork DEF SocketCloses
    <2>3. CASE ReactBeforeUpgrade(c)
        BY <2>3, <1>u, <1>t, OthersLeaveWork DEF ReactBeforeUpgrade
    <2>4. CASE OnFrame(c)
        BY <2>4, <1>u, <1>n, WorkStarts DEF OnFrame
    <2>5. CASE PingFails(c)
        BY <2>5, <1>u, <1>t, OthersLeaveWork DEF PingFails
    <2>6. CASE HeartbeatRemoveConn(c)
        BY <2>6, <1>u, <1>n DEF HeartbeatRemoveConn
    <2> QED
        BY <1>1, <2>1, <2>2, <2>3, <2>4, <2>5, <2>6 DEF Event
<1>2. ASSUME NEW l \in Loops, LoopStep(l) PROVE WorkUnmoved
    <2>1. /\ inflight' = inflight
          /\ \E label : Goto(l, label) \/ \E c : Begin(l, c, label)
        BY <1>2 DEF LoopStep, OnClosed, OnAuthRequest, SetAuthed, AddConnID, AddAliasConn,
                    AddConn, ConnectCallback, Upgrade, Finish
    <2> QED
        BY <2>1, <1>t, OthersLeaveWork
<1>3. ASSUME NEW h \in Handlers, HandlerStep(h) PROVE Counted'
    <2>a. h \in Threads
        BY DEF Threads
    <2>1. CASE OnRequest(h) \/ ReadSession(h)
        BY <2>a, <2>1, <1>u, WorkGoesOn DEF OnRequest, ReadSession
    <2>2. CASE Dispatch(h)
        BY <2>a, <2>2, AtConn, WorkEnds DEF Dispatch
    <2> QED
        BY <1>3, <2>1, <2>2 DEF HandlerStep
<1>4. ASSUME NEW t \in Threads, CloseStep(t) PROVE Counted'
    <2>1. CASE CloseInit(t)
        BY <2>1, AtConn, CloseReturnsCounts DEF CloseInit
    <2>2. CASE CloseAgain(t)
        BY <2>2, AtConn, CloseReturnsCounts DEF CloseAgain
    <2>3. CASE CloseNetwork(t)
        BY <2>3, AtConn, CloseReturnsCounts DEF CloseNetwork
    <2>4. CASE CloseAuthed(t)
        BY <2>4, <1>u, WorkGoesOn DEF CloseAuthed
    <2>5. CASE RemoveConnID(t)
        BY <2>5, <1>u, WorkGoesOn DEF RemoveConnID
    <2>6. CASE RemoveAliasConn(t)
        BY <2>6, <1>u, WorkGoesOn DEF RemoveAliasConn
    <2>7. CASE RemoveConn(t)
        BY <2>7, <1>u, WorkGoesOn DEF RemoveConn
    <2>8. CASE DisconnectCallback(t)
        BY <2>8, <1>u, WorkGoesOn DEF DisconnectCallback
    <2> QED
        BY <1>4, <2>1, <2>2, <2>3, <2>4, <2>5, <2>6, <2>7, <2>8 DEF CloseStep
<1>5. CASE AllGone \/ UNCHANGED vars
    BY <1>5, <1>u, <1>n DEF AllGone, vars
<1> QED
    BY <1>1, <1>2, <1>3, <1>4, <1>5, <1>u DEF Next

\* inflightInboundMessageCount is exact and stays below the limit, whichever
\* goroutine closes the connection in between (conn_handler.go:32-56).
THEOREM InflightIsExact == Spec => []InflightExact
<1>1. Init => Counted
    <2> SUFFICES ASSUME Init PROVE Counted
        OBVIOUS
    <2>1. \A c \in Conns : Workers(c) = {}
        BY NamesAssumption DEF Init, Workers, Threads
    <2>2. IsFiniteSet({}) /\ Cardinality({}) = 0
        BY FS_EmptySet
    <2>3. \A c \in Conns : inflight[c] = 0 /\ 0 < MaxInflight
        BY ConstantsAssumption DEF Init
    <2>4. \A h \in Handlers : at[h] = NoConn
        BY DEF Init, Threads
    <2> QED
        BY <2>1, <2>2, <2>3, <2>4 DEF Counted
<1>2. IInv /\ Counted /\ [Next]_vars => Counted'
    BY NextCounts
<1>3. Counted => InflightExact
    BY DEF Counted, InflightExact, Workers
<1> QED
    BY <1>1, <1>2, <1>3, Invariant, PTL DEF Spec

(***************************************************************************)
(* Who may be where: frames are worked on only after the upgrade, and the  *)
(* upgrade follows authentication on the connection's own event loop.      *)
(***************************************************************************)
Authenticating == AddLabels \union {"auth", "setAuthed", "upgrade"}
Closing == RemoveLabels \union {"close"}

PhaseOf(t) ==
    /\ pc[t] \in Authenticating => t \in Loops /\ ~upgraded[at[t]]
    /\ t \in Loops =>
           /\ at[t] \in Conns => t = LoopOf[at[t]]
           /\ pc[t] \in Closing /\ netState[at[t]] = "open" => ~upgraded[at[t]]
    /\ t \in Handlers =>
           /\ pc[t] # "idle" => upgraded[at[t]]
           /\ pc[t] \in {"readSession", "dispatch"} => session[at[t]] # NoSession

Phases == \A t \in Threads : PhaseOf(t)

\* A session stays once it is there.
SessionsStay == \A c \in Conns : session[c] # NoSession => session'[c] # NoSession

\* A step of one thread that leaves the sockets alone.
LEMMA PhasesMove ==
    ASSUME IInv, Phases, NEW t \in Threads, OnlyMoves(t), UNCHANGED <<netState, upgraded>>,
           SessionsStay, PhaseOf(t)'
    PROVE  Phases'
<1> SUFFICES ASSUME NEW u \in Threads, u # t PROVE PhaseOf(u)'
    BY DEF Phases
<1>1. pc'[u] = pc[u] /\ at'[u] = at[u] /\ PhaseOf(u) /\ (pc[u] # "idle" => at[u] \in Conns)
    BY DEF OnlyMoves, Phases, IInv, MutualExclusion
<1>2. /\ pc[u] \in Authenticating => u \in Loops /\ ~upgraded[at[u]]
      /\ u \in Loops => /\ at[u] \in Conns => u = LoopOf[at[u]]
                        /\ pc[u] \in Closing /\ netState[at[u]] = "open" => ~upgraded[at[u]]
      /\ u \in Handlers => (pc[u] # "idle" => upgraded[at[u]])
    BY <1>1 DEF PhaseOf
<1>3. u \in Handlers => (pc[u] \in {"readSession", "dispatch"} => session'[at[u]] # NoSession)
    BY <1>1 DEF PhaseOf, SessionsStay
<1> QED
    BY <1>1, <1>2, <1>3 DEF PhaseOf

\* In particular one that goes on at its connection.
LEMMA PhasesGoto ==
    ASSUME IInv, Phases, NEW t \in Threads, pc[t] # "idle", NEW label \in Labels, Goto(t, label),
           UNCHANGED <<netState, upgraded>>, SessionsStay,
           label \in Authenticating => pc[t] \in Authenticating,
           label \in Closing => pc[t] \in Authenticating \union Closing,
           t \in Handlers /\ label \in {"readSession", "dispatch"} => session'[at[t]] # NoSession
    PROVE  Phases'
<1>1. OnlyMoves(t) /\ pc'[t] = label /\ at'[t] = at[t] /\ PhaseOf(t)
    BY GotoMoves DEF Phases
<1>2. PhaseOf(t)'
    BY <1>1 DEF PhaseOf
<1> QED
    BY <1>1, <1>2, PhasesMove

\* Close returns to onAuthRequest only if it was called from there.
LEMMA PhasesReturn ==
    ASSUME IInv, Phases, NEW t \in Threads, NEW c \in Conns, c = at[t], pc[t] \in Closing,
           CloseReturns(t, c), UNCHANGED <<netState, upgraded, session>>
    PROVE  Phases'
<1>0. /\ pc[t] # "idle" /\ PhaseOf(t) /\ SessionsStay /\ NoConn \notin Conns
      /\ Loops \intersect Handlers = {} /\ Timer \notin Loops \union Handlers
    BY NamesAssumption DEF Closing, RemoveLabels, Phases, SessionsStay
<1>1. CASE t \in Loops /\ netState[c] = "open" /\ Goto(t, "upgrade")
    <2>1. OnlyMoves(t) /\ pc'[t] = "upgrade" /\ at'[t] = at[t]
        BY <1>0, <1>1, GotoMoves DEF Labels
    <2>2. PhaseOf(t)'
        BY <1>0, <1>1, <2>1 DEF PhaseOf, Closing, RemoveLabels
    <2> QED
        BY <1>0, <2>1, <2>2, PhasesMove
<1>2. CASE Finish(t)
    <2>1. OnlyMoves(t) /\ pc'[t] = "idle" /\ at'[t] = NoConn
        BY <1>2, FinishMoves DEF Finish, Begin, IInv, TypeOK
    <2>2. PhaseOf(t)'
        BY <1>0, <2>1 DEF PhaseOf, Closing, Authenticating, AddLabels, RemoveLabels
    <2> QED
        BY <1>0, <2>1, <2>2, PhasesMove
<1> QED
    BY <1>1, <1>2 DEF CloseReturns

\* Something wakes an idle thread.
LEMMA PhasesBegin ==
    ASSUME IInv, Phases, NEW t \in Threads, NEW c \in Conns, NEW label \in Labels, Begin(t, c, label),
           UNCHANGED <<netState, upgraded, session>>,
           label \in Authenticating \union Closing /\ t # Timer => ~upgraded[c],
           label \in Authenticating => t \in Loops,
           t \in Loops => t = LoopOf[c],
           t \in Handlers => upgraded[c] /\ label \notin {"readSession", "dispatch"}
    PROVE  Phases'
<1>1. OnlyMoves(t) /\ pc'[t] = label /\ at'[t] = c
    BY DEF IInv, TypeOK, Begin, OnlyMoves
<1>2. PhaseOf(t)' /\ SessionsStay
    BY <1>1, NamesAssumption DEF PhaseOf, SessionsStay
<1> QED
    BY <1>1, <1>2, PhasesMove

LEMMA OnOpenedPhases ==
    ASSUME IInv, Phases, NEW c \in Conns, OnOpened(c)
    PROVE  Phases'
<1> USE ConstantsAssumption, NamesAssumption
<1> DEFINE l == LoopOf[c]
<1>0. /\ l \in Loops /\ l \in Threads /\ pc[l] = "idle" /\ UNCHANGED <<upgraded, session>>
      /\ netState' = [netState EXCEPT ![c] = "open"]
      /\ UNCHANGED <<pc, at>> \/ Begin(l, c, "onClosed")
    BY DEF OnOpened, LoopFree, Threads
<1>1. \A d \in Conns \ {c} : netState'[d] = netState[d]
    BY <1>0 DEF IInv, TypeOK
<1>2. /\ \A u \in Threads \ {l} : pc'[u] = pc[u] /\ at'[u] = at[u]
      /\ \/ pc'[l] = "idle" /\ at'[l] = at[l]
         \/ pc'[l] = "onClosed" /\ at'[l] = c
    BY <1>0 DEF IInv, TypeOK, Begin
<1>3. \A u \in Threads : PhaseOf(u) /\ (pc[u] # "idle" => at[u] \in Conns)
    BY DEF Phases, IInv, MutualExclusion
<1>4. PhaseOf(l)'
    BY <1>0, <1>2, <1>3 DEF PhaseOf, Authenticating, Closing, AddLabels, RemoveLabels
<1> HIDE DEF l
<1>5. ASSUME NEW u \in Threads, u # l PROVE PhaseOf(u)'
    <2>1. pc'[u] = pc[u] /\ at'[u] = at[u] /\ PhaseOf(u)
        BY <1>2, <1>3, <1>5
    <2>2. u \in Loops /\ at[u] \in Conns => at[u] # c
        BY <2>1, <1>5 DEF PhaseOf, l
    <2>3. pc[u] \in Closing => at[u] \in Conns
        BY <1>3 DEF Closing, RemoveLabels
    <2>4. u \in Loops /\ pc[u] \in Closing => netState'[at[u]] = netState[at[u]]
        BY <2>2, <2>3, <1>1
    <2> QED
        BY <2>1, <2>4, <1>0 DEF PhaseOf
<1> QED
    BY <1>4, <1>5 DEF Phases

LEMMA OnClosedPhases ==
    ASSUME IInv, Phases, NEW l \in Loops, OnClosed(l)
    PROVE  Phases'
<1> USE ConstantsAssumption, NamesAssumption
<1>0. /\ l \in Threads /\ pc[l] = "onClosed" /\ UNCHANGED <<upgraded, session>>
      /\ Goto(l, "close") \/ Finish(l)
    BY DEF OnClosed, Threads
<1>c. PICK c \in Conns : c = at[l]
    BY <1>0, AtConn
<1>1. netState'[c] = "closed" /\ \A d \in Conns \ {c} : netState'[d] = netState[d]
    BY <1>c DEF OnClosed, IInv, TypeOK
<1>2. /\ \A u \in Threads \ {l} : pc'[u] = pc[u] /\ at'[u] = at[u]
      /\ \/ pc'[l] = "idle" /\ at'[l] = NoConn
         \/ pc'[l] = "close" /\ at'[l] = c
    BY <1>0, <1>c DEF IInv, TypeOK, Begin, Finish, Goto
<1>3. \A u \in Threads : PhaseOf(u) /\ (pc[u] # "idle" => at[u] \in Conns)
    BY DEF Phases, IInv, MutualExclusion
<1>4. PhaseOf(l)'
    BY <1>0, <1>c, <1>1, <1>2, <1>3 DEF PhaseOf, Authenticating, Closing, AddLabels, RemoveLabels
<1>5. ASSUME NEW u \in Threads, u # l PROVE PhaseOf(u)'
    <2>1. pc'[u] = pc[u] /\ at'[u] = at[u] /\ PhaseOf(u)
        BY <1>2, <1>3, <1>5
    <2>2. pc[u] \in Closing => at[u] \in Conns
        BY <1>3 DEF Closing, RemoveLabels
    <2>3. pc[u] \in Closing /\ netState'[at[u]] = "open" => netState[at[u]] = "open"
        BY <2>2, <1>1
    <2> QED
        BY <2>1, <2>3, <1>0 DEF PhaseOf
<1> QED
    BY <1>4, <1>5 DEF Phases

LEMMA UpgradePhases ==
    ASSUME IInv, Phases, NEW l \in Loops, Upgrade(l)
    PROVE  Phases'
<1> USE ConstantsAssumption, NamesAssumption
<1>0. l \in Threads /\ pc[l] = "upgrade" /\ UNCHANGED <<netState, session>>
    BY DEF Upgrade, Threads
<1>c. PICK c \in Conns : c = at[l]
    BY <1>0, AtConn
<1>1. CASE Goto(l, "onClosed") /\ UNCHANGED upgraded
    BY <1>0, <1>1, PhasesGoto
    DEF SessionsStay, Labels, Authenticating, Closing, AddLabels, RemoveLabels
<1>2. CASE upgraded' = [upgraded EXCEPT ![c] = TRUE] /\ Finish(l)
    <2>1. upgraded'[c] = TRUE /\ \A d \in Conns \ {c} : upgraded'[d] = upgraded[d]
        BY <1>2 DEF IInv, TypeOK
    <2>2. /\ \A u \in Threads \ {l} : pc'[u] = pc[u] /\ at'[u] = at[u]
          /\ pc'[l] = "idle" /\ at'[l] = NoConn
        BY <1>0, <1>2 DEF IInv, TypeOK, Begin, Finish
    <2>3. \A u \in Threads : PhaseOf(u) /\ (pc[u] # "idle" => at[u] \in Conns)
        BY DEF Phases, IInv, MutualExclusion
    <2>4. PhaseOf(l)'
        BY <2>2 DEF PhaseOf, Authenticating, Closing, AddLabels, RemoveLabels
    <2>5. ASSUME NEW u \in Threads, u # l PROVE PhaseOf(u)'
        <3>1. pc'[u] = pc[u] /\ at'[u] = at[u] /\ PhaseOf(u)
            BY <2>2, <2>3, <2>5
        <3>2. l = LoopOf[c]
            BY <2>3, <1>0, <1>c DEF PhaseOf
        <3>3. u \in Loops /\ at[u] \in Conns => at[u] # c
            BY <3>1, <3>2, <2>5 DEF PhaseOf
        <3>4. pc[u] \in Authenticating \union Closing => at[u] \in Conns
            BY <2>3 DEF Authenticating, Closing, AddLabels, RemoveLabels
        <3>5. u \in Loops /\ pc[u] \in Authenticating \union Closing => upgraded'[at[u]] = upgraded[at[u]]
            BY <3>3, <3>4, <2>1
        <3>6. pc[u] # "idle" /\ upgraded[at[u]] => upgraded'[at[u]]
            BY <2>1, <2>3
        <3>7. pc[u] \in Authenticating => u \in Loops /\ ~upgraded'[at[u]]
            BY <3>1, <3>5 DEF PhaseOf
        <3>8. u \in Loops => /\ at[u] \in Conns => u = LoopOf[at[u]]
                             /\ pc[u] \in Closing /\ netState[at[u]] = "open" => ~upgraded'[at[u]]
            BY <3>1, <3>5 DEF PhaseOf
        <3>9. u \in Handlers => /\ pc[u] # "idle" => upgraded'[at[u]]
                                /\ pc[u] \in {"readSession", "dispatch"} => session[at[u]] # NoSession
            BY <3>1, <3>6 DEF PhaseOf
        <3> QED
            BY <3>1, <3>7, <3>8, <3>9, <1>0 DEF PhaseOf
    <2> QED
        BY <2>4, <2>5 DEF Phases
<1> QED
    BY <1>1, <1>2, <1>c DEF Upgrade

LEMMA SessionsStayNext ==
    ASSUME IInv, [Next]_vars
    PROVE  SessionsStay
<1>1. ASSUME session' = session PROVE SessionsStay
    BY <1>1 DEF SessionsStay
<1>2. ASSUME NEW l \in Loops, NEW s \in Sessions, SetAuthed(l, s) PROVE SessionsStay
    <2>1. session' = session \/ session' = [session EXCEPT ![at[l]] = s]
        BY <1>2 DEF SetAuthed
    <2> QED
        BY <2>1, NamesAssumption DEF SessionsStay, IInv, TypeOK
<1>3. CASE UNCHANGED vars
    BY <1>1, <1>3 DEF vars
<1>4. CASE ~\E l \in Loops, s \in Sessions : SetAuthed(l, s)
    BY <1>1, <1>3, <1>4 DEF Next, Event, LoopStep, HandlerStep, CloseStep, AllGone, vars, OnOpened,
       SocketCloses, ReactBeforeUpgrade, OnFrame, PingFails, HeartbeatRemoveConn, OnClosed,
       OnAuthRequest, AddConnID, AddAliasConn, AddConn, ConnectCallback, Upgrade, OnRequest,
       ReadSession, Dispatch, CloseInit, CloseAuthed, CloseAgain, RemoveConnID, RemoveAliasConn,
       RemoveConn, DisconnectCallback, CloseNetwork
<1> QED
    BY <1>2, <1>4

LEMMA NextPhases ==
    ASSUME IInv, Phases, [Next]_vars
    PROVE  Phases'
<1> USE ConstantsAssumption, NamesAssumption
<1>s. SessionsStay
    BY SessionsStayNext
<1>l. \A label \in Critical \union {"auth", "setAuthed", "upgrade", "close", "onClosed", "onRequest",
                                   "readSession", "dispatch"} :
        /\ label \in Labels /\ label # "idle"
        /\ label \in Authenticating <=> label \in AddLabels \/ label \in {"auth", "setAuthed", "upgrade"}
        /\ label \in Closing <=> label \in RemoveLabels \/ label = "close"
    BY DEF Labels, Critical, Authenticating, Closing, AddLabels, RemoveLabels
<1>t. Timer \in Threads /\ Loops \subseteq Threads /\ Handlers \subseteq Threads
    BY DEF Threads
<1>1. ASSUME NEW c \in Conns, Event(c) PROVE Phases'
    <2>0. LoopOf[c] \in Loops
        OBVIOUS
    <2>1. CASE OnOpened(c)
        BY <2>1, OnOpenedPhases
    <2>2. CASE SocketCloses(c)
        BY <2>0, <2>2, <1>l, <1>t, PhasesBegin DEF SocketCloses, sockets, AddLabels, RemoveLabels
    <2>3. CASE ReactBeforeUpgrade(c)
        BY <2>0, <2>3, <1>l, <1>t, PhasesBegin DEF ReactBeforeUpgrade, sockets, AddLabels, RemoveLabels
    <2>4. CASE OnFrame(c)
        <3>1. CASE UNCHANGED <<pc, at>>
            BY <2>4, <3>1 DEF OnFrame, sockets, Phases, PhaseOf
        <3>2. ASSUME NEW h \in Handlers, Begin(h, c, "onRequest") PROVE Phases'
            BY <2>4, <3>2, <1>l, <1>t, PhasesBegin DEF OnFrame, sockets, AddLabels, RemoveLabels
        <3> QED
            BY <2>4, <3>1, <3>2 DEF OnFrame
    <2>5. CASE PingFails(c)
        BY <2>5, <1>l, <1>t, PhasesBegin DEF PingFails, sockets, AddLabels, RemoveLabels
    <2>6. CASE HeartbeatRemoveConn(c)
        BY <2>6 DEF HeartbeatRemoveConn, sockets, Phases, PhaseOf
    <2> QED
        BY <1>1, <2>1, <2>2, <2>3, <2>4, <2>5, <2>6 DEF Event
<1>2. ASSUME NEW l \in Loops, LoopStep(l) PROVE Phases'
    <2>1. CASE OnClosed(l)
        BY <2>1, OnClosedPhases
    <2>2. CASE Upgrade(l)
        BY <2>2, UpgradePhases
    <2>3. CASE OnAuthRequest(l)
        BY <2>3, <1>s, <1>l, <1>t, PhasesGoto DEF OnAuthRequest, sockets, AddLabels, RemoveLabels
    <2>4. CASE \E s \in Sessions : SetAuthed(l, s)
        BY <2>4, <1>s, <1>l, <1>t, PhasesGoto DEF SetAuthed, sockets, Critical, AddLabels, RemoveLabels
    <2>5. CASE AddConnID(l)
        BY <2>5, <1>s, <1>l, <1>t, PhasesGoto DEF AddConnID, sockets, Critical, AddLabels, RemoveLabels
    <2>6. CASE AddAliasConn(l)
        BY <2>6, <1>s, <1>l, <1>t, PhasesGoto DEF AddAliasConn, sockets, Critical, AddLabels, RemoveLabels
    <2>7. CASE AddConn(l)
        BY <2>7, <1>s, <1>l, <1>t, PhasesGoto DEF AddConn, sockets, Critical, AddLabels, RemoveLabels
    <2>8. CASE ConnectCallback(l)
        BY <2>8, <1>s, <1>l, <1>t, PhasesGoto DEF ConnectCallback, sockets, Critical, AddLabels, RemoveLabels
    <2> QED
        BY <1>2, <2>1, <2>2, <2>3, <2>4, <2>5, <2>6, <2>7, <2>8 DEF LoopStep
<1>3. ASSUME NEW h \in Handlers, HandlerStep(h) PROVE Phases'
    <2>1. CASE OnRequest(h)
        <3>1. at[h] \in Conns /\ pc[h] = "onRequest" /\ UNCHANGED <<netState, upgraded, session>>
            BY <2>1, <1>t, AtConn DEF OnRequest, sockets
        <3>2. connState[at[h]] = "Authed" => session[at[h]] # NoSession
            BY <3>1 DEF IInv, Progress
        <3>3. CASE Goto(h, "readSession") /\ connState[at[h]] = "Authed"
            BY <3>1, <3>2, <3>3, <1>s, <1>l, <1>t, PhasesGoto DEF AddLabels, RemoveLabels
        <3>4. CASE Goto(h, "close")
            <4>1. OnlyMoves(h) /\ pc'[h] = "close" /\ at'[h] = at[h] /\ PhaseOf(h)
                BY <3>1, <3>4, <1>l, <1>t, GotoMoves DEF Phases
            <4>2. PhaseOf(h)'
                BY <3>1, <4>1, <1>l DEF PhaseOf, AddLabels
            <4> QED
                BY <3>1, <4>1, <4>2, <1>s, <1>t, PhasesMove
        <3> QED
            BY <2>1, <3>3, <3>4 DEF OnRequest
    <2>2. CASE ReadSession(h)
        <3>1. at[h] \in Conns /\ pc[h] = "readSession" /\ PhaseOf(h)
            BY <2>2, <1>t, AtConn DEF ReadSession, Phases
        <3> QED
            BY <2>2, <3>1, <1>s, <1>l, <1>t, PhasesGoto
            DEF ReadSession, sockets, PhaseOf, AddLabels, RemoveLabels
    <2>3. CASE Dispatch(h)
        <3>1. OnlyMoves(h) /\ pc'[h] = "idle" /\ at'[h] = NoConn
            BY <2>3, <1>t, FinishMoves DEF Dispatch, Finish, Begin, IInv, TypeOK
        <3>2. PhaseOf(h)'
            BY <3>1 DEF PhaseOf, Authenticating, AddLabels
        <3> QED
            BY <2>3, <3>1, <3>2, <1>s, <1>t, PhasesMove DEF Dispatch, sockets
    <2> QED
        BY <1>3, <2>1, <2>2, <2>3 DEF HandlerStep
<1>4. ASSUME NEW t \in Threads, CloseStep(t) PROVE Phases'
    <2>1. CASE CloseInit(t)
        BY <2>1, <1>l, AtConn, PhasesReturn DEF CloseInit
    <2>2. CASE CloseAgain(t)
        BY <2>2, <1>l, AtConn, PhasesReturn DEF CloseAgain, sockets
    <2>3. CASE CloseNetwork(t)
        BY <2>3, <1>l, AtConn, PhasesReturn DEF CloseNetwork, Critical, RemoveLabels
    <2>4. CASE CloseAuthed(t)
        BY <2>4, <1>s, <1>l, PhasesGoto DEF CloseAuthed, sockets, Critical, AddLabels, RemoveLabels
    <2>5. CASE RemoveConnID(t)
        BY <2>5, <1>s, <1>l, PhasesGoto DEF RemoveConnID, sockets, Critical, AddLabels, RemoveLabels
    <2>6. CASE RemoveAliasConn(t)
        BY <2>6, <1>s, <1>l, PhasesGoto DEF RemoveAliasConn, sockets, Critical, AddLabels, RemoveLabels
    <2>7. CASE RemoveConn(t)
        BY <2>7, <1>s, <1>l, PhasesGoto DEF RemoveConn, sockets, Critical, AddLabels, RemoveLabels
    <2>8. CASE DisconnectCallback(t)
        BY <2>8, <1>s, <1>l, PhasesGoto DEF DisconnectCallback, sockets, Critical, AddLabels, RemoveLabels
    <2> QED
        BY <1>4, <2>1, <2>2, <2>3, <2>4, <2>5, <2>6, <2>7, <2>8 DEF CloseStep
<1>5. CASE AllGone \/ UNCHANGED vars
    BY <1>5 DEF AllGone, vars, sockets, Phases, PhaseOf
<1> QED
    BY <1>1, <1>2, <1>3, <1>4, <1>5 DEF Next

(***************************************************************************)
(* The order of the callbacks                                              *)
(***************************************************************************)
\* The callbacks sent so far, by how far the connection has come: none before
\* connectCallback, Connect first from then on if the session has a callback
\* url, no Disconnect before disconnectCallback.
BeforeDisconnect(c) ==
    connState[c] \in {"Init", "Authed"} \/ (connState[c] = "Closing" /\ Stage(c) # "closeNetwork")

CallbacksFit(c) ==
    /\ session[c] = NoSession => callbacks[c] = <<>>
    /\ c \notin warned /\ Stage(c) \in AddLabels => callbacks[c] = <<>>
    /\ c \notin warned /\ session[c] # NoSession /\ Stage(c) \notin AddLabels /\ session[c].callback
           => callbacks[c] # <<>> /\ callbacks[c][1] = "Connect"
    /\ session[c] # NoSession /\ ~session[c].callback => callbacks[c] = <<>>
    /\ c \notin warned => \A i \in 1 .. Len(callbacks[c]) : callbacks[c][i] = "Connect" => i = 1
    /\ BeforeDisconnect(c) => \A i \in 1 .. Len(callbacks[c]) : callbacks[c][i] # "Disconnect"
    /\ \A i, j \in 1 .. Len(callbacks[c]) :
           callbacks[c][i] = "Disconnect" /\ callbacks[c][j] = "Disconnect" => i = j

CallbackInv == \A c \in Conns : CallbacksFit(c)

\* A connection a step does not concern.
LEMMA CallbacksKept ==
    ASSUME NEW c \in Conns, CallbacksFit(c), Stage(c)' = Stage(c),
           session'[c] = session[c], c \in warned' <=> c \in warned,
           connState'[c] = connState[c], callbacks'[c] = callbacks[c]
    PROVE  CallbacksFit(c)'
BY DEF CallbacksFit, BeforeDisconnect

\* Without a callback yet there is nothing to get wrong, up to connectCallback.
LEMMA CallbacksEmpty ==
    ASSUME NEW c \in Conns, callbacks'[c] = <<>>,
           c \in warned' \/ session'[c] = NoSession \/ Stage(c)' \in AddLabels
    PROVE  CallbacksFit(c)'
<1>1. Len(<<>>) = 0 /\ 1 .. 0 = {}
    OBVIOUS
<1> QED
    BY <1>1 DEF CallbacksFit

\* A step at c, with what it does to the others.
LEMMA CallbacksAt ==
    ASSUME CallbackInv, NEW c \in Conns, Elsewhere(c), CallbacksFit(c)',
           \A d \in Conns \ {c} : connState'[d] = connState[d] /\ callbacks'[d] = callbacks[d]
    PROVE  CallbackInv'
<1> SUFFICES ASSUME NEW d \in Conns, d # c PROVE CallbacksFit(d)'
    BY DEF CallbackInv
<1>1. CallbacksFit(d) /\ Stage(d)' = Stage(d) /\ session'[d] = session[d] /\ (d \in warned' <=> d \in warned)
    BY DEF CallbackInv, Elsewhere, OthersUnmoved
<1> QED
    BY <1>1, CallbacksKept

\* A quiet step that sends no callback.
LEMMA QuietCallbacks ==
    ASSUME IInv, CallbackInv, Quiet, callbacks' = callbacks
    PROVE  CallbackInv'
<1> SUFFICES ASSUME NEW c \in Conns PROVE CallbacksFit(c)'
    BY DEF CallbackInv
<1>1. CallbacksFit(c) /\ Stage(c)' = Stage(c) /\ session' = session /\ warned' = warned /\ connState' = connState
    BY OutsideStages DEF CallbackInv, Quiet
<1> QED
    BY <1>1, CallbacksKept

\* callbackHandler appends, or does nothing for a session without a url.
LEMMA CallbackAppends ==
    ASSUME TypeOK, NEW c \in Conns, NEW ty \in {"Connect", "Receive", "Disconnect"}, Callback(c, ty)
    PROVE  /\ \A d \in Conns \ {c} : callbacks'[d] = callbacks[d]
           /\ session[c].callback =>
                /\ Len(callbacks'[c]) = Len(callbacks[c]) + 1 /\ Len(callbacks[c]) \in Nat
                /\ callbacks'[c] # <<>>
                /\ \A i \in 1 .. Len(callbacks[c]) : callbacks'[c][i] = callbacks[c][i]
                /\ callbacks'[c][Len(callbacks[c]) + 1] = ty
           /\ ~session[c].callback => callbacks'[c] = callbacks[c]
<1>1. callbacks \in [Conns -> Seq({"Connect", "Receive", "Disconnect"})]
    BY DEF TypeOK
<1>2. callbacks'[c] = IF session[c].callback THEN Append(callbacks[c], ty) ELSE callbacks[c]
    BY <1>1 DEF Callback
<1>3. callbacks[c] \in Seq({"Connect", "Receive", "Disconnect"})
    BY <1>1
<1>4. \A d \in Conns \ {c} : callbacks'[d] = callbacks[d]
    BY <1>1 DEF Callback
<1> QED
    BY <1>2, <1>3, <1>4

LEMMA DispatchCallbacks ==
    ASSUME IInv, Phases, CallbackInv, NEW h \in Handlers, Dispatch(h)
    PROVE  CallbackInv'
<1> USE NamesAssumption
<1>0. Quiet /\ h \in Threads /\ pc[h] = "dispatch"
    BY DispatchQuiet DEF Dispatch, Threads
<1>c. PICK c \in Conns : c = at[h]
    BY <1>0, AtConn
<1>1. upgraded[c] /\ session[c] # NoSession
    BY <1>0, <1>c DEF Phases, PhaseOf
<1>2. Stage(c) \notin AddLabels
    <2> SUFFICES ASSUME Stage(c) \in AddLabels PROVE FALSE
        OBVIOUS
    <2>1. mu[c] \in Threads /\ pc[mu[c]] \in AddLabels /\ mu[c] # NoThread
        BY DEF Stage, AddLabels, IInv, TypeOK
    <2>2. at[mu[c]] = c
        BY <2>1 DEF IInv, MutualExclusion
    <2>3. ~upgraded[at[mu[c]]]
        BY <2>1 DEF Phases, PhaseOf, Authenticating
    <2> QED
        BY <2>2, <2>3, <1>1
<1>3. CASE UNCHANGED callbacks
    BY <1>0, <1>3, QuietCallbacks
<1>4. CASE Callback(c, "Receive")
    <2>1. \A d \in Conns : /\ Stage(d)' = Stage(d) /\ session'[d] = session[d]
                           /\ (d \in warned' <=> d \in warned) /\ connState'[d] = connState[d]
        BY <1>0, OutsideStages DEF Quiet
    <2>2. Elsewhere(c) /\ CallbacksFit(c)
        BY <2>1 DEF Elsewhere, OthersUnmoved, CallbackInv
    <2>3. CallbacksFit(c)'
        <3>1. CASE ~session[c].callback
            BY <1>4, <2>1, <2>2, <3>1, CallbackAppends, CallbacksKept DEF IInv
        <3>2. CASE session[c].callback
            <4> DEFINE n == Len(callbacks[c])
            <4>1. /\ Len(callbacks'[c]) = n + 1 /\ n \in Nat /\ callbacks'[c] # <<>>
                  /\ \A i \in 1 .. n : callbacks'[c][i] = callbacks[c][i]
                  /\ callbacks'[c][n + 1] = "Receive"
                BY <1>4, <3>2, CallbackAppends DEF IInv
            <4>2. c \notin warned => n # 0 /\ callbacks[c][1] = "Connect"
                <5>1. callbacks[c] \in Seq({"Connect", "Receive", "Disconnect"})
                    BY DEF IInv, TypeOK
                <5>2. c \notin warned => callbacks[c] # <<>> /\ callbacks[c][1] = "Connect"
                    BY <1>1, <1>2, <2>2, <3>2 DEF CallbacksFit
                <5> QED
                    BY <5>1, <5>2
            <4> HIDE DEF n
            <4>3. 1 .. Len(callbacks'[c]) = 1 .. n \union {n + 1}
                BY <4>1
            <4>4. c \notin warned => callbacks'[c][1] = "Connect"
                BY <4>1, <4>2
            <4>5. c \notin warned => \A i \in 1 .. n : callbacks[c][i] = "Connect" => i = 1
                BY <2>2 DEF CallbacksFit, n
            <4>6. BeforeDisconnect(c) => \A i \in 1 .. n : callbacks[c][i] # "Disconnect"
                BY <2>2 DEF CallbacksFit, n
            <4>7. \A i, j \in 1 .. n :
                      callbacks[c][i] = "Disconnect" /\ callbacks[c][j] = "Disconnect" => i = j
                BY <2>2 DEF CallbacksFit, n
            <4>8. c \notin warned =>
                      \A i \in 1 .. Len(callbacks'[c]) : callbacks'[c][i] = "Connect" => i = 1
                BY <4>1, <4>3, <4>5
            <4>9. BeforeDisconnect(c) => \A i \in 1 .. Len(callbacks'[c]) : callbacks'[c][i] # "Disconnect"
                BY <4>1, <4>3, <4>6
            <4>10. \A i, j \in 1 .. Len(callbacks'[c]) :
                      callbacks'[c][i] = "Disconnect" /\ callbacks'[c][j] = "Disconnect" => i = j
                BY <4>1, <4>3, <4>7
            <4> QED
                BY <1>1, <1>2, <2>1, <3>2, <4>1, <4>4, <4>8, <4>9, <4>10
                DEF CallbacksFit, BeforeDisconnect
        <3> QED
            BY <3>1, <3>2
    <2>4. \A d \in Conns \ {c} : callbacks'[d] = callbacks[d]
        BY <1>4, CallbackAppends DEF IInv
    <2> QED
        BY <2>1, <2>2, <2>3, <2>4, CallbacksAt
<1> QED
    BY <1>3, <1>4, <1>c DEF Dispatch

\* A step of setAuthed or Close at c that sends nothing.
LEMMA SectionCallbacks ==
    ASSUME CallbackInv, NEW c \in Conns, Elsewhere(c), callbacks' = callbacks,
           \A d \in Conns \ {c} : connState'[d] = connState[d],
           session'[c] = session[c], c \in warned' <=> c \in warned,
           Stage(c)' \in AddLabels <=> Stage(c) \in AddLabels,
           BeforeDisconnect(c)' => BeforeDisconnect(c)
    PROVE  CallbackInv'
<1>1. CallbacksFit(c)
    BY DEF CallbackInv
<1>2. CallbacksFit(c)'
    BY <1>1 DEF CallbacksFit
<1> QED
    BY <1>2, CallbacksAt

\* One that goes from label to label.
LEMMA GoesCallbacks ==
    ASSUME IInv, CallbackInv, NEW t \in Threads, pc[t] \in Critical, NEW label \in Critical, Goto(t, label),
           UNCHANGED <<mu, session, warned, connState, callbacks>>,
           label \in AddLabels <=> pc[t] \in AddLabels, pc[t] # "closeNetwork"
    PROVE  CallbackInv'
<1>1. PICK c : c = at[t]
    OBVIOUS
<1>2. /\ c \in Conns /\ Stage(c) = pc[t] /\ Stage(c)' = label /\ OthersUnmoved(c)
    BY <1>1, StageGoes
<1>3. Elsewhere(c) /\ (BeforeDisconnect(c)' => BeforeDisconnect(c))
    BY <1>2 DEF Elsewhere, BeforeDisconnect
<1> QED
    BY <1>2, <1>3, SectionCallbacks

LEMMA SetAuthedCallbacks ==
    ASSUME IInv, CallbackInv, NEW l \in Loops, NEW s \in Sessions, SetAuthed(l, s)
    PROVE  CallbackInv'
<1> USE ConstantsAssumption, NamesAssumption
<1>0. l \in Threads /\ at[l] \in Conns /\ pc[l] = "setAuthed" /\ callbacks' = callbacks
    BY AtConn DEF SetAuthed, Threads
<1>1. ASSUME NEW c \in Conns, c = at[l], connState[c] = "Init"
      PROVE  CallbackInv'
    <2>1. /\ mu[c] = NoThread /\ mu' = [mu EXCEPT ![c] = l]
          /\ session' = [session EXCEPT ![c] = s] /\ connState' = [connState EXCEPT ![c] = "Authed"]
          /\ Goto(l, "addConnID") /\ warned' = warned
        BY <1>1 DEF SetAuthed, Unlocked
    <2>2. OnlyMoves(l) /\ pc'[l] = "addConnID" /\ at'[l] = c
        BY <1>0, <1>1, <2>1, GotoMoves DEF Labels, Critical, AddLabels, RemoveLabels
    <2>3. Stage(c)' = "addConnID" /\ OthersUnmoved(c)
        BY <1>0, <1>1, <2>1, <2>2, Enter DEF Critical, AddLabels, RemoveLabels
    <2>4. callbacks[c] = <<>>
        BY <1>1 DEF IInv, Progress, CallbackInv, CallbacksFit
    <2>5. CallbacksFit(c)'
        BY <1>0, <2>3, <2>4, CallbacksEmpty DEF AddLabels
    <2>6. Elsewhere(c) /\ \A d \in Conns \ {c} : connState'[d] = connState[d]
        BY <2>1, <2>3 DEF Elsewhere, IInv, TypeOK
    <2> QED
        BY <1>0, <2>5, <2>6, CallbacksAt
<1>2. CASE connState[at[l]] # "Init"
    <2>1. MovesOutside
        BY <1>0, <1>2, GotoMovesOutside DEF SetAuthed, Labels, Critical, AddLabels, RemoveLabels
    <2>2. Quiet
        BY <1>2, <2>1 DEF Quiet, SetAuthed, registries
    <2> QED
        BY <2>2, <1>0, QuietCallbacks
<1> QED
    BY <1>0, <1>1, <1>2

LEMMA AddConnIDCallbacks ==
    ASSUME IInv, CallbackInv, NEW l \in Loops, AddConnID(l)
    PROVE  CallbackInv'
<1> USE DEF Critical, AddLabels, RemoveLabels
<1>0. l \in Threads /\ pc[l] = "addConnID" /\ UNCHANGED <<session, connState, callbacks>>
    BY DEF AddConnID, Threads
<1>1. PICK c : c = at[l]
    OBVIOUS
<1>2. CASE Goto(l, "addAliasConn") /\ UNCHANGED <<mu, warned>>
    BY <1>0, <1>2, GoesCallbacks
<1>3. CASE /\ warned' = warned \union {c} /\ mu' = [mu EXCEPT ![c] = NoThread]
           /\ Goto(l, "upgrade")
    <2>1. /\ c \in Conns /\ Stage(c) = "addConnID" /\ Stage(c)' = "free" /\ OthersUnmoved(c)
        BY <1>0, <1>1, <1>3, StageFreed
    <2>2. Elsewhere(c)
        BY <1>0, <1>3, <2>1 DEF Elsewhere
    <2>3. c \notin warned
        BY <2>1 DEF IInv, Progress
    <2>4. callbacks[c] = <<>>
        BY <2>1, <2>3 DEF CallbackInv, CallbacksFit
    <2>5. CallbacksFit(c)'
        BY <1>0, <1>3, <2>1, <2>4, CallbacksEmpty
    <2> QED
        BY <1>0, <2>1, <2>2, <2>5, CallbacksAt
<1> QED
    BY <1>1, <1>2, <1>3 DEF AddConnID

\* Connect is the first callback.
LEMMA ConnectCallbackCallbacks ==
    ASSUME IInv, CallbackInv, NEW l \in Loops, ConnectCallback(l)
    PROVE  CallbackInv'
<1> USE DEF Critical, AddLabels, RemoveLabels
<1>0. l \in Threads /\ pc[l] = "connectCallback" /\ UNCHANGED <<session, connState, warned>>
    BY DEF ConnectCallback, Threads
<1>1. PICK c : c = at[l]
    OBVIOUS
<1>2. /\ c \in Conns /\ Stage(c) = "connectCallback" /\ Stage(c)' = "free" /\ OthersUnmoved(c)
    BY <1>0, <1>1, StageFreed DEF ConnectCallback
<1>3. c \notin warned /\ session[c] \in Sessions /\ session[c] # NoSession /\ callbacks[c] = <<>>
    <2>1. connState[c] \in {"Init", "Authed", "Closing", "Closed"}
        BY <1>2 DEF IInv, TypeOK
    <2>2. c \notin warned /\ session[c] \in Sessions
        BY <1>2, <2>1 DEF IInv, Progress
    <2> QED
        BY <1>2, <2>2, NamesAssumption DEF CallbackInv, CallbacksFit
<1>4. Callback(c, "Connect")
    BY <1>1 DEF ConnectCallback
<1>5. Elsewhere(c) /\ \A d \in Conns \ {c} : callbacks'[d] = callbacks[d]
    BY <1>0, <1>2, <1>4, CallbackAppends DEF Elsewhere, IInv
<1>6. Len(<<>>) = 0 /\ 1 .. 0 = {} /\ 1 .. 1 = {1}
    OBVIOUS
<1>7. CallbacksFit(c)'
    <2>1. CASE session[c].callback
        <3>1. Len(callbacks'[c]) = 1 /\ callbacks'[c] # <<>> /\ callbacks'[c][1] = "Connect"
            <4>1. /\ Len(callbacks'[c]) = Len(callbacks[c]) + 1 /\ callbacks'[c] # <<>>
                  /\ callbacks'[c][Len(callbacks[c]) + 1] = "Connect"
                BY <2>1, <1>2, <1>4, CallbackAppends DEF IInv
            <4>2. Len(callbacks[c]) = 0
                BY <1>3, <1>6
            <4>3. Len(callbacks[c]) + 1 = 1
                BY <4>2
            <4> QED
                BY <4>1, <4>3
        <3> QED
            BY <2>1, <3>1, <1>0, <1>2, <1>3, <1>6 DEF CallbacksFit
    <2>2. CASE ~session[c].callback
        <3>1. callbacks'[c] = <<>>
            BY <2>2, <1>2, <1>3, <1>4, CallbackAppends DEF IInv
        <3> QED
            BY <2>2, <3>1, <1>0, <1>2, <1>3, <1>6 DEF CallbacksFit
    <2> QED
        BY <2>1, <2>2
<1> QED
    BY <1>0, <1>2, <1>5, <1>7, CallbacksAt

LEMMA CloseInitCallbacks ==
    ASSUME IInv, CallbackInv, NEW t \in Threads, CloseInit(t)
    PROVE  CallbackInv'
<1>0. at[t] \in Conns /\ pc[t] = "close"
    BY AtConn DEF CloseInit
<1>1. /\ UNCHANGED <<session, mu, warned, callbacks>> /\ OnlyMoves(t) /\ pc'[t] \notin Critical
      /\ connState' = [connState EXCEPT ![at[t]] = "Closed"]
    BY <1>0, CloseReturnsMoves DEF CloseInit
<1>m. MovesOutside
    BY <1>0, <1>1 DEF IInv, MutualExclusion, OnlyMoves, MovesOutside, Critical, AddLabels, RemoveLabels
<1>2. \A c \in Conns : Stage(c)' = Stage(c)
    BY <1>m, <1>1, OutsideStages
<1>c. PICK c \in Conns : c = at[t]
    BY <1>0
<1>3. connState'[c] = "Closed" /\ \A d \in Conns \ {c} : connState'[d] = connState[d]
    BY <1>1, <1>c DEF IInv, TypeOK
<1>4. Elsewhere(c) /\ ~BeforeDisconnect(c)'
    BY <1>1, <1>2, <1>3 DEF Elsewhere, OthersUnmoved, BeforeDisconnect
<1> QED
    BY <1>1, <1>2, <1>3, <1>4, SectionCallbacks

LEMMA CloseAuthedCallbacks ==
    ASSUME IInv, CallbackInv, NEW t \in Threads, CloseAuthed(t)
    PROVE  CallbackInv'
<1>0. at[t] \in Conns /\ pc[t] = "close"
    BY AtConn DEF CloseAuthed
<1>1. PICK c \in Conns : c = at[t]
    BY <1>0
<1>2. /\ mu[c] = NoThread /\ mu' = [mu EXCEPT ![c] = t] /\ connState[c] = "Authed"
      /\ connState' = [connState EXCEPT ![c] = "Closing"]
      /\ UNCHANGED <<session, warned, callbacks>>
      /\ \E label \in {"removeConnID", "closeNetwork"} : Goto(t, label)
    BY <1>1 DEF CloseAuthed, Unlocked
<1>3. PICK label \in {"removeConnID", "closeNetwork"} : Goto(t, label)
    BY <1>2
<1>4. OnlyMoves(t) /\ pc'[t] = label /\ at'[t] = c
    BY <1>0, <1>1, <1>3, GotoMoves DEF Labels, Critical, AddLabels, RemoveLabels
<1>5. Stage(c)' = label /\ OthersUnmoved(c) /\ Stage(c) = "free"
    BY <1>0, <1>1, <1>2, <1>4, Enter DEF Critical, AddLabels, RemoveLabels, Stage
<1>6. Elsewhere(c) /\ BeforeDisconnect(c) /\ \A d \in Conns \ {c} : connState'[d] = connState[d]
    BY <1>2, <1>5 DEF Elsewhere, BeforeDisconnect, IInv, TypeOK
<1> QED
    BY <1>2, <1>5, <1>6, SectionCallbacks DEF AddLabels

\* The only Disconnect, behind whatever was sent before.
LEMMA DisconnectCallbackCallbacks ==
    ASSUME IInv, CallbackInv, NEW t \in Threads, DisconnectCallback(t)
    PROVE  CallbackInv'
<1> USE DEF Critical, AddLabels, RemoveLabels
<1>0. pc[t] = "disconnectCallback" /\ UNCHANGED <<session, connState, warned, mu>>
    BY DEF DisconnectCallback
<1>1. PICK c : c = at[t]
    OBVIOUS
<1>2. /\ c \in Conns /\ Stage(c) = "disconnectCallback" /\ Stage(c)' = "closeNetwork" /\ OthersUnmoved(c)
    BY <1>0, <1>1, StageGoes DEF DisconnectCallback
<1>3. connState[c] = "Closing" /\ session[c] \in Sessions /\ session[c] # NoSession
    <2>1. connState[c] \in {"Init", "Authed", "Closing", "Closed"}
        BY <1>2 DEF IInv, TypeOK
    <2> QED
        BY <1>2, <2>1, NamesAssumption DEF IInv, Progress
<1>4. Callback(c, "Disconnect")
    BY <1>1 DEF DisconnectCallback
<1>5. Elsewhere(c) /\ \A d \in Conns \ {c} : callbacks'[d] = callbacks[d]
    BY <1>0, <1>2, <1>4, CallbackAppends DEF Elsewhere, IInv
<1>6. CallbacksFit(c) /\ BeforeDisconnect(c) /\ ~BeforeDisconnect(c)'
    BY <1>0, <1>2, <1>3 DEF CallbackInv, BeforeDisconnect
<1>7. CallbacksFit(c)'
    <2>1. CASE ~session[c].callback
        <3>1. callbacks'[c] = callbacks[c]
            BY <2>1, <1>2, <1>4, CallbackAppends DEF IInv
        <3> QED
            BY <2>1, <3>1, <1>0, <1>2, <1>3, <1>6 DEF CallbacksFit
    <2>2. CASE session[c].callback
        <3> DEFINE n == Len(callbacks[c])
        <3>1. /\ Len(callbacks'[c]) = n + 1 /\ n \in Nat /\ callbacks'[c] # <<>>
              /\ \A i \in 1 .. n : callbacks'[c][i] = callbacks[c][i]
              /\ callbacks'[c][n + 1] = "Disconnect"
            BY <2>2, <1>2, <1>4, CallbackAppends DEF IInv
        <3>2. c \notin warned => n # 0 /\ callbacks[c][1] = "Connect"
            <4>1. callbacks[c] \in Seq({"Connect", "Receive", "Disconnect"})
                BY <1>2 DEF IInv, TypeOK
            <4>2. c \notin warned => callbacks[c] # <<>> /\ callbacks[c][1] = "Connect"
                BY <2>2, <1>2, <1>3, <1>6 DEF CallbacksFit
            <4> QED
                BY <4>1, <4>2
        <3>3. /\ c \notin warned => \A i \in 1 .. n : callbacks[c][i] = "Connect" => i = 1
              /\ \A i \in 1 .. n : callbacks[c][i] # "Disconnect"
            BY <1>6 DEF CallbacksFit
        <3> HIDE DEF n
        <3>4. 1 .. Len(callbacks'[c]) = 1 .. n \union {n + 1}
            BY <3>1
        <3>5. c \notin warned => callbacks'[c][1] = "Connect"
            BY <3>1, <3>2
        <3>6. c \notin warned =>
                  \A i \in 1 .. Len(callbacks'[c]) : callbacks'[c][i] = "Connect" => i = 1
            BY <3>1, <3>3, <3>4
        <3>7. \A i, j \in 1 .. Len(callbacks'[c]) :
                  callbacks'[c][i] = "Disconnect" /\ callbacks'[c][j] = "Disconnect" => i = j
            BY <3>1, <3>3, <3>4
        <3> QED
            BY <2>2, <3>1, <3>5, <3>6, <3>7, <1>0, <1>2, <1>3, <1>6 DEF CallbacksFit
    <2> QED
        BY <2>1, <2>2
<1> QED
    BY <1>0, <1>2, <1>5, <1>7, CallbacksAt

LEMMA CloseNetworkCallbacks ==
    ASSUME IInv, CallbackInv, NEW t \in Threads, CloseNetwork(t)
    PROVE  CallbackInv'
<1> USE DEF Critical, AddLabels, RemoveLabels
<1>0. pc[t] = "closeNetwork" /\ UNCHANGED <<session, warned, callbacks>>
    BY DEF CloseNetwork
<1>1. PICK c : c = at[t]
    OBVIOUS
<1>2. /\ c \in Conns /\ Stage(c) = "closeNetwork" /\ Stage(c)' = "free" /\ OthersUnmoved(c)
    BY <1>0, <1>1, StageFreed DEF CloseNetwork
<1>3. connState'[c] = "Closed" /\ \A d \in Conns \ {c} : connState'[d] = connState[d]
    BY <1>1, <1>2 DEF CloseNetwork, IInv, TypeOK
<1>4. Elsewhere(c) /\ ~BeforeDisconnect(c)'
    BY <1>0, <1>2, <1>3 DEF Elsewhere, BeforeDisconnect
<1> QED
    BY <1>0, <1>2, <1>3, <1>4, SectionCallbacks

LEMMA NextCallbacks ==
    ASSUME IInv, Phases, CallbackInv, [Next]_vars
    PROVE  CallbackInv'
<1> USE DEF Critical, AddLabels, RemoveLabels
<1>1. ASSUME NEW c \in Conns, Event(c) PROVE CallbackInv'
    <2>1. Quiet
        BY <1>1, OnOpenedQuiet, SocketClosesQuiet, ReactBeforeUpgradeQuiet, OnFrameQuiet,
           PingFailsQuiet, HeartbeatRemoveConnQuiet DEF Event
    <2>2. callbacks' = callbacks
        BY <1>1 DEF Event, OnOpened, SocketCloses, ReactBeforeUpgrade, OnFrame, PingFails, HeartbeatRemoveConn
    <2> QED
        BY <2>1, <2>2, QuietCallbacks
<1>2. ASSUME NEW l \in Loops, LoopStep(l) PROVE CallbackInv'
    <2>a. l \in Threads
        BY DEF Threads
    <2>1. CASE OnClosed(l) \/ OnAuthRequest(l) \/ Upgrade(l)
        <3>1. Quiet
            BY <2>1, OnClosedQuiet, OnAuthRequestQuiet, UpgradeQuiet
        <3>2. callbacks' = callbacks
            BY <2>1 DEF OnClosed, OnAuthRequest, Upgrade
        <3> QED
            BY <3>1, <3>2, QuietCallbacks
    <2>2. CASE (\E s \in Sessions : SetAuthed(l, s)) \/ AddConnID(l) \/ ConnectCallback(l)
        BY <2>2, SetAuthedCallbacks, AddConnIDCallbacks, ConnectCallbackCallbacks
    <2>3. CASE AddAliasConn(l)
        BY <2>a, <2>3, GoesCallbacks DEF AddAliasConn
    <2>4. CASE AddConn(l)
        BY <2>a, <2>4, GoesCallbacks DEF AddConn
    <2> QED
        BY <1>2, <2>1, <2>2, <2>3, <2>4 DEF LoopStep
<1>3. ASSUME NEW h \in Handlers, HandlerStep(h) PROVE CallbackInv'
    <2>1. CASE OnRequest(h) \/ ReadSession(h)
        <3>1. Quiet
            BY <2>1, OnRequestQuiet, ReadSessionQuiet
        <3>2. callbacks' = callbacks
            BY <2>1 DEF OnRequest, ReadSession
        <3> QED
            BY <3>1, <3>2, QuietCallbacks
    <2> QED
        BY <1>3, <2>1, DispatchCallbacks DEF HandlerStep
<1>4. ASSUME NEW t \in Threads, CloseStep(t) PROVE CallbackInv'
    <2>1. CASE CloseInit(t) \/ CloseAuthed(t) \/ DisconnectCallback(t) \/ CloseNetwork(t)
        BY <2>1, CloseInitCallbacks, CloseAuthedCallbacks, DisconnectCallbackCallbacks, CloseNetworkCallbacks
    <2>2. CASE CloseAgain(t)
        BY <2>2, CloseAgainQuiet, QuietCallbacks DEF CloseAgain
    <2>3. CASE RemoveConnID(t)
        BY <2>3, GoesCallbacks DEF RemoveConnID
    <2>4. CASE RemoveAliasConn(t)
        BY <2>4, GoesCallbacks DEF RemoveAliasConn
    <2>5. CASE RemoveConn(t)
        BY <2>5, GoesCallbacks DEF RemoveConn
    <2> QED
        BY <1>4, <2>1, <2>2, <2>3, <2>4, <2>5 DEF CloseStep
<1>5. CASE AllGone \/ UNCHANGED vars
    <2>1. UNCHANGED <<session, warned, mu, pc, connState, callbacks>>
        BY <1>5 DEF AllGone, vars
    <2>2. \A c \in Conns : Stage(c)' = Stage(c)
        BY <2>1 DEF Stage
    <2> QED
        BY <2>1, <2>2, CallbacksKept DEF CallbackInv
<1> QED
    BY <1>1, <1>2, <1>3, <1>4, <1>5 DEF Next

\* The business hears of a connection with Connect before anything else and
\* with Disconnect at most once, though every frame, the event loop and the
\* timer may close the connection (callback.go:18-42, conn.go:372-427).
THEOREM CallbacksInOrder == Spec => []CallbackOrder
<1>1. Init => Phases /\ CallbackInv
    <2> SUFFICES ASSUME Init PROVE Phases /\ CallbackInv
        OBVIOUS
    <2>1. Phases
        BY NamesAssumption DEF Init, Phases, PhaseOf, Authenticating, Closing, AddLabels, RemoveLabels, Threads
    <2>2. ASSUME NEW c \in Conns PROVE CallbacksFit(c)
        <3>1. Len(<<>>) = 0 /\ 1 .. 0 = {}
            OBVIOUS
        <3>2. callbacks[c] = <<>> /\ session[c] = NoSession
            BY <2>2 DEF Init
        <3> QED
            BY <3>1, <3>2 DEF CallbacksFit
    <2> QED
        BY <2>1, <2>2 DEF CallbackInv
<1>2. IInv /\ Phases /\ CallbackInv /\ [Next]_vars => Phases' /\ CallbackInv'
    BY NextPhases, NextCallbacks
<1>3. IInv /\ CallbackInv => CallbackOrder
    <2> SUFFICES ASSUME IInv, CallbackInv, NEW c \in Conns
                 PROVE  /\ Cardinality({i \in 1 .. Len(callbacks[c]) : callbacks[c][i] = "Disconnect"}) <= 1
                        /\ c \notin warned =>
                               {i \in 1 .. Len(callbacks[c]) : callbacks[c][i] = "Connect"} \subseteq {1}
                        /\ callbacks[c] # <<>> /\ c \notin warned => callbacks[c][1] = "Connect"
        BY DEF CallbackOrder
    <2>1. CallbacksFit(c)
        BY DEF CallbackInv
    <2> DEFINE S == {i \in 1 .. Len(callbacks[c]) : callbacks[c][i] = "Disconnect"}
    <2>2. \A i, j \in S : i = j
        BY <2>1 DEF CallbacksFit
    <2>3. Cardinality(S) <= 1
        <3> HIDE DEF S
        <3>1. CASE S = {}
            BY <3>1, FS_EmptySet
        <3>2. ASSUME NEW x \in S PROVE Cardinality(S) <= 1
            <4>1. S = {x}
                BY <2>2, <3>2
            <4> QED
                BY <4>1, FS_Singleton
        <3> QED
            BY <3>1, <3>2
    <2>4. c \notin warned => {i \in 1 .. Len(callbacks[c]) : callbacks[c][i] = "Connect"} \subseteq {1}
        BY <2>1 DEF CallbacksFit
    <2>5. callbacks[c] # <<>> /\ c \notin warned => callbacks[c][1] = "Connect"
        BY <2>1 DEF CallbacksFit
    <2> QED
        BY <2>3, <2>4, <2>5
<1> QED
    BY <1>1, <1>2, <1>3, Invariant, PTL DEF Spec
=============================================================================
