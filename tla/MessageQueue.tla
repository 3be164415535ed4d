---------------------------- MODULE MessageQueue ----------------------------
(***************************************************************************)
(* The kafka queue between the RPC service and the push handlers           *)
(* (repo/mq/kafka). A producer stores a push in one partition of the topic *)
(* of its kind; every node consumes all topics, with a consumer group of   *)
(* its own for each kind. What a handler does with a push is in module     *)
(* Push.                                                                   *)
(*                                                                         *)
(* Kafka and sarama are external: they appear as a log for each partition, *)
(* the committed offsets, sessions that end when the group is rebalanced,  *)
(* and a synchronous send whose attempts may fail before or after the      *)
(* message is stored. A node's id is new with each process, so a node that *)
(* crashed does not come back.                                             *)
(*                                                                         *)
(* A definition that stands right before another and is used nowhere is a  *)
(* faulty variant of it, for testing that a property notices the fault.    *)
(***************************************************************************)
EXTENDS Naturals, Sequences, FiniteSets

CONSTANTS
    Clients,        \* consumers: [node, kind, id]
    Pushes,         \* pushes sent through a node: [kind, id]
    Foreign,        \* messages of other programs that are no PushMessage: [kind, id]
    Partitions,
    None,
    MaxRetry,       \* Producer.Retry.Max of sarama (MaxRetry of config.toml, 3)
    MaxStored,      \* bound: the messages a partition gets
    MaxDisturbances \* bound: rebalances, failed calls of Consume and crashes

Messages == Pushes \cup Foreign
Kinds == {c.kind : c \in Clients} \cup {m.kind : m \in Messages}

ASSUME ConstantsAssumption ==
    /\ None \notin Clients /\ None \notin Partitions /\ Pushes \cap Foreign = {}
    /\ Kinds \subseteq {"alias", "all", "topic"}
    /\ MaxRetry \in Nat /\ MaxStored \in Nat /\ MaxDisturbances \in Nat

VARIABLES
    log,            \* [Kinds -> [Partitions -> Seq(entry)]]
    sent,           \* for each message, what SendBytesMsg has come to (at) and
                    \* the call of SendMessage under way: its retries and partition
    client,         \* "idle" (before or between sessions), "active", "ending", "dead"
    readyClosed,    \* whether the channel consumer.ready is closed
    panicked,       \* close(c.ready) met a closed channel
    claim,          \* for each group and partition, who reads it, and where
    committed,      \* for each group and partition, the next offset; 0: none
    handled,        \* <<node, kind, partition, offset>>: given to the push handler
    disturbances

kafka == <<log, committed>>
vars == <<log, sent, client, readyClosed, panicked, claim, committed, handled, disturbances>>

GroupOfKind(c) == [node |-> None, kind |-> c.kind]
\* The group id is the kind and the node id.
GroupOf(c) == [node |-> c.node, kind |-> c.kind]
Groups == {GroupOf(c) : c \in Clients}
Members(g) == {c \in Clients : GroupOf(c) = g}

\* No call of SendMessage is under way.
NoCall(at) == [at |-> at, retries |-> 0, via |-> None]
NoClaim == [owner |-> None, next |-> 0, busy |-> FALSE, marked |-> 0]

Init ==
    /\ log = [k \in Kinds |-> [p \in Partitions |-> <<>>]]
    /\ sent = [m \in Messages |-> NoCall("new")]
    /\ client = [c \in Clients |-> "idle"]
    /\ readyClosed = [c \in Clients |-> FALSE]
    /\ panicked = FALSE
    /\ claim = [g \in Groups |-> [p \in Partitions |-> NoClaim]]
    /\ committed = [g \in Groups |-> [p \in Partitions |-> 0]]
    /\ handled = {}
    /\ disturbances = 0

Disturbed == disturbances < MaxDisturbances /\ disturbances' = disturbances + 1

(***************************************************************************)
(* Producers                                                               *)
(***************************************************************************)
\* The topic a push goes to. All go through the producer made for alias pushes.
TopicName(kind) == kind

\* An entry of the log. Beside the message it notes the groups that had a
\* position in the partition when it was stored.
Entry(m, p) ==
    [m |-> m, awaited |-> {g \in Groups : g.kind = TopicName(m.kind) /\ committed[g][p] # 0}]

Store(m, p) ==
    /\ Len(log[TopicName(m.kind)][p]) < MaxStored
    /\ log' = [log EXCEPT ![TopicName(m.kind)][p] = Append(@, Entry(m, p))]

\* sarama's SendMessage, one attempt: the message may be stored or not, and its
\* answer may be lost. An error is returned, or the attempt is repeated with
\* the partition of the first; sarama is not asked for idempotence, so that
\* each attempt may leave a copy.
SendMessage(m, p, onNil, onErr) ==
    /\ sent[m].via \in {None, p}
    /\ \/ Store(m, p) /\ sent' = [sent EXCEPT ![m] = NoCall(onNil)]
       \/ /\ Store(m, p) \/ UNCHANGED log
          /\ \/ sent' = [sent EXCEPT ![m] = NoCall(onErr)]
             \/ /\ sent[m].retries < MaxRetry
                /\ sent' = [sent EXCEPT ![m].retries = @ + 1, ![m].via = p]

\* SendBytesMsg, called by SendMessageByUser and SendMessageByTopic: a second
\* call of SendMessage follows a first that failed.
SendBytesMsg(m, p) ==
    /\ sent[m].at = "new"
    /\ SendMessage(m, p, "nil", "again")
    /\ UNCHANGED <<client, readyClosed, panicked, claim, committed, handled, disturbances>>

SendAgainIgnoresErr(m, p) ==
    /\ sent[m].at = "again"
    /\ SendMessage(m, p, "nil", "nil")
    /\ UNCHANGED <<client, readyClosed, panicked, claim, committed, handled, disturbances>>
SendAgain(m, p) ==
    /\ sent[m].at = "again"
    /\ SendMessage(m, p, "nil", "error")
    /\ UNCHANGED <<client, readyClosed, panicked, claim, committed, handled, disturbances>>

\* Another program writes to the topic.
ForeignSends(m, p) ==
    /\ sent[m].at = "new"
    /\ Store(m, p)
    /\ sent' = [sent EXCEPT ![m] = NoCall("nil")]
    /\ UNCHANGED <<client, readyClosed, panicked, claim, committed, handled, disturbances>>

(***************************************************************************)
(* Sessions                                                                *)
(***************************************************************************)
InitialOffsetPastEnd(g, p) ==
    IF committed[g][p] # 0 THEN committed[g][p] ELSE Len(log[g.kind][p]) + 2
\* Where a claim starts: the committed offset, without one at the newest.
InitialOffset(g, p) ==
    IF committed[g][p] # 0 THEN committed[g][p] ELSE Len(log[g.kind][p]) + 1

\* The members S of a group get a session each, with the partitions divided
\* among them; Setup closes the ready channel of each.
StartSessions(g, S) ==
    /\ S # {} /\ \A c \in Members(g) : client[c] \in {"idle", "dead"}
    /\ \A c \in S : client[c] = "idle"
    /\ \E owner \in [Partitions -> S] :
         claim' = [claim EXCEPT ![g] = [p \in Partitions |->
                     [NoClaim EXCEPT !.owner = owner[p], !.next = InitialOffset(g, p)]]]
    /\ client' = [c \in Clients |-> IF c \in S THEN "active" ELSE client[c]]
    /\ panicked' = (panicked \/ \E c \in S : readyClosed[c])
    /\ readyClosed' = [c \in Clients |-> c \in S \/ readyClosed[c]]
    /\ UNCHANGED <<kafka, sent, handled, disturbances>>

\* The group is rebalanced: the contexts of its sessions are cancelled.
Rebalance(g) ==
    /\ Disturbed
    /\ \E c \in Members(g) : client[c] = "active"
    /\ client' = [c \in Clients |->
                    IF c \in Members(g) /\ client[c] = "active" THEN "ending" ELSE client[c]]
    /\ UNCHANGED <<kafka, sent, readyClosed, panicked, claim, handled>>

ConsumeReturnsKeepsReady(c) == UNCHANGED readyClosed
\* The loop of StartConsume makes a new ready channel when Consume returns.
ConsumeReturns(c) == readyClosed' = [readyClosed EXCEPT ![c] = FALSE]

\* A session ends when its claims have returned; what was marked is committed,
\* unless that fails.
EndSession(c) ==
    LET g == GroupOf(c)
        mine == {p \in Partitions : claim[g][p].owner = c}
    IN  /\ client[c] = "ending"
        /\ \A p \in mine : ~claim[g][p].busy
        /\ \/ committed' = [committed EXCEPT ![g] = [p \in Partitions |->
                                IF p \in mine /\ claim[g][p].marked # 0 THEN claim[g][p].marked ELSE @[p]]]
           \/ UNCHANGED committed
        /\ claim' = [claim EXCEPT ![g] = [p \in Partitions |-> IF p \in mine THEN NoClaim ELSE @[p]]]
        /\ client' = [client EXCEPT ![c] = "idle"]
        /\ ConsumeReturns(c)
        /\ UNCHANGED <<log, sent, panicked, handled, disturbances>>

\* Consume fails before Setup: the loop goes on.
ConsumeFails(c) ==
    /\ client[c] = "idle" /\ Disturbed
    /\ ConsumeReturns(c)
    /\ UNCHANGED <<kafka, sent, client, panicked, claim, handled>>

\* sarama commits what is marked from time to time.
AutoCommit(g, p) ==
    /\ claim[g][p].marked \notin {0, committed[g][p]}
    /\ committed' = [committed EXCEPT ![g][p] = claim[g][p].marked]
    /\ UNCHANGED <<log, sent, client, readyClosed, panicked, claim, handled, disturbances>>

Crash(n) ==
    /\ Disturbed
    /\ \E c \in Clients : c.node = n /\ client[c] # "dead"
    /\ client' = [c \in Clients |-> IF c.node = n THEN "dead" ELSE client[c]]
    /\ claim' = [g \in Groups |-> [p \in Partitions |->
                    IF claim[g][p].owner # None /\ claim[g][p].owner.node = n THEN NoClaim ELSE claim[g][p]]]
    /\ UNCHANGED <<kafka, sent, readyClosed, panicked, handled>>

(***************************************************************************)
(* ConsumeClaim                                                            *)
(***************************************************************************)
Reads(g, p) == claim[g][p].owner # None /\ ~claim[g][p].busy /\ claim[g][p].next <= Len(log[g.kind][p])

\* The consumer's handler: a message that can be unmarshalled goes to the push
\* handler, whose errors are only logged.
Delivered(g, p) ==
    IF log[g.kind][p][claim[g][p].next].m \in Foreign THEN {}
    ELSE {<<claim[g][p].owner.node, g.kind, p, claim[g][p].next>>}

HandlerCalled(g, p) ==
    /\ Reads(g, p)
    /\ handled' = handled \cup Delivered(g, p)
    /\ claim' = [claim EXCEPT ![g][p].busy = TRUE]
    /\ UNCHANGED <<kafka, sent, client, readyClosed, panicked, disturbances>>

\* The error of the consumer's handler: alias swallows also what cannot be
\* unmarshalled, the others return it.
HandlerErr(g, p) == log[g.kind][p][claim[g][p].next].m \in Foreign /\ g.kind # "alias"

HandlerReturnsRetries(g, p) ==
    /\ claim[g][p].busy
    /\ claim' = [claim EXCEPT ![g][p].busy = FALSE,
                              ![g][p].next = IF HandlerErr(g, p) THEN @ ELSE @ + 1,
                              ![g][p].marked = IF HandlerErr(g, p) THEN @ ELSE claim[g][p].next + 1]
    /\ UNCHANGED <<kafka, sent, client, readyClosed, panicked, handled, disturbances>>
\* Marked unless there was an error; either way the next message follows.
HandlerReturns(g, p) ==
    /\ claim[g][p].busy
    /\ claim' = [claim EXCEPT ![g][p].busy = FALSE,
                              ![g][p].next = @ + 1,
                              ![g][p].marked = IF HandlerErr(g, p) THEN @ ELSE claim[g][p].next + 1]
    /\ UNCHANGED <<kafka, sent, client, readyClosed, panicked, handled, disturbances>>

-----------------------------------------------------------------------------
Next ==
    \/ \E m \in Pushes, p \in Partitions : SendBytesMsg(m, p) \/ SendAgain(m, p)
    \/ \E m \in Foreign, p \in Partitions : ForeignSends(m, p)
    \/ \E g \in Groups : \E S \in SUBSET Members(g) : StartSessions(g, S)
    \/ \E g \in Groups : Rebalance(g)
    \/ \E c \in Clients : EndSession(c) \/ ConsumeFails(c)
    \/ \E n \in {c.node : c \in Clients} : Crash(n)
    \/ \E g \in Groups, p \in Partitions :
         AutoCommit(g, p) \/ HandlerCalled(g, p) \/ HandlerReturns(g, p)

\* Kafka completes a rebalance, handlers return (see Push: they only hand on to
\* a pool), and the goroutines of sessions and claims run.
Fairness ==
    /\ \A g \in Groups : WF_vars(\E S \in SUBSET Members(g) : StartSessions(g, S))
    /\ \A c \in Clients : WF_vars(EndSession(c))
    /\ \A g \in Groups, p \in Partitions :
         WF_vars(HandlerCalled(g, p)) /\ WF_vars(HandlerReturns(g, p))

Spec == Init /\ [][Next]_vars /\ Fairness

(***************************************************************************)
(* Properties                                                              *)
(***************************************************************************)
Entries == [m : Messages, awaited : SUBSET Groups]
SendStates == [at : {"new", "again", "nil", "error"}, retries : 0..MaxRetry,
               via : Partitions \cup {None}]
Claims == [owner : Clients \cup {None}, next : Nat, busy : BOOLEAN, marked : Nat]

\* Type invariant. A claim belongs to a member of the group in a session, reads
\* no further than one past the log and marks no further than it has read.
TypeOK ==
    /\ log \in [Kinds -> [Partitions -> Seq(Entries)]]
    /\ sent \in [Messages -> SendStates]
    /\ client \in [Clients -> {"idle", "active", "ending", "dead"}]
    /\ readyClosed \in [Clients -> BOOLEAN] /\ panicked \in BOOLEAN
    /\ claim \in [Groups -> [Partitions -> Claims]]
    /\ committed \in [Groups -> [Partitions -> Nat]]
    /\ \A g \in Groups, p \in Partitions :
         LET cl == claim[g][p] IN
         /\ cl.next <= Len(log[g.kind][p]) + 1 /\ cl.marked <= cl.next
         /\ cl.busy => (cl.owner # None /\ cl.next \in DOMAIN log[g.kind][p])
         /\ cl.owner # None => /\ cl.owner \in Members(g) /\ client[cl.owner] \in {"active", "ending"}
                               /\ cl.next # 0
         /\ committed[g][p] <= Len(log[g.kind][p]) + 1
    /\ disturbances \in 0..MaxDisturbances

HandledBy(n, k, p, i) == <<n, k, p, i>> \in handled

\* The node handles entry i, or need not: no push, or stored before the group
\* of the node had a position.
Served(c, p, i) ==
    LET e == log[c.kind][p][i] IN
    \/ e.m \in Foreign
    \/ GroupOf(c) \notin e.awaited
    \/ HandledBy(c.node, c.kind, p, i)

\* A commit never covers a push that the node was to handle and did not, with
\* rebalances, failed commits and unmarked messages in between
\* (consumer.go:179-204: a later mark covers an earlier unmarked message).
NothingPassedOver ==
    \A c \in Clients, p \in Partitions :
        \A i \in DOMAIN log[c.kind][p] :
            i < committed[GroupOf(c)][p] => Served(c, p, i)

\* Every node whose group has a position in the partition gets every push that
\* is stored there, whatever is rebalanced and whatever else is in the topic
\* (messageQueue.go:52-56 and 170-177), unless the node crashes.
EveryNodeGetsPush ==
    <>[](\A c \in Clients, p \in Partitions :
            \A i \in DOMAIN log[c.kind][p] : Served(c, p, i) \/ client[c] = "dead")

\* The ready channel is closed once however often Consume is called again
\* (consumer.go:107-124, 159): a second close would end the process.
ReadyClosedOnce == ~panicked

Copies(m) ==
    UNION {{<<k, p, i>> : i \in {j \in DOMAIN log[k][p] : log[k][p][j].m = m}} :
             k \in Kinds, p \in Partitions}

\* The caller of the RPC learns no success for a push that is not stored,
\* however the attempts and the answers to them are lost. A push may be stored
\* more than once, and be pushed to its users as often: sarama's retries and
\* the second call of SendMessage multiply (producer.go:37 and 142-162).
NilMeansStored ==
    \A m \in Pushes : /\ sent[m].at = "nil" => Copies(m) # {}
                      /\ Cardinality(Copies(m)) <= 2 * (MaxRetry + 1)
=============================================================================
