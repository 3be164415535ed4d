------------------------ MODULE MessageQueueProofs --------------------------
(***************************************************************************)
(* For any nodes, clients, partitions and messages and any number of       *)
(* rebalances, failures and crashes: no commit passes over a push, the     *)
(* ready channel is closed once, and a send that returns nil is stored.    *)
(***************************************************************************)
EXTENDS MessageQueue, FiniteSetTheorems, TLAPS

\* Served, for a group.
GroupServed(g, p, i) ==
    LET e == log[g.kind][p][i] IN
    e.m \in Foreign \/ g \notin e.awaited \/ <<g.node, g.kind, p, i>> \in handled

\* Between two calls of Consume the ready channel is open.
ReadyFits == \A c \in Clients : client[c] = "idle" => ~readyClosed[c]

\* A group without a position was awaited by no entry: it may start anywhere.
AwaitedHavePosition ==
    \A g \in Groups, p \in Partitions : \A i \in DOMAIN log[g.kind][p] :
        committed[g][p] = 0 => g \notin log[g.kind][p][i].awaited

\* Everything below the committed offset was served.
CommitCovers ==
    \A g \in Groups, p \in Partitions : \A i \in DOMAIN log[g.kind][p] :
        i < committed[g][p] => GroupServed(g, p, i)

\* So was everything a session has read: what was there before it started is
\* covered by the commit it started from.
ClaimCovers ==
    \A g \in Groups, p \in Partitions : \A i \in DOMAIN log[g.kind][p] :
        i < claim[g][p].next \/ (claim[g][p].busy /\ i = claim[g][p].next)
        => GroupServed(g, p, i)

\* The attempts to store a message that may have been made, by how far
\* SendBytesMsg is.
Attempts(state) ==
    IF state.at = "new" THEN state.retries
    ELSE IF state.at = "again" THEN MaxRetry + 1 + state.retries
    ELSE 2 * (MaxRetry + 1)

\* Each attempt has left one copy at most, the one that was answered just one.
CopiesFitOf(m) ==
    /\ IsFiniteSet(Copies(m)) /\ Cardinality(Copies(m)) <= Attempts(sent[m])
    /\ sent[m].at = "nil" => Copies(m) # {}

CopiesFit == \A m \in Pushes : CopiesFitOf(m)

IInv ==
    /\ TypeOK /\ ReadyFits /\ ReadyClosedOnce
    /\ AwaitedHavePosition /\ CommitCovers /\ ClaimCovers /\ CopiesFit

(***************************************************************************)
(* Groups and copies                                                       *)
(***************************************************************************)
\* A group is a kind and a node, and its members share both.
LEMMA GroupFacts ==
    /\ \A c \in Clients : /\ GroupOf(c) \in Groups /\ GroupOf(c).node = c.node
                          /\ GroupOf(c).kind = c.kind /\ c \in Members(GroupOf(c))
    /\ \A g \in Groups : g.kind \in Kinds
    /\ \A g \in Groups : \A c \in Members(g) : c \in Clients /\ GroupOf(c) = g /\ c.node = g.node
    /\ \A m \in Messages : m.kind \in Kinds
<1>1. \A c \in Clients : /\ GroupOf(c) \in Groups /\ GroupOf(c).node = c.node
                         /\ GroupOf(c).kind = c.kind /\ c \in Members(GroupOf(c))
    BY DEF GroupOf, Groups, Members
<1>2. \A g \in Groups : g.kind \in Kinds
    BY DEF GroupOf, Groups, Kinds
<1>3. \A g \in Groups : \A c \in Members(g) : c \in Clients /\ GroupOf(c) = g /\ c.node = g.node
    BY DEF GroupOf, Members
<1>4. \A m \in Messages : m.kind \in Kinds
    BY DEF Kinds
<1> QED
    BY <1>1, <1>2, <1>3, <1>4

\* Copies of m in a log l.
CopiesIn(l, m) ==
    UNION {{<<k, p, i>> : i \in {j \in DOMAIN l[k][p] : l[k][p][j].m = m}} :
             k \in Kinds, p \in Partitions}

\* A copy is a place in the log.
LEMMA CopiesMembers ==
    ASSUME NEW l, NEW m
    PROVE  /\ \A x \in CopiesIn(l, m) : \E k \in Kinds, p \in Partitions : \E i \in DOMAIN l[k][p] :
                  x = <<k, p, i>> /\ l[k][p][i].m = m
           /\ \A k \in Kinds, p \in Partitions : \A i \in DOMAIN l[k][p] :
                  l[k][p][i].m = m => <<k, p, i>> \in CopiesIn(l, m)
<1> DEFINE At(k, p) == {<<k, p, i>> : i \in {j \in DOMAIN l[k][p] : l[k][p][j].m = m}}
           Ats == {At(k, p) : k \in Kinds, p \in Partitions}
<1>1. CopiesIn(l, m) = UNION Ats
    BY DEF CopiesIn
<1>2. \A k \in Kinds, p \in Partitions : At(k, p) \in Ats
    OBVIOUS
<1>3. \A a \in Ats : \E k \in Kinds, p \in Partitions : a = At(k, p)
    OBVIOUS
<1>4. \A k \in Kinds, p \in Partitions : \A i \in DOMAIN l[k][p] :
        l[k][p][i].m = m => <<k, p, i>> \in At(k, p)
    OBVIOUS
<1>5. \A k \in Kinds, p \in Partitions : \A x \in At(k, p) :
        \E i \in DOMAIN l[k][p] : x = <<k, p, i>> /\ l[k][p][i].m = m
    OBVIOUS
<1> HIDE DEF At, Ats
<1>6. \A x : x \in UNION Ats <=> \E a \in Ats : x \in a
    OBVIOUS
<1>7. \A x \in CopiesIn(l, m) : \E k \in Kinds, p \in Partitions : \E i \in DOMAIN l[k][p] :
        x = <<k, p, i>> /\ l[k][p][i].m = m
    BY <1>1, <1>3, <1>5, <1>6
<1>8. ASSUME NEW k \in Kinds, NEW p \in Partitions, NEW i \in DOMAIN l[k][p], l[k][p][i].m = m
      PROVE  <<k, p, i>> \in CopiesIn(l, m)
    BY <1>1, <1>2, <1>4, <1>6, <1>8
<1> QED
    BY <1>7, <1>8

\* The message is put behind partition p of the topic of its kind, for all
\* groups with a position there; the rest of the log stays.
StoredAt(m, p) ==
    /\ log' \in [Kinds -> [Partitions -> Seq(Entries)]]
    /\ Len(log'[m.kind][p]) = Len(log[m.kind][p]) + 1
    /\ \A i \in DOMAIN log[m.kind][p] : log'[m.kind][p][i] = log[m.kind][p][i]
    /\ log'[m.kind][p][Len(log[m.kind][p]) + 1].m = m
    /\ log'[m.kind][p][Len(log[m.kind][p]) + 1].awaited
         = {g \in Groups : g.kind = m.kind /\ committed[g][p] # 0}
    /\ \A k \in Kinds, q \in Partitions : k # m.kind \/ q # p => log'[k][q] = log[k][q]

\* Store does so.
LEMMA StoreAppends ==
    ASSUME TypeOK, NEW m \in Messages, NEW p \in Partitions, Store(m, p)
    PROVE  StoredAt(m, p)
<1>1. log' = [log EXCEPT ![m.kind][p] = Append(@, Entry(m, p))]
    BY DEF Store, TopicName
<1> DEFINE k == m.kind
           old == log[k][p]
<1>2. k \in Kinds
    BY GroupFacts
<1>3. /\ Entry(m, p) \in Entries /\ Entry(m, p).m = m
      /\ Entry(m, p).awaited = {g \in Groups : g.kind = m.kind /\ committed[g][p] # 0}
    BY DEF Entry, Entries, TopicName
<1>4. log[k] \in [Partitions -> Seq(Entries)] /\ old \in Seq(Entries)
    BY <1>2 DEF TypeOK
<1>5. /\ Append(old, Entry(m, p)) \in Seq(Entries)
      /\ Len(Append(old, Entry(m, p))) = Len(old) + 1
      /\ \A i \in DOMAIN old : Append(old, Entry(m, p))[i] = old[i]
      /\ Append(old, Entry(m, p))[Len(old) + 1] = Entry(m, p)
    BY <1>3, <1>4
<1>6. /\ log' = [log EXCEPT ![k] = [log[k] EXCEPT ![p] = Append(old, Entry(m, p))]]
    BY <1>1
<1>7. /\ log' \in [Kinds -> [Partitions -> Seq(Entries)]]
      /\ log'[k][p] = Append(old, Entry(m, p))
      /\ \A l \in Kinds, q \in Partitions : l # k \/ q # p => log'[l][q] = log[l][q]
    BY <1>2, <1>4, <1>5, <1>6 DEF TypeOK
<1> QED
    BY <1>2, <1>3, <1>5, <1>7 DEF StoredAt

\* Storing a message adds one copy of it and of no other.
LEMMA StoreCopies ==
    ASSUME TypeOK, NEW m \in Messages, NEW p \in Partitions, Store(m, p)
    PROVE  /\ \E x : Copies(m)' \subseteq Copies(m) \cup {x} /\ Copies(m)' # {}
           /\ \A n \in Messages : n # m => Copies(n)' = Copies(n)
<1>1. StoredAt(m, p)
    BY StoreAppends
<1> DEFINE top == Len(log[m.kind][p]) + 1
<1>2. /\ m.kind \in Kinds /\ log[m.kind][p] \in Seq(Entries) /\ log'[m.kind][p] \in Seq(Entries)
      /\ \A k \in Kinds, q \in Partitions : log[k][q] \in Seq(Entries)
    BY <1>1, GroupFacts DEF StoredAt, TypeOK
<1>3. /\ DOMAIN log'[m.kind][p] = DOMAIN log[m.kind][p] \cup {top} /\ top \notin DOMAIN log[m.kind][p]
    BY <1>1, <1>2 DEF StoredAt
<1>4. \A k \in Kinds, q \in Partitions :
        /\ DOMAIN log[k][q] \subseteq DOMAIN log'[k][q]
        /\ \A i \in DOMAIN log[k][q] : log'[k][q][i] = log[k][q][i]
        /\ \A i \in DOMAIN log'[k][q] : i \in DOMAIN log[k][q] \/ (k = m.kind /\ q = p /\ i = top)
    BY <1>1, <1>3 DEF StoredAt
<1>5. log'[m.kind][p][top].m = m
    BY <1>1 DEF StoredAt
<1> HIDE DEF top
<1>6. \A n : Copies(n) = CopiesIn(log, n) /\ Copies(n)' = CopiesIn(log', n)
    BY DEF Copies, CopiesIn
<1>8. \A n : Copies(n)' \subseteq Copies(n) \cup {<<m.kind, p, top>>}
    <2> SUFFICES ASSUME NEW n, NEW x \in Copies(n)'
                 PROVE  x \in Copies(n) \cup {<<m.kind, p, top>>}
        OBVIOUS
    <2>1. PICK k \in Kinds, q \in Partitions : \E i \in DOMAIN log'[k][q] :
            x = <<k, q, i>> /\ log'[k][q][i].m = n
        BY <1>6, CopiesMembers
    <2>2. PICK i \in DOMAIN log'[k][q] : x = <<k, q, i>> /\ log'[k][q][i].m = n
        BY <2>1
    <2>3. CASE i \in DOMAIN log[k][q]
        BY <2>2, <2>3, <1>4, <1>6, CopiesMembers
    <2> QED
        BY <2>2, <2>3, <1>4
<1>9. <<m.kind, p, top>> \in Copies(m)'
    BY <1>2, <1>3, <1>5, <1>6, CopiesMembers
<1>10. ASSUME NEW n \in Messages, n # m PROVE Copies(n)' = Copies(n)
    <2>1. <<m.kind, p, top>> \notin Copies(n)'
        BY <1>5, <1>6, <1>10, CopiesMembers
    <2>2. Copies(n) \subseteq Copies(n)'
        BY <1>4, <1>6, CopiesMembers
    <2> QED
        BY <2>1, <2>2, <1>8
<1> QED
    BY <1>8, <1>9, <1>10

(***************************************************************************)
(* Producers                                                               *)
(***************************************************************************)
\* Storing a message disturbs neither the offsets nor what they cover: the new
\* entry lies above every offset.
LEMMA StoreKeeps ==
    ASSUME IInv, NEW m \in Messages, NEW p \in Partitions, Store(m, p),
           sent' \in [Messages -> SendStates],
           UNCHANGED <<client, readyClosed, panicked, claim, committed, handled, disturbances>>
    PROVE  /\ TypeOK' /\ ReadyFits' /\ ReadyClosedOnce'
           /\ AwaitedHavePosition' /\ CommitCovers' /\ ClaimCovers'
<1>1. StoredAt(m, p)
    BY StoreAppends DEF IInv
<1>2. \A k \in Kinds, q \in Partitions : log[k][q] \in Seq(Entries) /\ log'[k][q] \in Seq(Entries)
    BY <1>1 DEF StoredAt, IInv, TypeOK
<1>3. \A k \in Kinds, q \in Partitions :
        /\ Len(log[k][q]) \in Nat /\ Len(log'[k][q]) \in Nat /\ Len(log[k][q]) <= Len(log'[k][q])
        /\ DOMAIN log[k][q] = 1..Len(log[k][q]) /\ DOMAIN log'[k][q] = 1..Len(log'[k][q])
        /\ \A i \in DOMAIN log[k][q] : i \in DOMAIN log'[k][q] /\ log'[k][q][i] = log[k][q][i]
        /\ \A i \in DOMAIN log'[k][q] :
             i \in DOMAIN log[k][q] \/ (k = m.kind /\ q = p /\ i = Len(log[k][q]) + 1)
    BY <1>1, <1>2 DEF StoredAt
<1>4. \A g \in Groups : g.kind \in Kinds
    BY GroupFacts
<1>5. \A g \in Groups, q \in Partitions :
        /\ claim[g][q] \in Claims /\ committed[g][q] \in Nat
        /\ claim[g][q].next <= Len(log[g.kind][q]) + 1 /\ claim[g][q].next \in Nat
        /\ claim[g][q].busy => claim[g][q].next \in DOMAIN log[g.kind][q]
        /\ committed[g][q] <= Len(log[g.kind][q]) + 1
    BY DEF IInv, TypeOK, Claims
<1>6. TypeOK'
    <2>1. \A g \in Groups, q \in Partitions :
            /\ claim[g][q].next <= Len(log'[g.kind][q]) + 1
            /\ claim[g][q].busy => claim[g][q].next \in DOMAIN log'[g.kind][q]
            /\ committed[g][q] <= Len(log'[g.kind][q]) + 1
        <3> SUFFICES ASSUME NEW g \in Groups, NEW q \in Partitions
                     PROVE  /\ claim[g][q].next <= Len(log'[g.kind][q]) + 1
                            /\ claim[g][q].busy => claim[g][q].next \in DOMAIN log'[g.kind][q]
                            /\ committed[g][q] <= Len(log'[g.kind][q]) + 1
            OBVIOUS
        <3>1. /\ Len(log[g.kind][q]) \in Nat /\ Len(log'[g.kind][q]) \in Nat
              /\ Len(log[g.kind][q]) <= Len(log'[g.kind][q])
              /\ \A i \in DOMAIN log[g.kind][q] : i \in DOMAIN log'[g.kind][q]
            BY <1>3, <1>4
        <3>2. /\ claim[g][q].next <= Len(log[g.kind][q]) + 1 /\ claim[g][q].next \in Nat
              /\ committed[g][q] <= Len(log[g.kind][q]) + 1 /\ committed[g][q] \in Nat
            BY <1>5
        <3>3. claim[g][q].busy => claim[g][q].next \in DOMAIN log[g.kind][q]
            BY <1>5
        <3>4. /\ claim[g][q].next <= Len(log'[g.kind][q]) + 1
              /\ committed[g][q] <= Len(log'[g.kind][q]) + 1
            <4> DEFINE a == Len(log[g.kind][q])
                       b == Len(log'[g.kind][q])
                       n == claim[g][q].next
                       o == committed[g][q]
            <4>1. a \in Nat /\ b \in Nat /\ n \in Nat /\ o \in Nat /\ a <= b /\ n <= a + 1 /\ o <= a + 1
                BY <3>1, <3>2
            <4>2. n <= b + 1 /\ o <= b + 1
                <5> HIDE DEF a, b, n, o
                <5> QED  BY <4>1
            <4> QED
                BY <4>2
        <3> QED
            BY <3>1, <3>3, <3>4
    <2> QED
        BY <1>1, <2>1 DEF StoredAt, IInv, TypeOK
<1>7. ReadyFits' /\ ReadyClosedOnce'
    BY DEF IInv, ReadyFits, ReadyClosedOnce
<1>8. AwaitedHavePosition'
    <2> SUFFICES ASSUME NEW g \in Groups, NEW q \in Partitions, NEW i \in DOMAIN log'[g.kind][q],
                        committed[g][q] = 0
                 PROVE  g \notin log'[g.kind][q][i].awaited
        BY DEF AwaitedHavePosition
    <2>1. CASE i \in DOMAIN log[g.kind][q]
        <3>1. log'[g.kind][q][i] = log[g.kind][q][i]
            BY <2>1, <1>3, <1>4
        <3>2. g \notin log[g.kind][q][i].awaited
            BY <2>1 DEF IInv, AwaitedHavePosition
        <3> QED
            BY <3>1, <3>2
    <2>2. CASE g.kind = m.kind /\ q = p /\ i = Len(log[g.kind][q]) + 1
        BY <2>2, <1>1 DEF StoredAt
    <2> QED
        BY <2>1, <2>2, <1>3, <1>4
<1>9. \A g \in Groups, q \in Partitions : \A i \in DOMAIN log[g.kind][q] :
        GroupServed(g, q, i) => GroupServed(g, q, i)'
    BY <1>3, <1>4 DEF GroupServed
<1>10. CommitCovers'
    BY <1>3, <1>4, <1>5, <1>9 DEF IInv, CommitCovers
<1>11. ClaimCovers'
    BY <1>3, <1>4, <1>5, <1>9 DEF IInv, ClaimCovers
<1> QED
    BY <1>6, <1>7, <1>8, <1>10, <1>11

\* The same without a stored message.
LEMMA NotStoredKeeps ==
    ASSUME IInv, sent' \in [Messages -> SendStates],
           UNCHANGED <<log, client, readyClosed, panicked, claim, committed, handled, disturbances>>
    PROVE  /\ TypeOK' /\ ReadyFits' /\ ReadyClosedOnce'
           /\ AwaitedHavePosition' /\ CommitCovers' /\ ClaimCovers'
BY DEF IInv, TypeOK, ReadyFits, ReadyClosedOnce, AwaitedHavePosition, CommitCovers, ClaimCovers, GroupServed

\* An attempt changes the copies of its own message only.
LEMMA OthersKeepCopies ==
    ASSUME IInv, NEW m \in Messages, NEW p \in Partitions, Store(m, p) \/ UNCHANGED log,
           \A n \in Messages : n # m => sent'[n] = sent[n]
    PROVE  \A n \in Pushes : n # m => CopiesFitOf(n)'
<1>1. \A n \in Messages : n # m => Copies(n)' = Copies(n)
    <2>1. CASE Store(m, p)
        BY <2>1, StoreCopies DEF IInv
    <2>2. CASE UNCHANGED log
        BY <2>2 DEF Copies
    <2> QED
        BY <2>1, <2>2
<1>2. \A n \in Pushes : n # m => n \in Messages /\ CopiesFitOf(n) /\ sent'[n] = sent[n]
    BY DEF IInv, CopiesFit, Messages
<1>3. ASSUME NEW n \in Pushes, n # m PROVE CopiesFitOf(n)'
    <2>1. Copies(n)' = Copies(n) /\ sent'[n] = sent[n] /\ CopiesFitOf(n)
        BY <1>1, <1>2, <1>3
    <2> QED
        BY <2>1 DEF CopiesFitOf
<1> QED
    BY <1>3

\* One attempt of SendMessage: at most one copy more, and one attempt fewer left.
LEMMA SendMessageKeeps ==
    ASSUME IInv, NEW m \in Pushes, NEW p \in Partitions, NEW onErr \in {"again", "error"},
           sent[m].at = IF onErr = "again" THEN "new" ELSE "again",
           SendMessage(m, p, "nil", onErr),
           UNCHANGED <<client, readyClosed, panicked, claim, committed, handled, disturbances>>
    PROVE  IInv'
<1> DEFINE old == sent[m]
           new == sent'[m]
<1>1. /\ m \in Messages /\ CopiesFitOf(m) /\ MaxRetry \in Nat
      /\ sent \in [Messages -> SendStates] /\ old \in SendStates
    BY ConstantsAssumption DEF Messages, IInv, TypeOK, CopiesFit
<1>2. /\ sent' \in [Messages -> SendStates]
      /\ \A n \in Messages : n # m => sent'[n] = sent[n]
      /\ Store(m, p) \/ UNCHANGED log
      /\ \/ new = NoCall("nil") /\ Store(m, p)
         \/ new = NoCall(onErr)
         \/ old.retries < MaxRetry /\ new.at = old.at /\ new.retries = old.retries + 1
    BY <1>1 DEF SendMessage, NoCall, SendStates
<1>3. /\ Attempts(old) \in Nat /\ Attempts(new) \in Nat
      /\ Attempts(old) + 1 <= Attempts(new)
    <2>1. old.retries \in 0..MaxRetry
        BY <1>1 DEF SendStates
    <2>2. \/ new.at \in {"nil", "error"} /\ old.at \in {"new", "again"}
          \/ new.at = "again" /\ old.at = "new" /\ new.retries = 0
          \/ /\ old.at \in {"new", "again"} /\ new.at = old.at
             /\ old.retries < MaxRetry /\ new.retries = old.retries + 1
        BY <1>2 DEF NoCall
    <2>3. \/ /\ Attempts(new) = 2 * (MaxRetry + 1)
             /\ Attempts(old) \in {old.retries, MaxRetry + 1 + old.retries}
          \/ Attempts(new) = MaxRetry + 1 + 0 /\ Attempts(old) = old.retries
          \/ Attempts(new) = old.retries + 1 /\ Attempts(old) = old.retries
          \/ /\ Attempts(new) = MaxRetry + 1 + (old.retries + 1)
             /\ Attempts(old) = MaxRetry + 1 + old.retries
        BY <2>2 DEF Attempts
    <2> HIDE DEF old, new
    <2> QED
        BY <1>1, <2>1, <2>3
<1>4. /\ IsFiniteSet(Copies(m)') /\ Cardinality(Copies(m)') <= Cardinality(Copies(m)) + 1
      /\ Cardinality(Copies(m)') \in Nat /\ Cardinality(Copies(m)) \in Nat
      /\ Store(m, p) => Copies(m)' # {}
    <2>0. IsFiniteSet(Copies(m)) /\ Cardinality(Copies(m)) \in Nat
        BY <1>1, FS_CardinalityType DEF CopiesFitOf
    <2>1. CASE Store(m, p)
        <3>1. PICK x : Copies(m)' \subseteq Copies(m) \cup {x} /\ Copies(m)' # {}
            BY <1>1, <2>1, StoreCopies DEF IInv
        <3>2. /\ IsFiniteSet(Copies(m) \cup {x})
              /\ Cardinality(Copies(m) \cup {x}) \in {Cardinality(Copies(m)), Cardinality(Copies(m)) + 1}
            BY <2>0, FS_AddElement
        <3>3. /\ IsFiniteSet(Copies(m)')
              /\ Cardinality(Copies(m)') <= Cardinality(Copies(m) \cup {x})
              /\ Cardinality(Copies(m)') \in Nat
            BY <3>1, <3>2, FS_Subset, FS_CardinalityType
        <3> QED
            BY <2>0, <3>1, <3>2, <3>3
    <2>2. CASE ~Store(m, p)
        <3>1. Copies(m)' = Copies(m)
            BY <1>2, <2>2 DEF Copies
        <3> QED
            BY <2>0, <2>2, <3>1
    <2> QED
        BY <2>1, <2>2
<1>5. CopiesFitOf(m)'
    <2>1. Cardinality(Copies(m)) <= Attempts(old)
        BY <1>1 DEF CopiesFitOf
    <2>2. Cardinality(Copies(m)') <= Attempts(new)
        <3> HIDE DEF old, new
        <3> QED
            BY <1>3, <1>4, <2>1
    <2>3. new.at = "nil" => Store(m, p)
        BY <1>2 DEF NoCall
    <2>4. Attempts(sent[m])' = Attempts(new)
        BY DEF Attempts
    <2> QED
        BY <1>4, <2>2, <2>3, <2>4 DEF CopiesFitOf
<1>6. CopiesFit'
    BY <1>1, <1>2, <1>5, OthersKeepCopies DEF CopiesFit
<1> QED
    BY <1>1, <1>2, <1>6, StoreKeeps, NotStoredKeeps DEF IInv

LEMMA SendBytesMsgKeeps ==
    ASSUME IInv, NEW m \in Pushes, NEW p \in Partitions, SendBytesMsg(m, p)
    PROVE  IInv'
BY SendMessageKeeps DEF SendBytesMsg

LEMMA SendAgainKeeps ==
    ASSUME IInv, NEW m \in Pushes, NEW p \in Partitions, SendAgain(m, p)
    PROVE  IInv'
BY SendMessageKeeps DEF SendAgain

LEMMA ForeignSendsKeeps ==
    ASSUME IInv, NEW m \in Foreign, NEW p \in Partitions, ForeignSends(m, p)
    PROVE  IInv'
<1>1. m \in Messages /\ m \notin Pushes
    BY ConstantsAssumption DEF Messages
<1>2. /\ sent' \in [Messages -> SendStates]
      /\ \A n \in Messages : n # m => sent'[n] = sent[n]
    BY <1>1, ConstantsAssumption DEF ForeignSends, IInv, TypeOK, NoCall, SendStates
<1>3. CopiesFit'
    BY <1>1, <1>2, OthersKeepCopies DEF ForeignSends, CopiesFit
<1> QED
    BY <1>1, <1>2, <1>3, StoreKeeps DEF ForeignSends, IInv

(***************************************************************************)
(* Groups: the invariant, partition by partition                           *)
(***************************************************************************)
PlaceTyped(g, p) ==
    /\ claim[g][p] \in Claims /\ committed[g][p] \in Nat /\ log[g.kind][p] \in Seq(Entries)
    /\ claim[g][p].next <= Len(log[g.kind][p]) + 1 /\ claim[g][p].marked <= claim[g][p].next
    /\ claim[g][p].busy => (claim[g][p].owner # None /\ claim[g][p].next \in DOMAIN log[g.kind][p])
    /\ claim[g][p].owner # None => /\ claim[g][p].owner \in Members(g)
                                   /\ client[claim[g][p].owner] \in {"active", "ending"}
                                   /\ claim[g][p].next # 0
    /\ committed[g][p] <= Len(log[g.kind][p]) + 1

PlaceCovered(g, p) ==
    \A i \in DOMAIN log[g.kind][p] :
        /\ committed[g][p] = 0 => g \notin log[g.kind][p][i].awaited
        /\ i < committed[g][p] => GroupServed(g, p, i)
        /\ i < claim[g][p].next \/ (claim[g][p].busy /\ i = claim[g][p].next) => GroupServed(g, p, i)

LEMMA PlacesFit ==
    ASSUME IInv
    PROVE  \A g \in Groups, p \in Partitions : PlaceTyped(g, p) /\ PlaceCovered(g, p)
<1>1. \A g \in Groups : g.kind \in Kinds
    BY GroupFacts
<1>2. \A g \in Groups, p \in Partitions : PlaceTyped(g, p)
    BY <1>1 DEF IInv, TypeOK, PlaceTyped
<1>3. \A g \in Groups, p \in Partitions : PlaceCovered(g, p)
    BY DEF IInv, AwaitedHavePosition, CommitCovers, ClaimCovers, PlaceCovered
<1> QED
    BY <1>2, <1>3

\* A step that leaves the producers alone keeps the invariant if it does so in
\* every partition of every group.
LEMMA FromPlaces ==
    ASSUME IInv, UNCHANGED <<log, sent>>,
           client' \in [Clients -> {"idle", "active", "ending", "dead"}],
           readyClosed' \in [Clients -> BOOLEAN], panicked' \in BOOLEAN,
           claim' \in [Groups -> [Partitions -> Claims]],
           committed' \in [Groups -> [Partitions -> Nat]],
           disturbances' \in 0..MaxDisturbances,
           ReadyFits', ReadyClosedOnce',
           \A g \in Groups, p \in Partitions : PlaceTyped(g, p)' /\ PlaceCovered(g, p)'
    PROVE  IInv'
<1>1. TypeOK'
    BY DEF IInv, TypeOK, PlaceTyped
<1>2. AwaitedHavePosition' /\ CommitCovers' /\ ClaimCovers'
    BY DEF AwaitedHavePosition, CommitCovers, ClaimCovers, PlaceCovered
<1>3. ASSUME NEW m \in Pushes PROVE CopiesFitOf(m)'
    <2>1. CopiesFitOf(m)
        BY <1>3 DEF IInv, CopiesFit
    <2>2. Copies(m)' = Copies(m)
        BY DEF Copies
    <2> QED
        BY <2>1, <2>2 DEF CopiesFitOf
<1> QED
    BY <1>1, <1>2, <1>3 DEF IInv, CopiesFit

\* A partition that a step leaves alone; more may be handled.
LEMMA PlaceKept ==
    ASSUME NEW g \in Groups, NEW p \in Partitions, PlaceTyped(g, p), PlaceCovered(g, p),
           log' = log, claim'[g][p] = claim[g][p], committed'[g][p] = committed[g][p],
           handled \subseteq handled',
           claim[g][p].owner # None => client'[claim[g][p].owner] \in {"active", "ending"}
    PROVE  PlaceTyped(g, p)' /\ PlaceCovered(g, p)'
<1>1. PlaceTyped(g, p)'
    BY DEF PlaceTyped
<1>2. \A i : GroupServed(g, p, i) => GroupServed(g, p, i)'
    BY DEF GroupServed
<1>3. PlaceCovered(g, p)'
    BY <1>2 DEF PlaceCovered
<1> QED
    BY <1>1, <1>3

\* A partition whose claim is given up, its offset as it was.
LEMMA PlaceGivenUp ==
    ASSUME NEW g \in Groups, NEW p \in Partitions, PlaceTyped(g, p), PlaceCovered(g, p),
           UNCHANGED <<log, handled>>, claim'[g][p] = NoClaim, committed'[g][p] = committed[g][p]
    PROVE  PlaceTyped(g, p)' /\ PlaceCovered(g, p)'
<1>1. /\ NoClaim \in Claims /\ NoClaim.owner = None /\ NoClaim.next = 0
      /\ NoClaim.busy = FALSE /\ NoClaim.marked = 0
    BY DEF NoClaim, Claims
<1>2. \A i : GroupServed(g, p, i)' = GroupServed(g, p, i)
    BY DEF GroupServed
<1>3. Len(log[g.kind][p]) \in Nat /\ DOMAIN log[g.kind][p] = 1..Len(log[g.kind][p])
    BY DEF PlaceTyped
<1>4. PlaceTyped(g, p)'
    BY <1>1, <1>3 DEF PlaceTyped
<1>5. PlaceCovered(g, p)'
    BY <1>1, <1>2, <1>3 DEF PlaceCovered
<1> QED
    BY <1>4, <1>5

(***************************************************************************)
(* Sessions                                                                *)
(***************************************************************************)
LEMMA StartSessionsKeeps ==
    ASSUME IInv, NEW g \in Groups, NEW S \in SUBSET Members(g), StartSessions(g, S)
    PROVE  IInv'
<1>1. PICK owner \in [Partitions -> S] :
        claim' = [claim EXCEPT ![g] = [p \in Partitions |->
                    [NoClaim EXCEPT !.owner = owner[p], !.next = InitialOffset(g, p)]]]
    BY DEF StartSessions
<1>2. /\ client' = [c \in Clients |-> IF c \in S THEN "active" ELSE client[c]]
      /\ panicked' = (panicked \/ \E c \in S : readyClosed[c])
      /\ readyClosed' = [c \in Clients |-> c \in S \/ readyClosed[c]]
      /\ UNCHANGED <<log, committed, sent, handled, disturbances>>
      /\ \A c \in S : c \in Clients /\ client[c] = "idle"
    BY DEF StartSessions, kafka, Members
<1>3. ASSUME NEW p \in Partitions
      PROVE  /\ InitialOffset(g, p) \in Nat \ {0} /\ InitialOffset(g, p) <= Len(log[g.kind][p]) + 1
             /\ \A i \in DOMAIN log[g.kind][p] : i < InitialOffset(g, p) => GroupServed(g, p, i)
    <2>1. PlaceTyped(g, p) /\ PlaceCovered(g, p)
        BY <1>3, PlacesFit
    <2>2. CASE committed[g][p] # 0
        BY <2>1, <2>2 DEF InitialOffset, PlaceTyped, PlaceCovered
    <2>3. CASE committed[g][p] = 0
        <3>1. InitialOffset(g, p) = Len(log[g.kind][p]) + 1 /\ Len(log[g.kind][p]) \in Nat
            BY <2>1, <2>3 DEF InitialOffset, PlaceTyped
        <3>2. \A i \in DOMAIN log[g.kind][p] : GroupServed(g, p, i)
            BY <2>1, <2>3 DEF PlaceCovered, GroupServed
        <3> QED
            BY <3>1, <3>2
    <2> QED
        BY <2>2, <2>3
<1>4. ASSUME NEW p \in Partitions
      PROVE  /\ claim'[g][p].owner = owner[p] /\ claim'[g][p].next = InitialOffset(g, p)
             /\ claim'[g][p].busy = FALSE /\ claim'[g][p].marked = 0
             /\ owner[p] \in S /\ owner[p] \in Members(g) /\ owner[p] \in Clients
             /\ claim'[g][p] \in Claims
    <2>1. claim'[g][p] = [NoClaim EXCEPT !.owner = owner[p], !.next = InitialOffset(g, p)]
        BY <1>1, <1>4 DEF IInv, TypeOK
    <2>2. owner[p] \in S /\ owner[p] \in Members(g) /\ owner[p] \in Clients
        BY <1>4, <1>1, <1>2
    <2>3. InitialOffset(g, p) \in Nat
        BY <1>3, <1>4
    <2>4. claim'[g][p] = [owner |-> owner[p], next |-> InitialOffset(g, p), busy |-> FALSE, marked |-> 0]
        BY <2>1 DEF NoClaim
    <2> QED
        BY <2>2, <2>3, <2>4 DEF Claims
<1>5. ASSUME NEW h \in Groups, NEW p \in Partitions, h # g PROVE claim'[h][p] = claim[h][p]
    BY <1>1, <1>5 DEF IInv, TypeOK
<1>6. claim' \in [Groups -> [Partitions -> Claims]]
    <2>1. claim' = [claim EXCEPT ![g] = claim'[g]] /\ DOMAIN claim'[g] = Partitions
        BY <1>1 DEF IInv, TypeOK
    <2>2. claim'[g] = [p \in Partitions |-> claim'[g][p]]
        BY <1>1 DEF IInv, TypeOK
    <2>3. claim'[g] \in [Partitions -> Claims]
        BY <2>2, <1>4
    <2> QED
        BY <2>1, <2>3 DEF IInv, TypeOK
<1>7. ASSUME NEW h \in Groups, NEW p \in Partitions PROVE PlaceTyped(h, p)' /\ PlaceCovered(h, p)'
    <2>1. PlaceTyped(h, p) /\ PlaceCovered(h, p)
        BY <1>7, PlacesFit
    <2>2. CASE h = g
        <3>1. PlaceTyped(g, p)'
            <4>1. client'[owner[p]] = "active"
                BY <1>2, <1>4, <1>7
            <4>2. 0 <= InitialOffset(g, p) /\ InitialOffset(g, p) # 0
                BY <1>3, <1>7
            <4> QED
                BY <4>1, <4>2, <2>1, <2>2, <1>2, <1>3, <1>4, <1>7 DEF PlaceTyped
        <3>2. \A i : GroupServed(g, p, i)' = GroupServed(g, p, i)
            BY <1>2 DEF GroupServed
        <3>3. PlaceCovered(g, p)'
            BY <3>2, <2>1, <2>2, <1>2, <1>3, <1>4, <1>7 DEF PlaceCovered
        <3> QED
            BY <2>2, <3>1, <3>3
    <2>3. CASE h # g
        <3>1. claim[h][p].owner # None => client'[claim[h][p].owner] \in {"active", "ending"}
            BY <2>1, <1>2 DEF PlaceTyped, Members
        <3> QED
            BY <2>1, <2>3, <3>1, <1>2, <1>5, <1>7, PlaceKept
    <2> QED
        BY <2>2, <2>3
<1>8. ReadyFits' /\ ReadyClosedOnce' /\ panicked' \in BOOLEAN
    BY <1>2 DEF IInv, ReadyFits, ReadyClosedOnce, TypeOK
<1>9. /\ client' \in [Clients -> {"idle", "active", "ending", "dead"}]
      /\ readyClosed' \in [Clients -> BOOLEAN]
      /\ committed' \in [Groups -> [Partitions -> Nat]] /\ disturbances' \in 0..MaxDisturbances
    BY <1>2 DEF IInv, TypeOK
<1> QED
    BY <1>2, <1>6, <1>7, <1>8, <1>9, FromPlaces

LEMMA DisturbedKeeps ==
    ASSUME TypeOK, Disturbed
    PROVE  disturbances' \in 0..MaxDisturbances
BY ConstantsAssumption DEF TypeOK, Disturbed

LEMMA RebalanceKeeps ==
    ASSUME IInv, NEW g \in Groups, Rebalance(g)
    PROVE  IInv'
<1>1. /\ client' = [c \in Clients |->
                      IF c \in Members(g) /\ client[c] = "active" THEN "ending" ELSE client[c]]
      /\ UNCHANGED <<log, committed, sent, readyClosed, panicked, claim, handled>>
    BY DEF Rebalance, kafka
<1>2. ASSUME NEW h \in Groups, NEW p \in Partitions PROVE PlaceTyped(h, p)' /\ PlaceCovered(h, p)'
    <2>1. PlaceTyped(h, p) /\ PlaceCovered(h, p)
        BY <1>2, PlacesFit
    <2>2. claim[h][p].owner # None => client'[claim[h][p].owner] \in {"active", "ending"}
        BY <2>1, <1>1 DEF PlaceTyped, Members
    <2> QED
        BY <2>1, <2>2, <1>1, <1>2, PlaceKept
<1>3. ReadyFits' /\ ReadyClosedOnce'
    BY <1>1 DEF IInv, ReadyFits, ReadyClosedOnce, TypeOK
<1>4. /\ client' \in [Clients -> {"idle", "active", "ending", "dead"}]
      /\ readyClosed' \in [Clients -> BOOLEAN] /\ panicked' \in BOOLEAN
      /\ claim' \in [Groups -> [Partitions -> Claims]]
      /\ committed' \in [Groups -> [Partitions -> Nat]] /\ disturbances' \in 0..MaxDisturbances
    BY <1>1, DisturbedKeeps DEF IInv, TypeOK, Rebalance
<1> QED
    BY <1>1, <1>2, <1>3, <1>4, FromPlaces

\* What is marked has been read, so it may be committed.
LEMMA MarkedCovered ==
    ASSUME NEW g \in Groups, NEW p \in Partitions, PlaceTyped(g, p), PlaceCovered(g, p)
    PROVE  /\ claim[g][p].marked \in Nat /\ claim[g][p].marked <= Len(log[g.kind][p]) + 1
           /\ \A i \in DOMAIN log[g.kind][p] : i < claim[g][p].marked => GroupServed(g, p, i)
<1> DEFINE l == Len(log[g.kind][p])
           n == claim[g][p].next
           k == claim[g][p].marked
<1>1. /\ l \in Nat /\ n \in Nat /\ k \in Nat /\ n <= l + 1 /\ k <= n
      /\ DOMAIN log[g.kind][p] = 1..l
      /\ \A i \in DOMAIN log[g.kind][p] : i < n => GroupServed(g, p, i)
    BY DEF PlaceTyped, PlaceCovered, Claims
<1> HIDE DEF l, n, k
<1>2. k <= l + 1 /\ \A i \in 1..l : i < k => i < n
    BY <1>1
<1>3. k \in Nat /\ k <= l + 1 /\ \A i \in DOMAIN log[g.kind][p] : i < k => GroupServed(g, p, i)
    BY <1>1, <1>2
<1> QED
    BY <1>3 DEF l, k

LEMMA EndSessionKeeps ==
    ASSUME IInv, NEW c \in Clients, EndSession(c)
    PROVE  IInv'
<1> DEFINE g == GroupOf(c)
           mine == {p \in Partitions : claim[g][p].owner = c}
<1>0. g \in Groups /\ c # None
    BY GroupFacts, ConstantsAssumption
<1>1. /\ client' = [client EXCEPT ![c] = "idle"] /\ readyClosed' = [readyClosed EXCEPT ![c] = FALSE]
      /\ claim' = [claim EXCEPT ![g] = [p \in Partitions |-> IF p \in mine THEN NoClaim ELSE claim[g][p]]]
      /\ UNCHANGED <<log, sent, panicked, handled, disturbances>>
    BY DEF EndSession, ConsumeReturns
<1>2. \/ committed' = [committed EXCEPT ![g] = [p \in Partitions |->
             IF p \in mine /\ claim[g][p].marked # 0 THEN claim[g][p].marked ELSE committed[g][p]]]
      \/ committed' = committed
    BY DEF EndSession
<1>3. \A h \in Groups, p \in Partitions :
        /\ h # g => claim'[h][p] = claim[h][p] /\ committed'[h][p] = committed[h][p]
        /\ h = g /\ p \notin mine => claim'[h][p] = claim[h][p] /\ committed'[h][p] = committed[h][p]
        /\ h = g /\ p \in mine => /\ claim'[h][p] = NoClaim
                                  /\ \/ committed'[h][p] = committed[h][p]
                                     \/ claim[h][p].marked # 0 /\ committed'[h][p] = claim[h][p].marked
    BY <1>0, <1>1, <1>2 DEF IInv, TypeOK
<1>4. \A h \in Groups, p \in Partitions : PlaceTyped(h, p) /\ PlaceCovered(h, p)
    BY PlacesFit
<1>5. \A h \in Groups, p \in Partitions : claim[h][p].owner = c => h = g
    BY <1>0, <1>4, GroupFacts DEF PlaceTyped
<1>6. \A p \in mine : claim[g][p].owner = c /\ p \in Partitions
    OBVIOUS
<1>7. \A p \in Partitions : p \notin mine => claim[g][p].owner # c
    OBVIOUS
<1>8. NoClaim \in Claims /\ \A h \in Groups, p \in Partitions : claim[h][p].marked \in Nat
    BY <1>4, MarkedCovered DEF NoClaim, Claims
<1> HIDE DEF g, mine
<1>9. claim' \in [Groups -> [Partitions -> Claims]]
    BY <1>0, <1>1, <1>8 DEF IInv, TypeOK
<1>10. committed' \in [Groups -> [Partitions -> Nat]]
    <2> DEFINE new == [p \in Partitions |->
             IF p \in mine /\ claim[g][p].marked # 0 THEN claim[g][p].marked ELSE committed[g][p]]
    <2>1. committed \in [Groups -> [Partitions -> Nat]]
        BY DEF IInv, TypeOK
    <2>2. new \in [Partitions -> Nat]
        BY <2>1, <1>0, <1>8
    <2>3. committed' = [committed EXCEPT ![g] = new] \/ committed' = committed
        BY <1>2
    <2> QED
        BY <2>1, <2>2, <2>3
<1>11. ASSUME NEW h \in Groups, NEW p \in Partitions PROVE PlaceTyped(h, p)' /\ PlaceCovered(h, p)'
    <2>1. PlaceTyped(h, p) /\ PlaceCovered(h, p)
        BY <1>4, <1>11
    <2>2. CASE ~(h = g /\ p \in mine)
        <3>1. claim[h][p].owner # c
            BY <2>2, <1>5, <1>7, <1>11
        <3>2. claim[h][p].owner # None => client'[claim[h][p].owner] \in {"active", "ending"}
            BY <2>1, <3>1, <1>1 DEF PlaceTyped, Members, IInv, TypeOK
        <3>3. claim'[h][p] = claim[h][p] /\ committed'[h][p] = committed[h][p]
            BY <2>2, <1>3, <1>11
        <3> QED
            BY <2>1, <3>2, <3>3, <1>1, <1>11, PlaceKept
    <2>3. CASE h = g /\ p \in mine /\ committed'[h][p] = committed[h][p]
        BY <2>1, <2>3, <1>1, <1>3, <1>11, PlaceGivenUp
    <2>4. CASE h = g /\ p \in mine /\ claim[h][p].marked # 0 /\ committed'[h][p] = claim[h][p].marked
        <3>1. claim'[h][p] = NoClaim
            BY <2>4, <1>3, <1>11
        <3>2. /\ NoClaim \in Claims /\ NoClaim.owner = None /\ NoClaim.next = 0
              /\ NoClaim.busy = FALSE /\ NoClaim.marked = 0
            BY DEF NoClaim, Claims
        <3>3. /\ committed'[h][p] \in Nat /\ committed'[h][p] # 0
              /\ committed'[h][p] <= Len(log[h.kind][p]) + 1
              /\ \A i \in DOMAIN log[h.kind][p] : i < committed'[h][p] => GroupServed(h, p, i)
            BY <2>1, <2>4, <1>11, MarkedCovered
        <3>4. \A i : GroupServed(h, p, i)' = GroupServed(h, p, i)
            BY <1>1 DEF GroupServed
        <3>5. Len(log[h.kind][p]) \in Nat /\ DOMAIN log[h.kind][p] = 1..Len(log[h.kind][p])
            BY <2>1 DEF PlaceTyped
        <3>6. PlaceTyped(h, p)'
            BY <2>1, <3>1, <3>2, <3>3, <3>5, <1>1 DEF PlaceTyped
        <3>7. PlaceCovered(h, p)'
            BY <3>1, <3>2, <3>3, <3>4, <3>5, <1>1 DEF PlaceCovered
        <3> QED
            BY <3>6, <3>7
    <2> QED
        BY <2>2, <2>3, <2>4, <1>3, <1>11
<1>12. ReadyFits' /\ ReadyClosedOnce'
    BY <1>1 DEF IInv, ReadyFits, ReadyClosedOnce, TypeOK
<1>13. /\ client' \in [Clients -> {"idle", "active", "ending", "dead"}]
       /\ readyClosed' \in [Clients -> BOOLEAN] /\ panicked' \in BOOLEAN
       /\ disturbances' \in 0..MaxDisturbances
    BY <1>1 DEF IInv, TypeOK
<1> QED
    BY <1>1, <1>9, <1>10, <1>11, <1>12, <1>13, FromPlaces

LEMMA ConsumeFailsKeeps ==
    ASSUME IInv, NEW c \in Clients, ConsumeFails(c)
    PROVE  IInv'
<1>1. /\ readyClosed' = [readyClosed EXCEPT ![c] = FALSE]
      /\ UNCHANGED <<log, committed, sent, client, panicked, claim, handled>>
    BY DEF ConsumeFails, ConsumeReturns, kafka
<1>2. ASSUME NEW h \in Groups, NEW p \in Partitions PROVE PlaceTyped(h, p)' /\ PlaceCovered(h, p)'
    <2>1. PlaceTyped(h, p) /\ PlaceCovered(h, p)
        BY <1>2, PlacesFit
    <2>2. claim[h][p].owner # None => client'[claim[h][p].owner] \in {"active", "ending"}
        BY <2>1, <1>1 DEF PlaceTyped
    <2> QED
        BY <2>1, <2>2, <1>1, <1>2, PlaceKept
<1>3. ReadyFits' /\ ReadyClosedOnce'
    BY <1>1 DEF IInv, ReadyFits, ReadyClosedOnce, TypeOK
<1>4. /\ client' \in [Clients -> {"idle", "active", "ending", "dead"}]
      /\ readyClosed' \in [Clients -> BOOLEAN] /\ panicked' \in BOOLEAN
      /\ claim' \in [Groups -> [Partitions -> Claims]]
      /\ committed' \in [Groups -> [Partitions -> Nat]] /\ disturbances' \in 0..MaxDisturbances
    BY <1>1, DisturbedKeeps DEF IInv, TypeOK, ConsumeFails
<1> QED
    BY <1>1, <1>2, <1>3, <1>4, FromPlaces

LEMMA AutoCommitKeeps ==
    ASSUME IInv, NEW g \in Groups, NEW p \in Partitions, AutoCommit(g, p)
    PROVE  IInv'
<1>1. /\ claim[g][p].marked # 0 /\ committed' = [committed EXCEPT ![g][p] = claim[g][p].marked]
      /\ UNCHANGED <<log, sent, client, readyClosed, panicked, claim, handled, disturbances>>
    BY DEF AutoCommit
<1>2. \A h \in Groups, q \in Partitions : PlaceTyped(h, q) /\ PlaceCovered(h, q)
    BY PlacesFit
<1>3. /\ claim[g][p].marked \in Nat /\ claim[g][p].marked <= Len(log[g.kind][p]) + 1
      /\ \A i \in DOMAIN log[g.kind][p] : i < claim[g][p].marked => GroupServed(g, p, i)
    BY <1>2, MarkedCovered
<1>4. /\ committed' \in [Groups -> [Partitions -> Nat]] /\ committed'[g][p] = claim[g][p].marked
      /\ \A h \in Groups, q \in Partitions : h # g \/ q # p => committed'[h][q] = committed[h][q]
    BY <1>1, <1>3 DEF IInv, TypeOK
<1>5. ASSUME NEW h \in Groups, NEW q \in Partitions PROVE PlaceTyped(h, q)' /\ PlaceCovered(h, q)'
    <2>1. PlaceTyped(h, q) /\ PlaceCovered(h, q)
        BY <1>2, <1>5
    <2>2. CASE h # g \/ q # p
        <3>1. claim[h][q].owner # None => client'[claim[h][q].owner] \in {"active", "ending"}
            BY <2>1, <1>1 DEF PlaceTyped
        <3> QED
            BY <2>1, <2>2, <3>1, <1>1, <1>4, <1>5, PlaceKept
    <2>3. CASE h = g /\ q = p
        <3>1. \A i : GroupServed(g, p, i)' = GroupServed(g, p, i)
            BY <1>1 DEF GroupServed
        <3>2. PlaceTyped(g, p)'
            BY <2>1, <2>3, <1>1, <1>3, <1>4 DEF PlaceTyped
        <3>3. PlaceCovered(g, p)'
            BY <2>1, <2>3, <3>1, <1>1, <1>3, <1>4 DEF PlaceCovered
        <3> QED
            BY <2>3, <3>2, <3>3
    <2> QED
        BY <2>2, <2>3
<1>6. ReadyFits' /\ ReadyClosedOnce'
    BY <1>1 DEF IInv, ReadyFits, ReadyClosedOnce
<1>7. /\ client' \in [Clients -> {"idle", "active", "ending", "dead"}]
      /\ readyClosed' \in [Clients -> BOOLEAN] /\ panicked' \in BOOLEAN
      /\ claim' \in [Groups -> [Partitions -> Claims]] /\ disturbances' \in 0..MaxDisturbances
    BY <1>1 DEF IInv, TypeOK
<1> QED
    BY <1>1, <1>4, <1>5, <1>6, <1>7, FromPlaces

LEMMA CrashKeeps ==
    ASSUME IInv, NEW n, Crash(n)
    PROVE  IInv'
<1> DEFINE Lost(g, p) == claim[g][p].owner # None /\ claim[g][p].owner.node = n
<1>1. /\ client' = [c \in Clients |-> IF c.node = n THEN "dead" ELSE client[c]]
      /\ claim' = [g \in Groups |-> [p \in Partitions |->
                      IF Lost(g, p) THEN NoClaim ELSE claim[g][p]]]
      /\ UNCHANGED <<log, committed, sent, readyClosed, panicked, handled>>
    BY DEF Crash, kafka
<1>2. \A h \in Groups, q \in Partitions : PlaceTyped(h, q) /\ PlaceCovered(h, q)
    BY PlacesFit
<1>3. \A h \in Groups, q \in Partitions : claim'[h][q] = IF Lost(h, q) THEN NoClaim ELSE claim[h][q]
    BY <1>1
<1>4. \A h \in Groups, q \in Partitions : NoClaim \in Claims /\ claim[h][q] \in Claims
    BY <1>2 DEF PlaceTyped, NoClaim, Claims
<1>5. claim' \in [Groups -> [Partitions -> Claims]]
    <2> HIDE DEF Lost
    <2> QED  BY <1>1, <1>4
<1>6. ASSUME NEW h \in Groups, NEW q \in Partitions PROVE PlaceTyped(h, q)' /\ PlaceCovered(h, q)'
    <2>1. PlaceTyped(h, q) /\ PlaceCovered(h, q)
        BY <1>2, <1>6
    <2>2. CASE Lost(h, q)
        <3>1. claim'[h][q] = NoClaim /\ committed'[h][q] = committed[h][q]
            BY <2>2, <1>1, <1>3, <1>6
        <3> QED
            BY <2>1, <3>1, <1>1, <1>6, PlaceGivenUp
    <2>3. CASE ~Lost(h, q)
        <3>1. claim[h][q].owner # None => client'[claim[h][q].owner] \in {"active", "ending"}
            BY <2>1, <2>3, <1>1 DEF PlaceTyped, Members
        <3>2. claim'[h][q] = claim[h][q] /\ committed'[h][q] = committed[h][q]
            BY <2>3, <1>1, <1>3, <1>6
        <3> QED
            BY <2>1, <3>1, <3>2, <1>1, <1>6, PlaceKept
    <2> QED
        BY <2>2, <2>3
<1>7. ReadyFits' /\ ReadyClosedOnce'
    BY <1>1 DEF IInv, ReadyFits, ReadyClosedOnce
<1>8. /\ client' \in [Clients -> {"idle", "active", "ending", "dead"}]
      /\ readyClosed' \in [Clients -> BOOLEAN] /\ panicked' \in BOOLEAN
      /\ committed' \in [Groups -> [Partitions -> Nat]] /\ disturbances' \in 0..MaxDisturbances
    BY <1>1, DisturbedKeeps DEF IInv, TypeOK, Crash
<1> QED
    BY <1>1, <1>5, <1>6, <1>7, <1>8, FromPlaces

(***************************************************************************)
(* ConsumeClaim                                                            *)
(***************************************************************************)
\* The steps of a claim change one place and, maybe, what is handled.
LEMMA FromClaim ==
    ASSUME IInv, NEW g \in Groups, NEW p \in Partitions, NEW new \in Claims,
           claim' = [claim EXCEPT ![g][p] = new], handled \subseteq handled',
           UNCHANGED <<log, committed, sent, client, readyClosed, panicked, disturbances>>,
           claim'[g][p] = new => PlaceTyped(g, p)' /\ PlaceCovered(g, p)'
    PROVE  IInv'
<1>1. /\ claim' \in [Groups -> [Partitions -> Claims]] /\ claim'[g][p] = new
      /\ \A h \in Groups, q \in Partitions : h # g \/ q # p => claim'[h][q] = claim[h][q]
    BY DEF IInv, TypeOK
<1>2. ASSUME NEW h \in Groups, NEW q \in Partitions PROVE PlaceTyped(h, q)' /\ PlaceCovered(h, q)'
    <2>1. PlaceTyped(h, q) /\ PlaceCovered(h, q)
        BY <1>2, PlacesFit
    <2>2. CASE h # g \/ q # p
        <3>1. claim[h][q].owner # None => client'[claim[h][q].owner] \in {"active", "ending"}
            BY <2>1 DEF PlaceTyped
        <3> QED
            BY <2>1, <2>2, <3>1, <1>1, <1>2, PlaceKept
    <2> QED
        BY <2>2, <1>1
<1>3. ReadyFits' /\ ReadyClosedOnce'
    BY DEF IInv, ReadyFits, ReadyClosedOnce
<1>4. /\ client' \in [Clients -> {"idle", "active", "ending", "dead"}]
      /\ readyClosed' \in [Clients -> BOOLEAN] /\ panicked' \in BOOLEAN
      /\ committed' \in [Groups -> [Partitions -> Nat]] /\ disturbances' \in 0..MaxDisturbances
    BY DEF IInv, TypeOK
<1> QED
    BY <1>1, <1>2, <1>3, <1>4, FromPlaces

\* An entry is served when its handler is called.
LEMMA HandlerCalledKeeps ==
    ASSUME IInv, NEW g \in Groups, NEW p \in Partitions, HandlerCalled(g, p)
    PROVE  IInv'
<1> DEFINE cl == claim[g][p]
           new == [cl EXCEPT !.busy = TRUE]
<1>1. PlaceTyped(g, p) /\ PlaceCovered(g, p)
    BY PlacesFit
<1>2. /\ cl \in Claims /\ cl.owner # None /\ cl.next <= Len(log[g.kind][p])
      /\ handled' = handled \cup Delivered(g, p)
      /\ UNCHANGED <<log, committed, sent, client, readyClosed, panicked, disturbances>>
    BY <1>1 DEF HandlerCalled, Reads, kafka, PlaceTyped
<1>3. new \in Claims /\ new.owner = cl.owner /\ new.next = cl.next /\ new.busy /\ new.marked = cl.marked
    BY <1>2 DEF Claims
<1>4. claim' = [claim EXCEPT ![g][p] = new]
    BY DEF HandlerCalled
<1>5. ASSUME NEW i, i = cl.next PROVE GroupServed(g, p, i)'
    <2>1. cl.owner.node = g.node
        BY <1>1, <1>2, GroupFacts DEF PlaceTyped
    <2>2. log'[g.kind][p][i].m \in Foreign \/ <<g.node, g.kind, p, i>> \in handled'
        BY <2>1, <1>2, <1>5 DEF Delivered
    <2> QED
        BY <2>2 DEF GroupServed
<1>6. \A i : GroupServed(g, p, i) => GroupServed(g, p, i)'
    BY <1>2 DEF GroupServed
<1>7. ASSUME claim'[g][p] = new PROVE PlaceTyped(g, p)' /\ PlaceCovered(g, p)'
    <2>1. /\ claim'[g][p] \in Claims /\ claim'[g][p].owner = cl.owner /\ claim'[g][p].next = cl.next
          /\ claim'[g][p].busy /\ claim'[g][p].marked = cl.marked
        BY <1>3, <1>7
    <2>2. PlaceTyped(g, p)'
        <3>1. cl.next \in DOMAIN log[g.kind][p]
            <4> DEFINE l == Len(log[g.kind][p])
                       n == cl.next
            <4>1. n \in Nat /\ n # 0 /\ l \in Nat /\ n <= l /\ DOMAIN log[g.kind][p] = 1..l
                BY <1>1, <1>2 DEF PlaceTyped, Claims
            <4> HIDE DEF l, n
            <4>2. n \in 1..l
                BY <4>1
            <4>3. n \in DOMAIN log[g.kind][p]
                BY <4>1, <4>2
            <4> QED
                BY <4>3 DEF n
        <3> QED
            BY <2>1, <3>1, <1>1, <1>2 DEF PlaceTyped
    <2>3. PlaceCovered(g, p)'
        BY <2>1, <1>1, <1>2, <1>5, <1>6 DEF PlaceCovered
    <2> QED
        BY <2>2, <2>3
<1> HIDE DEF new
<1> QED
    BY <1>2, <1>3, <1>4, <1>7, FromClaim

\* The claim goes on behind an entry that is served; so the mark may follow.
LEMMA HandlerReturnsKeeps ==
    ASSUME IInv, NEW g \in Groups, NEW p \in Partitions, HandlerReturns(g, p)
    PROVE  IInv'
<1> DEFINE cl == claim[g][p]
           mark == IF HandlerErr(g, p) THEN cl.marked ELSE cl.next + 1
           new == [owner |-> cl.owner, next |-> cl.next + 1, busy |-> FALSE, marked |-> mark]
<1>1. PlaceTyped(g, p) /\ PlaceCovered(g, p)
    BY PlacesFit
<1>2. /\ cl \in Claims /\ cl.busy /\ cl.next \in Nat /\ cl.marked \in Nat
      /\ UNCHANGED <<log, committed, sent, client, readyClosed, panicked, handled, disturbances>>
    BY <1>1 DEF HandlerReturns, kafka, PlaceTyped, Claims
<1>3. /\ mark \in Nat /\ mark <= cl.next + 1
    BY <1>1, <1>2 DEF PlaceTyped
<1>4. new \in Claims
    BY <1>2, <1>3 DEF Claims
<1>5. claim' = [claim EXCEPT ![g][p] = new]
    <2>1. claim \in [Groups -> [Partitions -> Claims]]
        BY DEF IInv, TypeOK
    <2> QED
        BY <2>1, <1>2 DEF HandlerReturns, Claims
<1> HIDE DEF mark
<1>6. \A i : GroupServed(g, p, i)' = GroupServed(g, p, i)
    BY <1>2 DEF GroupServed
<1>7. ASSUME claim'[g][p] = new PROVE PlaceTyped(g, p)' /\ PlaceCovered(g, p)'
    <2>1. /\ claim'[g][p] \in Claims /\ claim'[g][p].owner = cl.owner /\ claim'[g][p].next = cl.next + 1
          /\ claim'[g][p].busy = FALSE /\ claim'[g][p].marked = mark
        BY <1>4, <1>7
    <2>2. PlaceTyped(g, p)'
        <3>1. cl.next + 1 <= Len(log[g.kind][p]) + 1
            BY <1>1, <1>2 DEF PlaceTyped
        <3> QED
            BY <2>1, <3>1, <1>1, <1>2, <1>3 DEF PlaceTyped
    <2>3. PlaceCovered(g, p)'
        <3>1. \A i \in DOMAIN log[g.kind][p] : i < cl.next + 1 => i < cl.next \/ i = cl.next
            BY <1>1, <1>2 DEF PlaceTyped
        <3> QED
            BY <2>1, <3>1, <1>1, <1>2, <1>6 DEF PlaceCovered
    <2> QED
        BY <2>2, <2>3
<1> HIDE DEF new
<1> QED
    BY <1>2, <1>4, <1>5, <1>7, FromClaim

-----------------------------------------------------------------------------
LEMMA InitIInv == Init => IInv
<1> SUFFICES ASSUME Init PROVE IInv
    OBVIOUS
<1>1. /\ NoClaim \in Claims /\ NoClaim.owner = None /\ NoClaim.next = 0
      /\ NoClaim.busy = FALSE /\ NoClaim.marked = 0
    BY DEF NoClaim, Claims
<1>2. /\ \A k \in Kinds, p \in Partitions : log[k][p] = <<>>
      /\ \A g \in Groups, p \in Partitions : claim[g][p] = NoClaim /\ committed[g][p] = 0
    BY DEF Init
<1>3. \A g \in Groups : g.kind \in Kinds
    BY GroupFacts
<1>4. <<>> \in Seq(Entries) /\ Len(<<>>) = 0 /\ DOMAIN <<>> = {}
    OBVIOUS
<1>5. TypeOK
    <2>1. /\ log \in [Kinds -> [Partitions -> Seq(Entries)]]
          /\ claim \in [Groups -> [Partitions -> Claims]] /\ committed \in [Groups -> [Partitions -> Nat]]
        BY <1>1, <1>4 DEF Init
    <2>2. /\ sent \in [Messages -> SendStates]
          /\ client \in [Clients -> {"idle", "active", "ending", "dead"}]
          /\ readyClosed \in [Clients -> BOOLEAN]
        BY ConstantsAssumption DEF Init, NoCall, SendStates
    <2>3. panicked \in BOOLEAN /\ disturbances \in 0..MaxDisturbances
        <3>1. panicked = FALSE /\ disturbances = 0 /\ MaxDisturbances \in Nat
            BY ConstantsAssumption DEF Init
        <3>2. disturbances \in 0..MaxDisturbances
            BY <3>1
        <3>3. panicked \in BOOLEAN
            BY <3>1, Zenon
        <3> QED
            BY <3>2, <3>3
    <2>4. \A g \in Groups, p \in Partitions :
            /\ claim[g][p].next = 0 /\ claim[g][p].marked = 0 /\ ~claim[g][p].busy
            /\ claim[g][p].owner = None /\ committed[g][p] = 0 /\ Len(log[g.kind][p]) = 0
        BY <1>1, <1>2, <1>3, <1>4
    <2> QED
        BY <2>1, <2>2, <2>3, <2>4 DEF TypeOK
<1>6. AwaitedHavePosition /\ CommitCovers /\ ClaimCovers
    BY <1>2, <1>3, <1>4 DEF AwaitedHavePosition, CommitCovers, ClaimCovers
<1>7. ASSUME NEW m \in Pushes PROVE CopiesFitOf(m)
    <2>1. Copies(m) = CopiesIn(log, m)
        BY DEF Copies, CopiesIn
    <2>2. Copies(m) = {}
        BY <2>1, <1>2, <1>4, CopiesMembers
    <2>3. sent[m].at = "new" /\ Attempts(sent[m]) = 0
        BY <1>7 DEF Init, Messages, NoCall, Attempts
    <2>4. IsFiniteSet(Copies(m)) /\ Cardinality(Copies(m)) = 0
        BY <2>2, FS_EmptySet
    <2> QED
        BY <2>3, <2>4 DEF CopiesFitOf
<1> QED
    BY <1>5, <1>6, <1>7 DEF Init, IInv, ReadyFits, ReadyClosedOnce, CopiesFit

LEMMA NextKeeps == IInv /\ [Next]_vars => IInv'
<1> SUFFICES ASSUME IInv, [Next]_vars PROVE IInv'
    OBVIOUS
<1>1. CASE UNCHANGED vars
    <2>1. \A m : Copies(m)' = Copies(m)
        BY <1>1 DEF vars, Copies
    <2>2. CopiesFit'
        <3> SUFFICES ASSUME NEW m \in Pushes PROVE CopiesFitOf(m)'
            BY DEF CopiesFit
        <3>1. CopiesFitOf(m) /\ Copies(m)' = Copies(m) /\ sent' = sent
            BY <1>1, <2>1 DEF IInv, CopiesFit, vars
        <3> QED
            BY <3>1 DEF CopiesFitOf
    <2>3. sent' \in [Messages -> SendStates]
        BY <1>1 DEF vars, IInv, TypeOK
    <2> QED
        BY <1>1, <2>2, <2>3, NotStoredKeeps DEF vars, IInv
<1>2. CASE Next
    BY <1>2, SendBytesMsgKeeps, SendAgainKeeps, ForeignSendsKeeps, StartSessionsKeeps, RebalanceKeeps,
       EndSessionKeeps, ConsumeFailsKeeps, AutoCommitKeeps, CrashKeeps, HandlerCalledKeeps,
       HandlerReturnsKeeps DEF Next
<1> QED
    BY <1>1, <1>2

THEOREM Invariant == Spec => []IInv
BY InitIInv, NextKeeps, PTL DEF Spec

\* Type correctness: in particular a claim is read by a member of its group that
\* is in a session, and stays within the log.
THEOREM TypeCorrect == Spec => []TypeOK
<1>1. IInv => TypeOK
    BY DEF IInv
<1> QED
    BY <1>1, Invariant, PTL

\* However groups are rebalanced, commits fail, handlers return errors and nodes
\* crash, the committed offset of a node never passes a push that it was to
\* handle and did not (consumer.go:179-204).
THEOREM CommitsPassNothing == Spec => []NothingPassedOver
<1>1. IInv => NothingPassedOver
    <2> SUFFICES ASSUME IInv, NEW c \in Clients, NEW p \in Partitions,
                        NEW i \in DOMAIN log[c.kind][p], i < committed[GroupOf(c)][p]
                 PROVE  Served(c, p, i)
        BY DEF NothingPassedOver
    <2>1. GroupOf(c) \in Groups /\ GroupOf(c).node = c.node /\ GroupOf(c).kind = c.kind
        BY GroupFacts
    <2>2. GroupServed(GroupOf(c), p, i)
        BY <2>1 DEF IInv, CommitCovers
    <2> QED
        BY <2>1, <2>2 DEF GroupServed, Served, HandledBy
<1> QED
    BY <1>1, Invariant, PTL

\* Setup never closes a closed ready channel: StartConsume makes a new one
\* whenever Consume has returned (consumer.go:107-124, 159).
THEOREM NoSecondClose == Spec => []ReadyClosedOnce
<1>1. IInv => ReadyClosedOnce
    BY DEF IInv
<1> QED
    BY <1>1, Invariant, PTL

\* SendBytesMsg returns nil only for what is stored, whichever attempts and
\* answers are lost, and its two calls of SendMessage store a push at most once
\* for each attempt sarama may make (producer.go:37 and 142-162).
THEOREM NilIsStored == Spec => []NilMeansStored
<1>1. IInv => NilMeansStored
    <2> SUFFICES ASSUME IInv, NEW m \in Pushes
                 PROVE  /\ sent[m].at = "nil" => Copies(m) # {}
                        /\ Cardinality(Copies(m)) <= 2 * (MaxRetry + 1)
        BY DEF NilMeansStored
    <2>1. CopiesFitOf(m) /\ sent[m] \in SendStates /\ MaxRetry \in Nat
        BY ConstantsAssumption DEF IInv, TypeOK, CopiesFit, Messages
    <2>2. Cardinality(Copies(m)) \in Nat /\ Cardinality(Copies(m)) <= Attempts(sent[m])
        BY <2>1, FS_CardinalityType DEF CopiesFitOf
    <2>3. Attempts(sent[m]) \in Nat /\ Attempts(sent[m]) <= 2 * (MaxRetry + 1)
        BY <2>1 DEF Attempts, SendStates
    <2>4. Cardinality(Copies(m)) <= 2 * (MaxRetry + 1)
        BY <2>1, <2>2, <2>3
    <2> QED
        BY <2>1, <2>4 DEF CopiesFitOf
<1> QED
    BY <1>1, Invariant, PTL
=============================================================================
