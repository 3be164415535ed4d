------------------------------ MODULE Presence ------------------------------
(***************************************************************************)
(* What the broker promises about who is reachable, with no locks, threads *)
(* or callbacks.  A user (an alias of a business) is present while it has  *)
(* at least one connection; the topics its connections authenticated for   *)
(* stay subscribed until the last of them leaves; a connection joins at    *)
(* most once in its life, as the user and for the topic of its session.    *)
(* Broker.tla implements this specification.                               *)
(***************************************************************************)
CONSTANTS Conns, Groups, Topics

VARIABLES
    members,  \* members[g]: the connections a push to user g reaches
    topics,   \* topics[g]: the topics whose pushes reach user g
    joined    \* who ever joined: <<connection, user, topic>>

vars == <<members, topics, joined>>

Init ==
    /\ members = [g \in Groups |-> {}]
    /\ topics = [g \in Groups |-> {}]
    /\ joined = {}

Join(c, g, t) ==
    /\ \A j \in joined : j[1] # c
    /\ members' = [members EXCEPT ![g] = @ \union {c}]
    /\ topics' = [topics EXCEPT ![g] = @ \union {t}]
    /\ joined' = joined \union {<<c, g, t>>}

Leave(c, g) ==
    /\ c \in members[g]
    /\ members' = [members EXCEPT ![g] = @ \ {c}]
    /\ topics' = [topics EXCEPT ![g] = IF members[g] = {c} THEN {} ELSE @]
    /\ UNCHANGED joined

Next ==
    \E c \in Conns, g \in Groups :
        \/ \E t \in Topics : Join(c, g, t)
        \/ Leave(c, g)

Spec == Init /\ [][Next]_vars
=============================================================================
