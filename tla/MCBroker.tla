------------------------------ MODULE MCBroker ------------------------------
(* Broker.tla on small instances. *)
EXTENDS Broker, TLC

CONSTANTS c1, c2, l1, l2, h1, h2, app, app2, alice, news, sport

\* Every connection has an event loop of its own.
OwnLoops == (c1 :> l1) @@ (c2 :> l2)
OneLoop == c1 :> l1

Claim(b, a, t, cb) == [business |-> b, alias |-> a, topic |-> t, callback |-> cb]

\* One user with two topics: the connections share a hub.
OneUser == {Claim(app, alice, news, TRUE), Claim(app, alice, sport, TRUE)}

\* And a namesake in a business that wants no callbacks.
TwoUsers == OneUser \union {Claim(app2, alice, news, FALSE)}
=============================================================================
