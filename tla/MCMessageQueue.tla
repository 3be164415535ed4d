--------------------------- MODULE MCMessageQueue ---------------------------
(* Instance of MessageQueue for TLC. *)
EXTENDS MessageQueue

Client(n, k, i) == [node |-> n, kind |-> k, id |-> i]
Message(k, i) == [kind |-> k, id |-> i]

\* Two nodes, a topic each of them consumes with one client.
MCClients == {Client("n1", "topic", 1), Client("n2", "topic", 1)}
MCPushes == {Message("topic", 1)}
MCForeign == {Message("topic", 2)}
=============================================================================
