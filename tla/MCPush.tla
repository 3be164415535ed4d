------------------------------- MODULE MCPush -------------------------------
(* Instances of Push for TLC. *)
EXTENDS Push

\* A push that comes through any handler, and one that meets it in the hub.
OneAnyOneAlias ==
    LET any == CHOOSE p \in Pushes : TRUE IN
    [p \in Pushes |-> IF p = any THEN {"alias", "topic", "all", "conn"} ELSE {"alias"}]
=============================================================================
