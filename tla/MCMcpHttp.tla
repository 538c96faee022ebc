---- MODULE MCMcpHttp ----
(* Instance of McpHttp for TLC: one session id, and responses of at most   *)
(* two events with at most one answer.                                     *)
EXTENDS McpHttp

BodiesUpTo2 ==
  LET two == {<<a, b>> : a, b \in Events}
  IN {<<>>} \cup {<<a>> : a \in Events}
       \cup {body \in two : ~(body[1] \in Said /\ body[2] \in Said)}
==========================
