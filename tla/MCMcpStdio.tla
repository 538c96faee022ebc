---- MODULE MCMcpStdio ----
(* Instance of McpStdio for TLC: a leader and one descendant, a channel of *)
(* one slot so that the scanner does block, three requests so that the     *)
(* cursor is followed once.                                                *)
EXTENDS McpStdio
===========================
