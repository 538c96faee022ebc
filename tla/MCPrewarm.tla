----------------------------- MODULE MCPrewarm -----------------------------
(***************************************************************************)
(* Instance of Prewarm for TLC: two npm servers with a cache each and one  *)
(* slot between them, one uv and one deno server, two releases of each     *)
(* package.  Three boots: install, interrupted upgrade, return.            *)
(***************************************************************************)
EXTENDS Prewarm

CONSTANTS grafana, github
MCNpm     == {grafana, github}
MCCacheOf == [s \in MCNpm |-> s]
=============================================================================
