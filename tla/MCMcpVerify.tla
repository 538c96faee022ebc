---------------------------- MODULE MCMcpVerify ----------------------------
(***************************************************************************)
(* Instance of McpVerify for TLC: two servers, each one of the kinds of    *)
(* entry the repository's manifest has, and a process environment that     *)
(* may or may not hold the secret.                                         *)
(***************************************************************************)
EXTENDS McpVerify

MCNames == {"PATH", "TOKEN", "ALIAS"}
NoEnv   == [n \in MCNames |-> Nothing]

Stdio(decl, tools, probe) ==
  [enabled |-> TRUE, wanted |-> TRUE, transport |-> "stdio",
   decl |-> decl, header |-> Nothing, tools |-> tools, probe |-> probe]

Plain    == Stdio(NoEnv, {"list"}, FALSE)
Secreted == Stdio([NoEnv EXCEPT !["TOKEN"] = Ref("TOKEN")], {"list", "read"}, TRUE)
Extended == Stdio([NoEnv EXCEPT !["PATH"] = Ref("PATH")], {}, TRUE)
Aliased  == Stdio([NoEnv EXCEPT !["ALIAS"] = Ref("TOKEN")], {}, FALSE)
Linked   == Stdio([NoEnv EXCEPT !["TOKEN"] = Literal, !["ALIAS"] = Ref("TOKEN")],
                  {"list"}, FALSE)
Remote   == [Plain EXCEPT !.transport = "http", !.header = Ref("TOKEN"), !.probe = TRUE]
Parked   == [Secreted EXCEPT !.enabled = FALSE]
Unwanted == [Plain EXCEPT !.wanted = FALSE]

MCEntries == {Plain, Secreted, Aliased, Extended, Linked, Remote, Parked, Unwanted}
=============================================================================
