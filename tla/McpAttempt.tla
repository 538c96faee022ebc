----------------------------- MODULE McpAttempt -----------------------------
(***************************************************************************)
(* What an attempt to talk to an MCP server promises, over either          *)
(* transport: HandshakeStdio, HandshakeHTTP (initialize, then tools/list   *)
(* until a page has no cursor) and ProbeStdio, ProbeHTTP (initialize, then *)
(* one tools/call).  Answers are taken one at a time; each decides whether *)
(* the attempt goes on; the attempt may be given up at any point; a        *)
(* verdict is final.                                                       *)
(***************************************************************************)

VARIABLES
  mode,      \* "handshake" or "probe"
  answered,  \* initialize has been answered
  last,      \* what the last answer said: "ok", "more" (a cursor), "error"
  outcome    \* "open", "ok" or "failed"

vars == <<mode, answered, last, outcome>>

Init ==
  /\ mode \in {"handshake", "probe"}
  /\ answered = FALSE
  /\ last = "none"
  /\ outcome = "open"

\* The judgement on an answer.
Judge(said) ==
  IF said = "error" THEN "failed"
  ELSE IF ~answered \/ (said = "more" /\ mode = "handshake") THEN "open"
  ELSE "ok"

Answer(said) ==
  /\ outcome = "open"
  /\ answered' = TRUE
  /\ last' = said
  /\ outcome' = Judge(said)
  /\ UNCHANGED mode

GiveUp ==
  /\ outcome = "open"
  /\ outcome' = "failed"
  /\ UNCHANGED <<mode, answered, last>>

Next == GiveUp \/ \E said \in {"ok", "more", "error"} : Answer(said)

Spec == Init /\ [][Next]_vars
=============================================================================
