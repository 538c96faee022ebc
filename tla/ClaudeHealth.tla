---------------------------- MODULE ClaudeHealth ----------------------------
(***************************************************************************)
(* The claude-health hook (hooks/claude-health/handler.py): on agent:start *)
(* it asks the proxy for the status of the Claude lane, at most once in a  *)
(* window, and posts what calls for somebody.  Sessions start concurrently *)
(* in one event loop: a handler runs alone until it awaits the proxy or    *)
(* Discord.  The clock is time.monotonic(), which counts from the boot of  *)
(* the node and survives a restart of the gateway.                         *)
(***************************************************************************)
EXTENDS Integers, Sequences

CONSTANTS
  Turns,        \* agent:start events of Discord sessions
  Throttle,     \* _THROTTLE_S
  ProbeTimeout, \* the total of the request to the proxy
  PostTimeout,  \* and of the one to Discord
  MaxClock      \* bound on the clock

ASSUME ClaudeHealthAssumption ==
  /\ ProbeTimeout \in Nat /\ PostTimeout \in Nat /\ MaxClock \in Nat
  /\ Throttle \in Nat /\ ProbeTimeout + PostTimeout < Throttle

VARIABLES
  clock,      \* time.monotonic()
  token,      \* whether DISCORD_BOT_TOKEN is set
  lastCheck,  \* _last_check
  logged,     \* _logged_kinds
  turn,       \* per event: where its handler is
  due,        \* when the call that a handler awaits times out
  probes,     \* history: the times at which this process began a probe
  last        \* history: the latest reading, and what was made of it

vars == <<clock, token, lastCheck, logged, turn, due, probes, last>>

-----------------------------------------------------------------------------
(* A reading of /health *)

\* What UPSTREAM_OUTCOMES publishes, and the kind of each.
OutcomeKind ==
  [success |-> "healthy", auth_rejected |-> "auth_failure",
   usage_limited |-> "usage_limit", other |-> "provider_error"]

\* "absent" is a body without an upstream object; a proxy may know outcomes
\* that this hook does not.
Outcomes == DOMAIN OutcomeKind \cup {"unobserved", "unknown", "absent"}

Readings ==
  [read : {"unreachable", "status", "junk"}] \cup
  [read : {"body"}, outcome : Outcomes, observed : BOOLEAN, stale : BOOLEAN,
   rejected : BOOLEAN, binaryOk : BOOLEAN]

\* Mutant: an outcome that aged past its lifetime counts.
ClassifyStaleToo(r) ==
  IF r.read # "body" THEN "provider_error"
  ELSE IF r.observed /\ r.outcome \in DOMAIN OutcomeKind THEN OutcomeKind[r.outcome]
  ELSE IF r.rejected THEN "auth_failure"
  ELSE IF ~r.binaryOk THEN "provider_error"
  ELSE "stale"

Classify(r) ==
  IF r.read # "body" THEN "provider_error"
  ELSE IF ~r.stale /\ r.observed /\ r.outcome \in DOMAIN OutcomeKind
    THEN OutcomeKind[r.outcome]
  ELSE IF r.rejected THEN "auth_failure"
  ELSE IF ~r.binaryOk THEN "provider_error"
  ELSE "stale"

Actionable == {"auth_failure", "usage_limit", "provider_error"}

-----------------------------------------------------------------------------
Init ==
  /\ clock \in 0..Throttle /\ token \in BOOLEAN
  /\ lastCheck = 0 /\ logged = {}
  /\ turn = [t \in Turns |-> "idle"] /\ due = [t \in Turns |-> 0]
  /\ probes = <<>> /\ last = [made |-> "nothing"]

\* Mutant: the window ends one tick late.
ThrottledTooLong == clock - lastCheck <= Throttle
Throttled == clock - lastCheck < Throttle

\* Mutant: the window is not claimed.
StartUnclaimed(t) ==
  /\ turn[t] = "idle"
  /\ \/ /\ Throttled
        /\ turn' = [turn EXCEPT ![t] = "skipped"]
        /\ UNCHANGED <<due, probes>>
     \/ /\ ~Throttled
        /\ turn' = [turn EXCEPT ![t] = "probe"]
        /\ due' = [due EXCEPT ![t] = clock + ProbeTimeout]
        /\ probes' = Append(probes, clock)
  /\ UNCHANGED <<clock, token, lastCheck, logged, last>>

\* agent:start: the window is claimed before the probe.
Start(t) ==
  /\ turn[t] = "idle"
  /\ \/ /\ Throttled
        /\ turn' = [turn EXCEPT ![t] = "skipped"]
        /\ UNCHANGED <<lastCheck, due, probes>>
     \/ /\ ~Throttled
        /\ lastCheck' = clock
        /\ turn' = [turn EXCEPT ![t] = "probe"]
        /\ due' = [due EXCEPT ![t] = clock + ProbeTimeout]
        /\ probes' = Append(probes, clock)
  /\ UNCHANGED <<clock, token, logged, last>>

\* What a handler does with a reading of kind k.
Made(k) ==
  IF k \in Actionable THEN (IF token THEN "post" ELSE "log")
  ELSE IF k = "stale" /\ k \notin logged THEN "log"
  ELSE "nothing"

\* The answer of the proxy, or what came in its place.
Read(t) ==
  /\ turn[t] = "probe"
  /\ \E reading \in Readings :
       LET k == Classify(reading) IN
         /\ last' = [reading |-> reading, kind |-> k, made |-> Made(k)]
         /\ logged' = IF k = "stale" THEN logged \cup {k} ELSE logged
         /\ turn' = [turn EXCEPT ![t] = IF Made(k) = "post" THEN "post" ELSE "over"]
         /\ due' = [due EXCEPT ![t] = IF Made(k) = "post" THEN clock + PostTimeout ELSE 0]
  /\ UNCHANGED <<clock, token, lastCheck, probes>>

\* Discord's answer is not looked at.
Posted(t) ==
  /\ turn[t] = "post"
  /\ turn' = [turn EXCEPT ![t] = "over"]
  /\ due' = [due EXCEPT ![t] = 0]
  /\ UNCHANGED <<clock, token, lastCheck, logged, probes, last>>

UnderWay == {t \in Turns : turn[t] \in {"probe", "post"}}

\* No call is awaited past its timeout.
Tick ==
  /\ clock < MaxClock /\ \A t \in UnderWay : clock < due[t]
  /\ clock' = clock + 1
  /\ UNCHANGED <<token, lastCheck, logged, turn, due, probes, last>>

\* The gateway is started anew, on the same node or on one that has just booted.
Restart ==
  /\ clock' \in {clock, 0}
  /\ lastCheck' = 0 /\ logged' = {}
  /\ turn' = [t \in Turns |-> IF turn[t] = "idle" THEN "idle" ELSE "over"]
  /\ due' = [t \in Turns |-> 0]
  /\ probes' = <<>> /\ last' = [made |-> "nothing"]
  /\ UNCHANGED token

Next == Tick \/ Restart \/ \E t \in Turns : Start(t) \/ Read(t) \/ Posted(t)

Spec == Init /\ [][Next]_vars

-----------------------------------------------------------------------------
\* Two probes of a process are a window apart.
OneProbePerWindow ==
  \A i, j \in DOMAIN probes : i < j => probes[j] - probes[i] >= Throttle

\* Two checks are never under way together.
OneCheckAtATime == \A t, u \in UnderWay : t = u

\* However many sessions start while a probe is awaited, "one probe per window
\* is enough": a check is over, with its alert, before the next one begins, so
\* alerts are posted in the order of what they report (handler.py:50-51,
\* 285-337).
ChecksApart == OneProbePerWindow /\ OneCheckAtATime

\* A session that starts without a probe has one of this process in the window
\* before it, unless the node came up within the last window
\* (handler.py:285-287).
SkipsAreCovered ==
  [][\A t \in Turns : turn[t] = "idle" /\ turn'[t] = "skipped" =>
       clock < Throttle \/ \E i \in DOMAIN probes : clock - probes[i] < Throttle]_vars

\* Whether a real request completed recently enough to be taken at its word.
Fresh(r) ==
  r.read = "body" /\ r.observed /\ ~r.stale /\ r.outcome \in DOMAIN OutcomeKind

\* The renewal of the OAuth session is prescribed on a conclusive rejection
\* only, waiting on a fresh limit only, a fresh result is never overruled by
\* the auth probe, and silence means a fresh success or that nothing
\* conclusive is known (handler.py:18-38, 141-255).
AlertsAreJust ==
  "reading" \in DOMAIN last =>
    LET r == last.reading
        told(k) == last.kind = k /\ (token => last.made = "post")
        silent == last.made # "post" /\ last.kind \notin Actionable
    IN
      /\ Fresh(r) /\ r.outcome = "success" => silent
      /\ Fresh(r) /\ r.outcome = "auth_rejected" => told("auth_failure")
      /\ Fresh(r) /\ r.outcome = "usage_limited" => told("usage_limit")
      /\ Fresh(r) /\ r.outcome = "other" => told("provider_error")
      /\ r.read # "body" => told("provider_error")
      /\ last.kind = "auth_failure" /\ ~Fresh(r) => r.rejected
      /\ silent /\ ~Fresh(r) => ~r.rejected /\ r.binaryOk
      /\ last.kind = "healthy" => Fresh(r)
=============================================================================
