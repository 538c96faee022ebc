----------------------------- MODULE McpVerify -----------------------------
(***************************************************************************)
(* `gitopsctl mcp verify` (internal/mcp/verify.go): every enabled server   *)
(* of the manifest is judged in turn - placeholders, handshake with one    *)
(* retry, declared tools, and in drift mode the auth probe - and the exit  *)
(* code says whether all of them passed.  A handshake or a probe is the    *)
(* attempt of McpAttempt; here only its outcome is kept.                   *)
(***************************************************************************)
EXTENDS ChildEnv

CONSTANTS
  N,          \* number of servers in the manifest, numbered in name order
  Tools,      \* tool names
  Entries,    \* what an entry of the manifest may be
  Attempts    \* verifyAttempts

ASSUME McpVerifyAssumption ==
  /\ N \in Nat /\ Attempts \in Nat \ {0}
  /\ Entries \subseteq [enabled : BOOLEAN, wanted : BOOLEAN,
                        transport : {"stdio", "http"},
                        decl : [Names -> Templates], header : Templates,
                        tools : SUBSET Tools, probe : BOOLEAN]

Servers == 1..N

VARIABLES
  mode,       \* "preflight" or "drift"
  proc,       \* names set in the process environment
  entry,      \* the manifest: Servers -> Entries; "wanted" is --only
  todo,       \* servers still to be judged; the least comes next
  phase,      \* what happens to it next
  attempt,    \* the number of the handshake attempt
  surface,    \* the tools the current server's handshake reported
  verdict,    \* per server: "none", "pass", or the reason it failed
  exit,       \* "none" while running, then the exit code
  calls       \* history, per server: its handshakes and probes, in order

inputs == <<mode, proc, entry>>
vars == <<inputs, todo, phase, attempt, surface, verdict, exit, calls>>

Select  == {s \in Servers : entry[s].enabled /\ entry[s].wanted}

\* Mutant: the servers are not taken in name order.
currentLast == CHOOSE s \in todo : \A t \in todo : s >= t
current == CHOOSE s \in todo : \A t \in todo : s <= t

Init ==
  /\ mode \in {"preflight", "drift"}
  /\ proc \in SUBSET Names
  /\ entry \in [Servers -> Entries]
  /\ todo = {} /\ phase = "load" /\ attempt = 0 /\ surface = {}
  /\ verdict = [s \in Servers |-> "none"]
  /\ exit = "none"
  /\ calls = [s \in Servers |-> <<>>]

-----------------------------------------------------------------------------
\* LoadManifest either fails, and the run with it, or the servers are selected.
Load ==
  /\ phase = "load"
  /\ \/ phase' = "done" /\ exit' = "1" /\ UNCHANGED todo
     \/ phase' = "server" /\ todo' = Select /\ UNCHANGED exit
  /\ UNCHANGED <<inputs, attempt, surface, verdict, calls>>

\* The current server's verdict is v, and the loop goes on to the next one.
Judge(v) ==
  /\ verdict' = [verdict EXCEPT ![current] = v]
  /\ todo' = todo \ {current}
  /\ phase' = "server"

\* Mutant: the missing placeholders are reported and the server is tried anyway.
CheckPlaceholdersReportOnly ==
  /\ phase = "server" /\ todo # {}
  /\ phase' = "attempt" /\ attempt' = 1
  /\ UNCHANGED <<inputs, todo, surface, verdict, exit, calls>>

\* Placeholders are looked at before the server is started.  The attempt that
\* follows computes an environment of its own.
CheckPlaceholders ==
  /\ phase = "server" /\ todo # {}
  /\ \E result \in ChildEnvs(entry[current].decl, proc) :
       \/ /\ result.missing # {}
          /\ Judge("unresolved") /\ UNCHANGED attempt
       \/ /\ result.missing = {}
          /\ phase' = "attempt" /\ attempt' = 1 /\ UNCHANGED <<verdict, todo>>
  /\ UNCHANGED <<inputs, surface, exit, calls>>

\* What an attempt may be made with: the child's environment, or the header.
ClientViews(e) ==
  IF e.transport = "stdio"
    THEN {result.env : result \in ChildEnvs(e.decl, proc)}
    ELSE {[n \in Names |-> IF e.header = Nothing THEN Unset
                           ELSE Expand(e.header, ProcessEnv(proc))]}

\* One attempt on the current server, with its outcome.
Call(what, ok, live) ==
  \E view \in ClientViews(entry[current]) :
    calls' = [calls EXCEPT ![current] =
                Append(@, [what |-> what, view |-> view, ok |-> ok, live |-> live])]

HandshakeOk(live) ==
  /\ phase' = "tools" /\ surface' = live
  /\ Call("handshake", TRUE, live)
  /\ UNCHANGED <<attempt, verdict, todo>>

\* Mutant: a failed handshake is final.
HandshakeFailedNoRetry ==
  /\ Call("handshake", FALSE, {})
  /\ Judge("handshake")
  /\ UNCHANGED <<surface, attempt>>

HandshakeFailed ==
  /\ Call("handshake", FALSE, {})
  /\ \/ /\ attempt < Attempts
        /\ attempt' = attempt + 1
        /\ UNCHANGED <<phase, verdict, todo>>
     \/ /\ attempt = Attempts
        /\ Judge("handshake")
        /\ UNCHANGED attempt
  /\ UNCHANGED surface

\* Mutant: the deadline of a stdio handshake is one of each read, so that it too
\* lasts as long as there are cursors.
PagesOnAlways ==
  /\ phase' = "paging"
  /\ UNCHANGED <<attempt, surface, verdict, todo, calls>>

\* Each request of an HTTP handshake has a timeout, their number has no bound: a
\* server may give cursors for ever.
PagesOn ==
  /\ entry[current].transport = "http"
  /\ phase' = "paging"
  /\ UNCHANGED <<attempt, surface, verdict, todo, calls>>

Handshake ==
  /\ phase = "attempt"
  /\ \/ \E live \in SUBSET Tools : HandshakeOk(live)
     \/ HandshakeFailed
     \/ PagesOn
  /\ UNCHANGED <<inputs, exit>>

MissingTools(e) == e.tools \ surface

Probes(e) == mode = "drift" /\ e.probe

CheckTools ==
  /\ phase = "tools"
  /\ \/ MissingTools(entry[current]) # {} /\ Judge("tools")
     \/ /\ MissingTools(entry[current]) = {}
        /\ ~Probes(entry[current])
        /\ Judge("pass")
     \/ /\ MissingTools(entry[current]) = {}
        /\ Probes(entry[current])
        /\ phase' = "probe" /\ UNCHANGED <<verdict, todo>>
  /\ UNCHANGED <<inputs, attempt, surface, exit, calls>>

\* The probe is not retried.
Probe ==
  /\ phase = "probe"
  /\ \/ Judge("pass") /\ Call("probe", TRUE, {})
     \/ Judge("probe") /\ Call("probe", FALSE, {})
  /\ UNCHANGED <<inputs, attempt, surface, exit>>

\* Mutant: only the last server's verdict counts.
FailuresOfLast == {s \in Servers : s = N /\ verdict[s] \notin {"none", "pass"}}
Failures == {s \in Servers : verdict[s] \notin {"none", "pass"}}

Finish ==
  /\ phase = "server" /\ todo = {}
  /\ phase' = "done"
  /\ exit' = IF Failures # {} THEN "1" ELSE "0"
  /\ UNCHANGED <<inputs, todo, attempt, surface, verdict, calls>>

Next == Load \/ CheckPlaceholders \/ Handshake \/ CheckTools \/ Probe \/ Finish

Spec == Init /\ [][Next]_vars

\* The loop is sequential, and every attempt ends that does not page for ever
\* (McpStdio!DeadlineEndsIt, McpHttp!EndsUnlessCursors).
FairSpec == Spec /\ WF_vars(Next)

-----------------------------------------------------------------------------
Verdicts == {"none", "pass", "unresolved", "handshake", "tools", "probe"}

\* The evidence a call log gives for and against a server.
Handshakes(s) == {i \in 1..Len(calls[s]) : calls[s][i].what = "handshake"}
Probings(s)   == {i \in 1..Len(calls[s]) : calls[s][i].what = "probe"}
Certified(s)  == \E i \in Handshakes(s) :
                   calls[s][i].ok /\ entry[s].tools \subseteq calls[s][i].live
ProbedOk(s)   == \E i \in Probings(s) : calls[s][i].ok

\* Exit code 0 is evidence about every enabled (--only) server of the
\* manifest: each of them completed a handshake that listed all the tools it
\* declares and, in drift mode, a successful call of its auth probe - no
\* server is skipped because an earlier one failed (verify.go:47-143).
ExitEarned ==
  exit = "0" => \A s \in Select : Certified(s) /\ (Probes(entry[s]) => ProbedOk(s))

\* A server is failed for its handshake only when every one of verifyAttempts
\* attempts failed: "a single retry absorbs both; a genuine break fails
\* twice" (verify.go:30-36).
SingleFaultAbsorbed ==
  \A s \in Servers :
    verdict[s] = "handshake" =>
      /\ Cardinality(Handshakes(s)) = Attempts
      /\ \A i \in Handshakes(s) : ~calls[s][i].ok

\* When a stdio server is started with a placeholder left as text, its entry
\* refers to a name that only another part of the entry declares: whatever resolves from
\* the process environment or not at all is caught before the server is
\* started (verify.go:63-75, manifest.go:171-194).
LiteralNeedsChain ==
  \A s \in Servers : \A i \in 1..Len(calls[s]) :
    (entry[s].transport = "stdio" /\ \E n \in Names : calls[s][i].view[n] = Placeholder)
      => Chained(entry[s].decl) \ Inherited(proc) # {}

\* Servers are judged in name order, each once and for good, and one is
\* contacted only between its predecessor's verdict and its own
\* (verify.go:59-128).
OneAtATime ==
  [][/\ \A s \in Servers : verdict[s] # "none" =>
          verdict'[s] = verdict[s] /\ calls'[s] = calls[s]
     /\ \A s \in Servers : calls'[s] # calls[s] \/ verdict'[s] # verdict[s] =>
          s \in Select /\ \A t \in Select : t < s => verdict[t] # "none"]_vars

\* The run ends with an exit code, whatever the servers answer, unless one that
\* is reached over HTTP gives cursors for ever; no stdio server holds it up
\* (verify.go:59-166, http.go:170-194).
RunEnds ==
  <>(exit # "none" \/ (phase = "paging" /\ entry[current].transport = "http"))

\* "Placeholders resolved from the process environment [...] falling back to
\* values declared here" (manifest.go:171-175): a reference to a name the entry
\* declares as a literal resolves.  What the code does depends on the order of
\* the range over the map.
DeclaredFallback ==
  \A s \in Servers :
    Refs(entry[s].decl) \subseteq Inherited(proc) \cup Literals(entry[s].decl)
      => verdict[s] # "unresolved"
=============================================================================
