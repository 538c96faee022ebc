--------------------------- MODULE McpVerifyProofs ---------------------------
(***************************************************************************)
(* Proofs about McpVerify, for every number of servers and of attempts,    *)
(* every set of tools and every manifest: exit code 0 is evidence about    *)
(* every selected server, a single failed handshake fails nobody, the      *)
(* servers are judged one after the other, and a placeholder reaches a     *)
(* server only through a name that its own entry declares.                 *)
(*                                                                         *)
(* The environment of a child is computed by recursion over an order of    *)
(* the declared names: the last part is by induction over that order.      *)
(***************************************************************************)
EXTENDS McpVerify, WellFoundedInduction, FiniteSetTheorems, TLAPS

\* What a logged call looks like, whatever it was made with.
Views  == UNION {ClientViews(e) : e \in Entries}
Logged == [what : {"handshake", "probe"}, view : Views, ok : BOOLEAN, live : SUBSET Tools]

Types ==
  /\ mode \in {"preflight", "drift"} /\ proc \in SUBSET Names
  /\ entry \in [Servers -> Entries]
  /\ todo \in SUBSET Servers /\ surface \in SUBSET Tools
  /\ phase \in {"load", "server", "attempt", "tools", "probe", "paging", "done"}
  /\ attempt \in 0..Attempts
  /\ verdict \in [Servers -> Verdicts]
  /\ exit \in {"none", "0", "1"}
  /\ calls \in [Servers -> Seq(Logged)]

\* The server under judgement, when there is one.
Engaged == phase \in {"attempt", "tools", "probe", "paging"}

\* The loop: what is left to judge was not touched, and what is not left was
\* judged.
Loop ==
  /\ phase = "load" => todo = {}
  /\ Engaged => todo # {}
  /\ exit # "none" => phase = "done" /\ todo = {}
  /\ todo \subseteq Select
  /\ \A s \in Servers :
       /\ s \in todo \/ phase = "load" => verdict[s] = "none"
       /\ verdict[s] # "none" => s \in Select
       /\ s \in todo /\ ~(Engaged /\ s = current) => calls[s] = <<>>
       /\ phase = "load" => calls[s] = <<>>
       /\ s \in Select \ todo /\ phase \notin {"load", "done"} => verdict[s] # "none"

\* All n calls so far were handshakes, and failed.
AllFailed(s, n) ==
  /\ Len(calls[s]) = n
  /\ \A i \in 1..n : calls[s][i].what = "handshake" /\ ~calls[s][i].ok

\* The handshake that gave the surface is in the log.
Reported(s) == \E i \in Handshakes(s) : calls[s][i].ok /\ calls[s][i].live = surface

\* The current server's log, by phase.
Progress ==
  /\ phase = "attempt" => attempt >= 1 /\ AllFailed(current, attempt - 1)
  /\ phase \in {"tools", "probe"} => Reported(current)
  /\ phase = "probe" => MissingTools(entry[current]) = {} /\ Probes(entry[current])

\* What a verdict is worth.
Evidence ==
  \A s \in Servers :
    /\ verdict[s] = "pass" => Certified(s) /\ (Probes(entry[s]) => ProbedOk(s))
    /\ verdict[s] = "handshake" => AllFailed(s, Attempts)

ExitIsZero == exit = "0" => \A s \in Select : verdict[s] = "pass"

Inv == Types /\ Loop /\ Progress /\ Evidence /\ ExitIsZero

-----------------------------------------------------------------------------
\* A set of naturals that is not empty has a least element.
LEMMA Least ==
  ASSUME NEW S \in SUBSET Nat, S # {}
  PROVE  \E k \in S : \A m \in S : k <= m
<1>1. PICK k \in S : \A m \in S : ~(<<m, k>> \in OpToRel(<, Nat))
  BY NatLessThanWellFounded, WFMin
<1>2. \A m \in S : <<m, k>> \in OpToRel(<, Nat) <=> m < k
  BY DEF OpToRel
<1>3. \A m \in S : ~(m < k)
  BY <1>1, <1>2, Zenon
<1>. QED  BY <1>3

\* current is the least of the servers still to be judged.
LEMMA CurrentIsLeast ==
  ASSUME todo \in SUBSET Servers, todo # {}
  PROVE  current \in todo /\ \A t \in todo : current <= t
<1>1. todo \in SUBSET Nat
  BY McpVerifyAssumption DEF Servers
<1>. QED  BY <1>1, Least DEF current

\* Nothing has happened initially.
LEMMA InitInv == Init => Inv
BY McpVerifyAssumption
   DEF Init, Inv, Types, Loop, Engaged, Progress, Evidence, ExitIsZero, Verdicts

\* The selection follows the verdicts, and nobody is touched by it.
LEMMA LoadStep == Inv /\ Load => Inv'
BY DEF Load, Inv, Types, Loop, Engaged, Progress, Evidence, ExitIsZero, Select, inputs,
       AllFailed, Reported, Certified, ProbedOk, Handshakes, Probings, Probes,
       MissingTools, current, Logged, Views, ClientViews

-----------------------------------------------------------------------------
(* The two things a step does to the current server *)

\* A call is logged after the ones before it, and in no other log.
LEMMA CallStep ==
  ASSUME Inv, todo # {},
         NEW what \in {"handshake", "probe"}, NEW ok \in BOOLEAN, NEW live \in SUBSET Tools,
         Call(what, ok, live)
  PROVE  /\ calls' \in [Servers -> Seq(Logged)]
         /\ \A s \in Servers \ {current} : calls'[s] = calls[s]
         /\ Len(calls'[current]) = Len(calls[current]) + 1
         /\ \A i \in 1..Len(calls[current]) : calls'[current][i] = calls[current][i]
         /\ LET last == calls'[current][Len(calls[current]) + 1]
            IN  last.what = what /\ last.ok = ok /\ last.live = live
<1>1. current \in Servers /\ calls \in [Servers -> Seq(Logged)]
  BY CurrentIsLeast DEF Inv, Types
<1>2. PICK view \in ClientViews(entry[current]) :
        calls' = [calls EXCEPT ![current] =
                    Append(@, [what |-> what, view |-> view, ok |-> ok, live |-> live])]
  BY DEF Call
<1>3. view \in Views
  BY <1>1, <1>2 DEF Inv, Types, Views
<1>4. [what |-> what, view |-> view, ok |-> ok, live |-> live] \in Logged
  BY <1>3 DEF Logged
<1>. QED  BY <1>1, <1>2, <1>4

\* A judgement that the log bears out keeps the invariant.
LEMMA JudgeStep ==
  ASSUME Inv, todo # {}, Engaged \/ phase = "server",
         NEW v \in Verdicts \ {"none"}, Judge(v), UNCHANGED <<inputs, surface, exit>>,
         attempt' \in 0..Attempts,
         calls' \in [Servers -> Seq(Logged)],
         \A s \in Servers \ {current} : calls'[s] = calls[s],
         NEW c, c = current,
         v = "pass" => Certified(c)' /\ (Probes(entry[c])' => ProbedOk(c)'),
         v = "handshake" => AllFailed(c, Attempts)'
  PROVE  Inv'
<1>1. c \in todo /\ c \in Servers /\ c \in Select
  BY CurrentIsLeast DEF Inv, Types, Loop
<1>2. /\ verdict' = [verdict EXCEPT ![c] = v] /\ todo' = todo \ {c} /\ phase' = "server"
      /\ mode' = mode /\ proc' = proc /\ entry' = entry /\ surface' = surface /\ exit' = exit
      /\ Select' = Select
  BY DEF Judge, inputs, Select
<1>3. exit = "none"
  BY DEF Inv, Loop, Types, Engaged
<1>4. Types'
  <2>1. Logged' = Logged
    BY <1>2 DEF Logged, Views, ClientViews
  <2>. QED  BY <1>1, <1>2, <2>1 DEF Inv, Types
<1>5. Loop'
  <2>1. \A s \in Servers : s # c =>
          verdict'[s] = verdict[s] /\ calls'[s] = calls[s] /\ (s \in todo' <=> s \in todo)
    BY <1>2 DEF Inv, Types
  <2>2. verdict'[c] = v /\ c \notin todo'
    BY <1>1, <1>2 DEF Inv, Types
  <2>3. ~Engaged'
    BY <1>2 DEF Engaged
  <2>. QED  BY <1>1, <1>2, <1>3, <2>1, <2>2, <2>3 DEF Inv, Loop, Engaged
<1>6. Progress' /\ ExitIsZero'
  BY <1>2, <1>3 DEF Progress, ExitIsZero
<1>7. Evidence'
  <2>1. ASSUME NEW s \in Servers, s # c
        PROVE  /\ verdict'[s] = verdict[s]
               /\ (Certified(s)' <=> Certified(s)) /\ (ProbedOk(s)' <=> ProbedOk(s))
               /\ (Probes(entry[s])' <=> Probes(entry[s]))
               /\ (AllFailed(s, Attempts)' <=> AllFailed(s, Attempts))
    <3>1. calls'[s] = calls[s] /\ entry' = entry /\ mode' = mode /\ verdict'[s] = verdict[s]
      BY <1>2, <2>1 DEF Inv, Types
    <3>2. /\ (Certified(s)' <=> Certified(s)) /\ (ProbedOk(s)' <=> ProbedOk(s))
      BY <3>1 DEF Certified, ProbedOk, Handshakes, Probings
    <3>3. Probes(entry[s])' <=> Probes(entry[s])
      BY <3>1 DEF Probes
    <3>4. AllFailed(s, Attempts)' <=> AllFailed(s, Attempts)
      BY <3>1 DEF AllFailed
    <3>. QED  BY <3>1, <3>2, <3>3, <3>4
  <2>2. verdict'[c] = v
    BY <1>1, <1>2 DEF Inv, Types
  <2>. QED  BY <2>1, <2>2 DEF Inv, Evidence
<1>. QED  BY <1>4, <1>5, <1>6, <1>7 DEF Inv

\* So does a step that leaves the verdicts to come and logs what the next
\* phase expects.
LEMMA ProceedStep ==
  ASSUME Inv, todo # {}, Engaged \/ phase = "server",
         UNCHANGED <<inputs, todo, verdict, exit>>, Engaged',
         phase' \in {"attempt", "tools", "probe", "paging"},
         surface' \in SUBSET Tools, attempt' \in 0..Attempts,
         calls' \in [Servers -> Seq(Logged)],
         \A s \in Servers \ {current} : calls'[s] = calls[s],
         Progress'
  PROVE  Inv'
<1>1. current \in todo /\ current' = current /\ Select' = Select
  BY CurrentIsLeast DEF Inv, Types, current, Select, inputs
<1>2. exit = "none"
  BY DEF Inv, Loop, Types, Engaged
<1>3. Types'
  <2>1. Logged' = Logged
    BY DEF Logged, Views, ClientViews, inputs
  <2>. QED  BY <2>1 DEF Inv, Types, inputs
<1>4. Loop'
  BY <1>1, <1>2 DEF Inv, Types, Loop, Engaged
<1>5. Evidence'
  <2>1. ASSUME NEW s \in Servers, verdict[s] # "none"
        PROVE  calls'[s] = calls[s]
    BY <1>1, <2>1 DEF Inv, Loop
  <2>. QED
    BY <2>1 DEF Inv, Evidence, Certified, ProbedOk, Handshakes, Probings, Probes, AllFailed,
                inputs
<1>6. ExitIsZero'
  BY <1>2 DEF ExitIsZero
<1>. QED  BY <1>3, <1>4, <1>5, <1>6 DEF Inv

-----------------------------------------------------------------------------
(* The actions *)

\* An unresolved placeholder is the verdict, and otherwise the log is empty
\* when the first attempt begins.
LEMMA PlaceholdersStep == Inv /\ CheckPlaceholders => Inv'
<1>. SUFFICES ASSUME Inv, CheckPlaceholders PROVE Inv'
  OBVIOUS
<1>1. /\ phase = "server" /\ todo # {} /\ calls' = calls
      /\ UNCHANGED <<inputs, surface, exit>>
      /\ attempt \in 0..Attempts /\ surface \in SUBSET Tools
      /\ calls \in [Servers -> Seq(Logged)]
  BY DEF CheckPlaceholders, Inv, Types
<1>2. CASE Judge("unresolved") /\ UNCHANGED attempt
  <2>1. "unresolved" \in Verdicts \ {"none"}
    BY DEF Verdicts
  <2>. QED  BY <1>1, <1>2, <2>1, JudgeStep
<1>3. CASE phase' = "attempt" /\ attempt' = 1 /\ UNCHANGED <<verdict, todo>>
  <2>1. current \in todo /\ current' = current
    BY <1>1, <1>3, CurrentIsLeast DEF Inv, Types, current
  <2>2. calls[current] = <<>>
    BY <1>1, <2>1 DEF Inv, Types, Loop, Engaged
  <2>3. Progress' /\ Engaged'
    BY <1>1, <1>3, <2>1, <2>2 DEF Progress, Engaged, AllFailed
  <2>4. attempt' \in 0..Attempts
    BY <1>3, McpVerifyAssumption
  <2>. QED  BY <1>1, <1>3, <2>3, <2>4, ProceedStep
<1>. QED  BY <1>2, <1>3 DEF CheckPlaceholders

\* A handshake's surface is in the log; a failed one is one more failure.
LEMMA HandshakeStep == Inv /\ Handshake => Inv'
<1>. SUFFICES ASSUME Inv, Handshake PROVE Inv'
  OBVIOUS
<1>1. /\ phase = "attempt" /\ todo # {} /\ Engaged /\ UNCHANGED <<inputs, exit>>
      /\ attempt \in 1..Attempts /\ AllFailed(current, attempt - 1)
      /\ surface \in SUBSET Tools
      /\ current \in todo /\ current \in Servers
  BY CurrentIsLeast DEF Handshake, Inv, Types, Loop, Engaged, Progress
<1>2. ASSUME NEW live \in SUBSET Tools, HandshakeOk(live)
      PROVE  Inv'
  <2>1. /\ phase' = "tools" /\ surface' = live /\ UNCHANGED <<attempt, verdict, todo>>
        /\ current' = current
    BY <1>2 DEF HandshakeOk, current
  <2>2. Call("handshake", TRUE, live)
    BY <1>2 DEF HandshakeOk
  <2>3. /\ calls' \in [Servers -> Seq(Logged)]
        /\ \A s \in Servers \ {current} : calls'[s] = calls[s]
        /\ Len(calls'[current]) = Len(calls[current]) + 1
        /\ calls'[current][Len(calls[current]) + 1].what = "handshake"
        /\ calls'[current][Len(calls[current]) + 1].ok
        /\ calls'[current][Len(calls[current]) + 1].live = live
    BY <1>1, <2>2, CallStep
  <2>4. Len(calls[current]) + 1 \in 1..Len(calls'[current])
    BY <1>1, <2>3 DEF Inv, Types
  <2>5. Reported(current)'
    BY <2>1, <2>3, <2>4 DEF Reported, Handshakes
  <2>6. Progress' /\ Engaged'
    BY <2>1, <2>5 DEF Progress, Engaged
  <2>. QED  BY <1>1, <2>1, <2>3, <2>6, ProceedStep
<1>3. CASE HandshakeFailed
  <2>1. Call("handshake", FALSE, {}) /\ UNCHANGED surface
    BY <1>3 DEF HandshakeFailed
  <2>2. /\ calls' \in [Servers -> Seq(Logged)]
        /\ \A s \in Servers \ {current} : calls'[s] = calls[s]
        /\ Len(calls'[current]) = Len(calls[current]) + 1
        /\ \A i \in 1..Len(calls[current]) : calls'[current][i] = calls[current][i]
        /\ calls'[current][Len(calls[current]) + 1].what = "handshake"
        /\ calls'[current][Len(calls[current]) + 1].ok = FALSE
    <3>1. {} \in SUBSET Tools /\ FALSE \in BOOLEAN /\ "handshake" \in {"handshake", "probe"}
      OBVIOUS
    <3>. QED  BY <1>1, <2>1, <3>1, CallStep
  <2>3. /\ Len(calls'[current]) = attempt
        /\ \A i \in 1..attempt : calls'[current][i].what = "handshake"
                                 /\ ~calls'[current][i].ok
    BY <1>1, <2>2 DEF AllFailed
  <2>4. CASE attempt < Attempts /\ attempt' = attempt + 1 /\ UNCHANGED <<phase, verdict, todo>>
    <3>1. current' = current /\ attempt' \in 0..Attempts /\ attempt' - 1 = attempt
          /\ attempt' >= 1
      BY <1>1, <2>4, McpVerifyAssumption DEF current
    <3>2. AllFailed(current, attempt - 1)'
      BY <2>3, <3>1 DEF AllFailed
    <3>3. Progress' /\ Engaged'
      BY <1>1, <2>4, <3>1, <3>2 DEF Progress, Engaged
    <3>. QED  BY <1>1, <2>1, <2>2, <2>4, <3>1, <3>3, ProceedStep
  <2>5. CASE attempt = Attempts /\ Judge("handshake") /\ UNCHANGED attempt
    <3>1. "handshake" \in Verdicts \ {"none"} /\ attempt' \in 0..Attempts
      BY <1>1, <2>5 DEF Verdicts
    <3>. DEFINE c == current
    <3>2. Len(calls'[c]) = Attempts
          /\ \A i \in 1..Attempts : calls'[c][i].what = "handshake" /\ ~calls'[c][i].ok
      BY <2>3, <2>5
    <3>. HIDE DEF c
    <3>3. PICK k : k = c
      OBVIOUS
    <3>4. AllFailed(k, Attempts)'
      BY <3>2, <3>3 DEF AllFailed
    <3>5. k = current
      BY <3>3 DEF c
    <3>. QED  BY <1>1, <2>1, <2>2, <2>5, <3>1, <3>4, <3>5, JudgeStep
  <2>. QED  BY <1>3, <2>4, <2>5 DEF HandshakeFailed
<1>4. CASE PagesOn
  <2>1. /\ phase' = "paging" /\ UNCHANGED <<attempt, surface, verdict, todo, calls>>
        /\ attempt \in 0..Attempts /\ calls \in [Servers -> Seq(Logged)]
    BY <1>4 DEF PagesOn, Inv, Types
  <2>2. Progress' /\ Engaged'
    BY <2>1 DEF Progress, Engaged
  <2>. QED  BY <1>1, <2>1, <2>2, ProceedStep
<1>. QED  BY <1>2, <1>3, <1>4 DEF Handshake

\* The surface is compared with the declaration, and in drift mode a server
\* with a probe goes on to it.
LEMMA ToolsStep == Inv /\ CheckTools => Inv'
<1>. SUFFICES ASSUME Inv, CheckTools PROVE Inv'
  OBVIOUS
<1>1. /\ phase = "tools" /\ todo # {} /\ Engaged /\ UNCHANGED <<inputs, exit>>
      /\ Reported(current) /\ UNCHANGED <<attempt, surface, calls>>
      /\ attempt \in 0..Attempts /\ surface \in SUBSET Tools
      /\ calls \in [Servers -> Seq(Logged)]
      /\ current \in todo /\ current \in Servers
  BY CurrentIsLeast DEF CheckTools, Inv, Types, Loop, Engaged, Progress
<1>2. PICK c : c = current
  OBVIOUS
<1>3. CASE Judge("tools")
  <2>1. "tools" \in Verdicts \ {"none"}
    BY DEF Verdicts
  <2>. QED  BY <1>1, <1>2, <1>3, <2>1, JudgeStep
<1>4. CASE MissingTools(entry[current]) = {} /\ ~Probes(entry[current]) /\ Judge("pass")
  <2>1. "pass" \in Verdicts \ {"none"}
    BY DEF Verdicts
  <2>2. Certified(c)
    BY <1>1, <1>2, <1>4 DEF Reported, Certified, MissingTools
  <2>3. Certified(c)' /\ ~Probes(entry[c])'
    BY <1>1, <1>2, <1>4, <2>2 DEF Certified, Handshakes, Probes, inputs
  <2>. QED  BY <1>1, <1>2, <1>4, <2>1, <2>3, JudgeStep
<1>5. CASE /\ MissingTools(entry[current]) = {} /\ Probes(entry[current])
           /\ phase' = "probe" /\ UNCHANGED <<verdict, todo>>
  <2>1. current' = current
    BY <1>5 DEF current
  <2>2. Progress' /\ Engaged'
    BY <1>1, <1>5, <2>1
       DEF Progress, Engaged, Reported, Handshakes, MissingTools, Probes, inputs
  <2>. QED  BY <1>1, <1>5, <2>2, ProceedStep
<1>. QED  BY <1>3, <1>4, <1>5 DEF CheckTools

\* The probe decides, and the handshake before it stays in the log.
LEMMA ProbeStep == Inv /\ Probe => Inv'
<1>. SUFFICES ASSUME Inv, Probe PROVE Inv'
  OBVIOUS
<1>1. /\ phase = "probe" /\ todo # {} /\ Engaged /\ UNCHANGED <<inputs, surface, exit>>
      /\ Reported(current) /\ MissingTools(entry[current]) = {}
      /\ attempt' \in 0..Attempts
      /\ current \in todo /\ current \in Servers
      /\ Len(calls[current]) \in Nat
  BY CurrentIsLeast DEF Probe, Inv, Types, Loop, Engaged, Progress
<1>2. PICK c : c = current
  OBVIOUS
<1>3. CASE Judge("pass") /\ Call("probe", TRUE, {})
  <2>1. "pass" \in Verdicts \ {"none"} /\ {} \in SUBSET Tools
    BY DEF Verdicts
  <2>2. /\ calls' \in [Servers -> Seq(Logged)]
        /\ \A s \in Servers \ {current} : calls'[s] = calls[s]
        /\ Len(calls'[c]) = Len(calls[c]) + 1
        /\ \A i \in 1..Len(calls[c]) : calls'[c][i] = calls[c][i]
        /\ calls'[c][Len(calls[c]) + 1].what = "probe"
        /\ calls'[c][Len(calls[c]) + 1].ok
    BY <1>1, <1>2, <1>3, <2>1, CallStep
  <2>3. ProbedOk(c)'
    <3>1. Len(calls[c]) + 1 \in 1..Len(calls'[c])
      BY <1>1, <1>2, <2>2
    <3>. QED  BY <2>2, <3>1 DEF ProbedOk, Probings
  <2>4. Certified(c)'
    <3>1. PICK i \in 1..Len(calls[c]) :
            /\ calls[c][i].what = "handshake" /\ calls[c][i].ok
            /\ entry[c].tools \subseteq calls[c][i].live
      BY <1>1, <1>2 DEF Reported, Handshakes, MissingTools
    <3>2. i \in 1..Len(calls'[c]) /\ calls'[c][i] = calls[c][i] /\ entry' = entry
      BY <1>1, <1>2, <2>2 DEF inputs
    <3>. QED  BY <3>1, <3>2 DEF Certified, Handshakes
  <2>. QED  BY <1>1, <1>2, <1>3, <2>1, <2>2, <2>3, <2>4, JudgeStep
<1>4. CASE Judge("probe") /\ Call("probe", FALSE, {})
  <2>1. "probe" \in Verdicts \ {"none"} /\ {} \in SUBSET Tools
    BY DEF Verdicts
  <2>2. /\ calls' \in [Servers -> Seq(Logged)]
        /\ \A s \in Servers \ {current} : calls'[s] = calls[s]
    BY <1>1, <1>4, <2>1, CallStep
  <2>. QED  BY <1>1, <1>2, <1>4, <2>1, <2>2, JudgeStep
<1>. QED  BY <1>3, <1>4 DEF Probe

\* The exit code is 0 only if no selected server has another verdict than
\* pass, and by then each has one.
LEMMA FinishStep == Inv /\ Finish => Inv'
<1>. SUFFICES ASSUME Inv, Finish PROVE Inv'
  OBVIOUS
<1>1. /\ phase = "server" /\ todo = {} /\ phase' = "done"
      /\ exit' = IF Failures # {} THEN "1" ELSE "0"
      /\ UNCHANGED <<inputs, todo, attempt, surface, verdict, calls>>
      /\ Select' = Select
  BY DEF Finish, Select, inputs
<1>2. Types' /\ Loop'
  BY <1>1
     DEF Inv, Types, Loop, Engaged, inputs, Logged, Views, ClientViews
<1>3. Progress'
  BY <1>1 DEF Progress
<1>4. Evidence'
  BY <1>1
     DEF Inv, Evidence, Certified, ProbedOk, Handshakes, Probings, Probes, AllFailed, inputs
<1>5. ExitIsZero'
  BY <1>1 DEF Inv, Types, Loop, ExitIsZero, Failures, Verdicts, Select
<1>. QED  BY <1>2, <1>3, <1>4, <1>5 DEF Inv

\* And a step that changes nothing.
LEMMA StutterStep == Inv /\ UNCHANGED vars => Inv'
<1>. SUFFICES ASSUME Inv, UNCHANGED vars PROVE Inv'
  OBVIOUS
<1>1. /\ UNCHANGED <<mode, proc, entry, todo, phase, attempt, surface, verdict, exit, calls>>
      /\ current' = current /\ Select' = Select /\ Logged' = Logged
  BY DEF vars, inputs, current, Select, Logged, Views, ClientViews
<1>2. Types' /\ Loop' /\ ExitIsZero'
  BY <1>1 DEF Inv, Types, Loop, Engaged, ExitIsZero
<1>3. Progress'
  BY <1>1 DEF Inv, Progress, AllFailed, Reported, Handshakes, MissingTools, Probes
<1>4. Evidence'
  BY <1>1 DEF Inv, Evidence, AllFailed, Certified, ProbedOk, Handshakes, Probings, Probes
<1>. QED  BY <1>2, <1>3, <1>4 DEF Inv

-----------------------------------------------------------------------------
\* Inv is an invariant.
THEOREM Invariance == Spec => []Inv
<1>1. Inv /\ [Next]_vars => Inv'
  BY LoadStep, PlaceholdersStep, HandshakeStep, ToolsStep, ProbeStep, FinishStep,
     StutterStep DEF Next
<1>. QED  BY <1>1, InitInv, PTL DEF Spec

\* Exit code 0 is evidence about every selected server: a handshake that
\* listed all its declared tools and, in drift mode, a successful probe
\* (verify.go:47-143).
THEOREM ExitIsEarned == Spec => []ExitEarned
<1>1. Inv => ExitEarned
  BY DEF Inv, ExitIsZero, Evidence, ExitEarned, Select
<1>. QED  BY <1>1, Invariance, PTL

\* A server failed for its handshake failed verifyAttempts times out of
\* verifyAttempts (verify.go:30-36).
THEOREM OneFaultIsAbsorbed == Spec => []SingleFaultAbsorbed
<1>1. ASSUME Inv, NEW s \in Servers, verdict[s] = "handshake"
      PROVE  /\ Cardinality(Handshakes(s)) = Attempts
             /\ \A i \in Handshakes(s) : ~calls[s][i].ok
  <2>1. AllFailed(s, Attempts)
    BY <1>1 DEF Inv, Evidence
  <2>2. Handshakes(s) = 1..Attempts
    BY <2>1 DEF AllFailed, Handshakes
  <2>3. Cardinality(1..Attempts) = Attempts
    BY FS_Interval, McpVerifyAssumption
  <2>. QED  BY <2>1, <2>2, <2>3 DEF AllFailed
<1>2. Inv => SingleFaultAbsorbed
  BY <1>1 DEF SingleFaultAbsorbed
<1>. QED  BY <1>2, Invariance, PTL

\* Servers are judged in name order, each once and for good, and nothing is
\* sent to one before its turn or after its verdict (verify.go:59-128).
THEOREM JudgedInTurn == Spec => OneAtATime
<1>. DEFINE Kept == \A s \in Servers : verdict[s] # "none" =>
                      verdict'[s] = verdict[s] /\ calls'[s] = calls[s]
            Turn == \A s \in Servers : calls'[s] # calls[s] \/ verdict'[s] # verdict[s] =>
                      s \in Select /\ \A t \in Select : t < s => verdict[t] # "none"
<1>1. ASSUME Inv, UNCHANGED <<verdict, calls>>
      PROVE  Kept /\ Turn
  BY <1>1
<1>2. ASSUME Inv, todo # {}, phase # "load", phase # "done",
             \A s \in Servers \ {current} : verdict'[s] = verdict[s] /\ calls'[s] = calls[s]
      PROVE  Kept /\ Turn
  <2>1. /\ current \in todo /\ current \in Servers /\ current \in Select
        /\ verdict[current] = "none"
        /\ \A t \in Select : t < current => t \notin todo
    <3>1. /\ current \in todo /\ \A t \in todo : current <= t
          /\ todo \subseteq Servers /\ todo \subseteq Select
      BY <1>2, CurrentIsLeast DEF Inv, Types, Loop
    <3>2. \A t \in todo : t \in Int /\ current \in Int
      BY <3>1, McpVerifyAssumption DEF Servers
    <3>3. \A t \in Select : t < current => t \notin todo
      BY <3>1, <3>2
    <3>4. current \in Servers /\ current \in Select
      BY <3>1
    <3>5. verdict[current] = "none"
      BY <1>2, <3>1, <3>4 DEF Inv, Loop
    <3>. QED  BY <3>1, <3>3, <3>4, <3>5
  <2>2. \A t \in Select : t < current => verdict[t] # "none"
    BY <1>2, <2>1 DEF Inv, Loop, Select
  <2>. QED  BY <1>2, <2>1, <2>2
<1>3. ASSUME Inv, [Next]_vars
      PROVE  Kept /\ Turn
  <2>1. CASE Load \/ Finish \/ UNCHANGED vars
    BY <1>1, <1>3, <2>1 DEF Load, Finish, vars
  <2>2. CASE CheckPlaceholders \/ Handshake \/ CheckTools \/ Probe
    <3>1. todo # {} /\ phase # "load" /\ phase # "done"
      BY <1>3, <2>2 DEF CheckPlaceholders, Handshake, CheckTools, Probe, Inv, Loop, Engaged
    <3>2. \A s \in Servers \ {current} : verdict'[s] = verdict[s] /\ calls'[s] = calls[s]
      BY <1>3, <2>2
         DEF CheckPlaceholders, Handshake, HandshakeOk, HandshakeFailed, PagesOn, CheckTools, Probe,
             Judge, Call, Inv, Types
    <3>. QED  BY <1>2, <1>3, <3>1, <3>2
  <2>. QED  BY <1>3, <2>1, <2>2 DEF Next
<1>. QED  BY <1>3, Invariance, PTL DEF Spec, OneAtATime

-----------------------------------------------------------------------------
(* What a child is started with *)

\* A set that has 0, and the successor of each natural it has, has them all.
LEMMA Induction ==
  ASSUME NEW S, 0 \in S, \A n \in Nat : n \in S => n + 1 \in S
  PROVE  Nat \subseteq S
<1> SUFFICES ASSUME Nat \ S # {} PROVE FALSE
  OBVIOUS
<1>1. PICK k \in Nat \ S : \A m \in Nat \ S : k <= m
  BY Least
<1>2. k # 0 /\ k - 1 \in Nat /\ k - 1 \notin S
  BY <1>1
<1>. QED  BY <1>1, <1>2

\* f applies G[1] .. G[n] in turn, from a.
Iterates(f, n, a, G) == f[0] = a /\ \A k \in 1..n : f[k] = G[k][f[k - 1]]

\* What is defined by recursion over 0..n exists.
LEMMA Iteration ==
  ASSUME NEW n \in Nat, NEW X, NEW a \in X, NEW G \in [Nat -> [X -> X]]
  PROVE  \E f \in [0..n -> X] : Iterates(f, n, a, G)
<1> DEFINE S == {m \in Nat : \E f \in [0..m -> X] : Iterates(f, m, a, G)}
<1>1. 0 \in S
  <2>1. [k \in 0..0 |-> a] \in [0..0 -> X] /\ [k \in 0..0 |-> a][0] = a
    OBVIOUS
  <2> DEFINE g == [k \in 0..0 |-> a]
  <2>2. g \in [0..0 -> X] /\ g[0] = a /\ \A k \in 1..0 : g[k] = G[k][g[k - 1]]
    BY <2>1
  <2>3. Iterates(g, 0, a, G)
    BY <2>2 DEF Iterates
  <2> HIDE DEF g
  <2>. QED  BY <2>2, <2>3
<1>2. ASSUME NEW m \in Nat, m \in S
      PROVE  m + 1 \in S
  <2>1. PICK f \in [0..m -> X] : Iterates(f, m, a, G)
    BY <1>2
  <2> DEFINE g == [k \in 0..(m + 1) |-> IF k = m + 1 THEN G[m + 1][f[m]] ELSE f[k]]
  <2>2. g \in [0..(m + 1) -> X]
    <3>1. f[m] \in X /\ G[m + 1] \in [X -> X]
      BY <2>1
    <3>2. G[m + 1][f[m]] \in X
      BY <3>1
    <3>. QED  BY <2>1, <3>2
  <2>3. g[0] = a
    BY <2>1 DEF Iterates
  <2>4. ASSUME NEW k \in 1..(m + 1)
        PROVE  g[k] = G[k][g[k - 1]]
    <3>1. k - 1 \in 0..m /\ g[k - 1] = f[k - 1]
      OBVIOUS
    <3>2. CASE k = m + 1
      BY <3>1, <3>2
    <3>3. CASE k # m + 1
      <4>1. k \in 1..m /\ g[k] = f[k]
        BY <3>3
      <4>. QED  BY <2>1, <3>1, <4>1 DEF Iterates
    <3>. QED  BY <3>2, <3>3
  <2>5. Iterates(g, m + 1, a, G)
    BY <2>3, <2>4 DEF Iterates
  <2> HIDE DEF g
  <2>. QED  BY <2>2, <2>5
<1> HIDE DEF S
<1>3. \A m \in Nat : m \in S => m + 1 \in S
  BY <1>2
<1>4. Nat \subseteq S
  BY <1>1, <1>3, Induction, Zenon
<1>5. n \in S
  BY <1>4
<1>. QED  BY <1>5 DEF S

\* An expansion is never unset, and one that leaves text behind refers to a
\* name that the lookup does not have, or has as such text.
LEMMA ExpandIs ==
  ASSUME NEW t \in Templates \ {Nothing}, NEW x \in [Names -> Values]
  PROVE  /\ Expand(t, x) \in Values \ {Unset}
         /\ Expand(t, x) = Placeholder => \E m \in Names : t = Ref(m) /\ x[m] \in {Unset, Placeholder}
<1>1. CASE t = Literal
  BY <1>1 DEF Expand, Values, Unset, Placeholder, Secret, Default, Text, Literal
<1>2. ASSUME NEW m \in Names, t = Ref(m)
      PROVE  /\ Expand(t, x) \in Values \ {Unset}
             /\ Expand(t, x) = Placeholder => x[m] \in {Unset, Placeholder}
  <2>1. t.kind = "ref" /\ t.to = m
    BY <1>2 DEF Ref
  <2>2. x[m] \in Values
    OBVIOUS
  <2>. QED
    BY <2>1, <2>2 DEF Expand, Unresolved, Values, Unset, Placeholder, Secret, Default, Text
<1>. QED  BY <1>1, <1>2 DEF Templates

\* f is the lookup as the entries are expanded in the order o.
Expanded(f, decl, host, o) ==
  /\ f \in [0..Len(o) -> [Names -> Values]]
  /\ f[0] = FirstLookup(host)
  /\ \A k \in 1..Len(o) : f[k] = [f[k - 1] EXCEPT ![o[k]] = Expand(decl[o[k]], f[k - 1])]

\* Expanding the entries in order is well defined.
LEMMA LookupIs ==
  ASSUME NEW decl \in [Names -> Templates], NEW host \in SUBSET Names,
         NEW o \in Seq(Declared(decl))
  PROVE  Expanded(LookupAfter(decl, host, o), decl, host, o)
<1> DEFINE X == [Names -> Values]
           Step(k, x) == [x EXCEPT ![o[k]] = Expand(decl[o[k]], x)]
           F(f) == f = [k \in 0..Len(o) |->
                          IF k = 0 THEN FirstLookup(host) ELSE Step(k, f[k - 1])]
           G == [k \in Nat |-> [x \in X |-> IF k \in 1..Len(o) THEN Step(k, x) ELSE x]]
<1>1. FirstLookup(host) \in X
  BY DEF FirstLookup, BaselineEnv, ProcessEnv, Values
<1>2. \A k \in 1..Len(o), x \in X : Step(k, x) \in X
  <2> SUFFICES ASSUME NEW i \in 1..Len(o), NEW x \in X
               PROVE  Step(i, x) \in X
    OBVIOUS
  <2>1. decl[o[i]] \in Templates \ {Nothing} /\ o[i] \in Names
    BY DEF Declared
  <2>2. Expand(decl[o[i]], x) \in Values
    BY <2>1, ExpandIs
  <2>. QED  BY <2>1, <2>2
<1> HIDE DEF Step, X
<1>3. G \in [Nat -> [X -> X]]
  BY <1>2
<1>4. PICK f \in [0..Len(o) -> X] :
        Iterates(f, Len(o), FirstLookup(host), G)
  <2> HIDE DEF G
  <2>1. Len(o) \in Nat
    OBVIOUS
  <2>. QED  BY <1>1, <1>3, <2>1, Iteration, Zenon
<1>5. \A k \in 1..Len(o) : f[k] = Step(k, f[k - 1])
  BY <1>4 DEF Iterates
<1>6. F(f)
  BY <1>4, <1>5 DEF Iterates
<1> DEFINE after == LookupAfter(decl, host, o)
<1>7. after = CHOOSE g : F(g)
  BY DEF LookupAfter, Step
<1>8. F(after)
  <2> HIDE DEF F
  <2>. QED  BY <1>6, <1>7
<1>9. \A k \in 0..Len(o) : after[k] = f[k]
  <2> DEFINE T == {k \in Nat : k \in 0..Len(o) => after[k] = f[k]}
  <2>1. 0 \in T
    BY <1>4, <1>8 DEF Iterates
  <2>2. ASSUME NEW k \in Nat, k \in T
        PROVE  k + 1 \in T
    <3> SUFFICES ASSUME k + 1 \in 0..Len(o)
                 PROVE  after[k + 1] = f[k + 1]
      OBVIOUS
    <3>1. after[k] = f[k] /\ k + 1 \in 1..Len(o) /\ (k + 1) - 1 = k
      BY <2>2
    <3>2. after[k + 1] = Step(k + 1, after[k])
      BY <1>8, <3>1
    <3>3. f[k + 1] = Step(k + 1, f[k])
      BY <1>5, <3>1
    <3>. QED  BY <3>1, <3>2, <3>3
  <2> HIDE DEF T
  <2>3. \A k \in Nat : k \in T => k + 1 \in T
    BY <2>2
  <2>4. Nat \subseteq T
    BY <2>1, <2>3, Induction, Zenon
  <2>. QED  BY <2>4 DEF T
<1>10. after \in [0..Len(o) -> X]
  <2>1. DOMAIN after = 0..Len(o) /\ after = [k \in DOMAIN after |-> after[k]]
    BY <1>8
  <2> HIDE DEF after, F
  <2>. QED  BY <2>1, <1>9
<1>11. after[0] = FirstLookup(host) /\ \A k \in 1..Len(o) : after[k] = Step(k, after[k - 1])
  BY <1>8
<1>. QED  BY <1>10, <1>11 DEF Step, X, Expanded

\* A range over a finite map comes by each of its keys, once.
LEMMA OrderIs ==
  ASSUME NEW S, IsFiniteSet(S), NEW o \in Orders(S)
  PROVE  /\ o \in Seq(S)
         /\ \A i, j \in 1..Len(o) : o[i] = o[j] => i = j
         /\ \A e \in S : \E i \in 1..Len(o) : o[i] = e
<1> DEFINE n == Cardinality(S)
<1>1. n \in Nat
  BY FS_CardinalityType
<1>2. o \in [1..n -> S] /\ \A i, j \in 1..n : o[i] = o[j] => i = j
  BY DEF Orders
<1>3. o \in Seq(S) /\ Len(o) = n
  <2> HIDE DEF n
  <2>. QED  BY <1>1, <1>2
<1>4. o \in Injection(1..n, S)
  BY <1>2 DEF Injection, IsInjective
<1>5. Cardinality(1..n) = n
  <2> HIDE DEF n
  <2>. QED  BY <1>1, FS_Interval
<1>6. o \in Surjection(1..n, S)
  BY <1>4, <1>5, FS_Injection, Zenon
<1>7. \A e \in S : \E i \in 1..n : o[i] = e
  BY <1>6 DEF Surjection
<1>. QED  BY <1>2, <1>3, <1>7

\* What a lookup holds before any entry is expanded.
LEMMA FirstIs ==
  ASSUME NEW host \in SUBSET Names, NEW n \in Names
  PROVE  /\ FirstLookup(host)[n] # Placeholder /\ BaselineEnv(host)[n] # Placeholder
         /\ FirstLookup(host)[n] = Unset => n \notin Inherited(host)
BY ChildEnvAssumption
   DEF FirstLookup, BaselineEnv, ProcessEnv, Inherited, Unset, Placeholder, Secret, Default

\* A name the first lookup does not have is had after k entries only when one of them
\* declares it.
LEMMA SetByEntry ==
  ASSUME NEW decl \in [Names -> Templates], NEW host \in SUBSET Names,
         NEW o \in Seq(Declared(decl)), NEW m \in Names, FirstLookup(host)[m] = Unset,
         NEW k \in 0..Len(o), LookupAfter(decl, host, o)[k][m] # Unset
  PROVE  \E i \in 1..k : o[i] = m
<1> DEFINE after == LookupAfter(decl, host, o)
           T == {i \in Nat : i \in 0..Len(o) /\ after[i][m] # Unset => \E j \in 1..i : o[j] = m}
<1>1. Expanded(after, decl, host, o)
  BY LookupIs
<1> HIDE DEF after
<1>2. 0 \in T
  BY <1>1 DEF Expanded
<1>3. ASSUME NEW i \in Nat, i \in T
      PROVE  i + 1 \in T
  <2> SUFFICES ASSUME i + 1 \in 0..Len(o), after[i + 1][m] # Unset, o[i + 1] # m
               PROVE  \E j \in 1..i : o[j] = m
    BY <1>3
  <2>1. i + 1 \in 1..Len(o) /\ i \in 0..Len(o) /\ (i + 1) - 1 = i
    OBVIOUS
  <2>2. after[i + 1] = [after[i] EXCEPT ![o[i + 1]] = Expand(decl[o[i + 1]], after[i])]
    BY <1>1, <2>1 DEF Expanded
  <2>3. after[i] \in [Names -> Values]
    BY <1>1, <2>1 DEF Expanded
  <2>4. after[i + 1][m] = after[i][m]
    BY <2>2, <2>3
  <2>. QED  BY <1>3, <2>1, <2>4
<1> HIDE DEF T
<1>4. \A i \in Nat : i \in T => i + 1 \in T
  BY <1>3
<1>5. Nat \subseteq T
  BY <1>2, <1>4, Induction, Zenon
<1>. QED  BY <1>5 DEF T, after

\* And a name once had stays.
LEMMA StaysSet ==
  ASSUME NEW decl \in [Names -> Templates], NEW host \in SUBSET Names,
         NEW o \in Seq(Declared(decl)), NEW m \in Names, FirstLookup(host)[m] # Unset,
         NEW k \in 0..Len(o)
  PROVE  LookupAfter(decl, host, o)[k][m] # Unset
<1> DEFINE after == LookupAfter(decl, host, o)
           T == {i \in Nat : i \in 0..Len(o) => after[i][m] # Unset}
<1>1. Expanded(after, decl, host, o)
  BY LookupIs
<1> HIDE DEF after
<1>2. 0 \in T
  BY <1>1 DEF Expanded
<1>3. ASSUME NEW i \in Nat, i \in T
      PROVE  i + 1 \in T
  <2> SUFFICES ASSUME i + 1 \in 0..Len(o)
               PROVE  after[i + 1][m] # Unset
    OBVIOUS
  <2>1. i + 1 \in 1..Len(o) /\ i \in 0..Len(o) /\ (i + 1) - 1 = i
    OBVIOUS
  <2>2. after[i] \in [Names -> Values]
    BY <1>1, <2>1 DEF Expanded
  <2>3. o[i + 1] \in Names /\ decl[o[i + 1]] \in Templates \ {Nothing}
    BY <2>1 DEF Declared
  <2>4. Expand(decl[o[i + 1]], after[i]) # Unset
    BY <2>2, <2>3, ExpandIs
  <2>5. after[i + 1] = [after[i] EXCEPT ![o[i + 1]] = Expand(decl[o[i + 1]], after[i])]
    BY <1>1, <2>1 DEF Expanded
  <2>. QED  BY <1>3, <2>1, <2>2, <2>3, <2>4, <2>5
<1> HIDE DEF T
<1>4. \A i \in Nat : i \in T => i + 1 \in T
  BY <1>3
<1>5. Nat \subseteq T
  BY <1>2, <1>4, Induction, Zenon
<1>. QED  BY <1>5 DEF T, after

\* Text that is left behind comes from an entry whose reference did not resolve.
LEMMA LeftBehind ==
  ASSUME NEW decl \in [Names -> Templates], NEW host \in SUBSET Names,
         NEW o \in Seq(Declared(decl)), NEW n \in Names,
         NEW k \in 0..Len(o), LookupAfter(decl, host, o)[k][n] = Placeholder
  PROVE  \E i \in 1..k : \E m \in Names :
           decl[o[i]] = Ref(m) /\ LookupAfter(decl, host, o)[i - 1][m] = Unset
<1> DEFINE after == LookupAfter(decl, host, o)
           Left(i) == \E j \in 1..i : \E m \in Names : decl[o[j]] = Ref(m) /\ after[j - 1][m] = Unset
           T == {i \in Nat : i \in 0..Len(o) => \A v \in Names : after[i][v] = Placeholder => Left(i)}
<1>1. Expanded(after, decl, host, o)
  BY LookupIs
<1> HIDE DEF after
<1>2. 0 \in T
  BY <1>1, FirstIs DEF Expanded
<1>3. ASSUME NEW i \in Nat, i \in T
      PROVE  i + 1 \in T
  <2> SUFFICES ASSUME i + 1 \in 0..Len(o), NEW v \in Names, after[i + 1][v] = Placeholder
               PROVE  Left(i + 1)
    OBVIOUS
  <2>1. i + 1 \in 1..Len(o) /\ i \in 0..Len(o) /\ (i + 1) - 1 = i
    OBVIOUS
  <2>2. after[i] \in [Names -> Values]
    BY <1>1, <2>1 DEF Expanded
  <2>3. o[i + 1] \in Names /\ decl[o[i + 1]] \in Templates \ {Nothing}
    BY <2>1 DEF Declared
  <2>4. after[i + 1] = [after[i] EXCEPT ![o[i + 1]] = Expand(decl[o[i + 1]], after[i])]
    BY <1>1, <2>1 DEF Expanded
  <2>5. Left(i) => Left(i + 1)
    OBVIOUS
  <2>6. CASE \E u \in Names : after[i][u] = Placeholder
    BY <1>3, <2>1, <2>5, <2>6
  <2>7. CASE ~\E u \in Names : after[i][u] = Placeholder
    <3>1. v = o[i + 1] /\ Expand(decl[o[i + 1]], after[i]) = Placeholder
      BY <2>2, <2>3, <2>4, <2>7
    <3>2. PICK m \in Names : decl[o[i + 1]] = Ref(m) /\ after[i][m] \in {Unset, Placeholder}
      BY <2>2, <2>3, <3>1, ExpandIs
    <3>3. after[(i + 1) - 1][m] = Unset
      BY <2>1, <2>7, <3>2
    <3>. QED  BY <3>2, <3>3
  <2>. QED  BY <2>6, <2>7
<1> HIDE DEF T
<1>4. \A i \in Nat : i \in T => i + 1 \in T
  BY <1>3
<1>5. Nat \subseteq T
  BY <1>2, <1>4, Induction, Zenon
<1>. QED  BY <1>5 DEF T, after

\* An environment with text left behind, of an entry that some order of the
\* range resolves without one missing, comes from a chain in the entry.
LEMMA OnlyChainsLeaveText ==
  ASSUME NEW decl \in [Names -> Templates], NEW host \in SUBSET Names
  PROVE  \A clean, result \in ChildEnvs(decl, host), n \in Names :
           clean.missing = {} /\ result.env[n] = Placeholder
             => Chained(decl) \ Inherited(host) # {}
<1>1. ASSUME NEW clean \in ChildEnvs(decl, host), NEW result \in ChildEnvs(decl, host),
             NEW n \in Names, clean.missing = {}, result.env[n] = Placeholder
      PROVE  Chained(decl) \ Inherited(host) # {}
  <2>0. IsFiniteSet(Declared(decl))
    BY ChildEnvAssumption, FS_Subset DEF Declared
  <2>1. PICK o \in Orders(Declared(decl)) : result = ChildEnvIn(decl, host, o)
    BY <1>1 DEF ChildEnvs
  <2>2. PICK q \in Orders(Declared(decl)) : clean = ChildEnvIn(decl, host, q)
    BY <1>1 DEF ChildEnvs
  <2>3. /\ o \in Seq(Declared(decl)) /\ q \in Seq(Declared(decl))
        /\ \A i, j \in 1..Len(q) : q[i] = q[j] => i = j
        /\ \A e \in Declared(decl) : \E i \in 1..Len(q) : q[i] = e
    BY <2>0, OrderIs
  <2>4. n \in Declared(decl) /\ LookupAfter(decl, host, o)[Len(o)][n] = Placeholder
    BY <1>1, <2>1, FirstIs DEF ChildEnvIn
  <2>5. PICK i \in 1..Len(o), m \in Names :
          decl[o[i]] = Ref(m) /\ LookupAfter(decl, host, o)[i - 1][m] = Unset
    <3>1. o \in Seq(Declared(decl))
      BY <2>3
    <3>2. PICK k \in 0..Len(o) : k = Len(o)
      BY <3>1
    <3>3. LookupAfter(decl, host, o)[k][n] = Placeholder
      BY <2>4, <3>2
    <3>4. \E i \in 1..k : \E m \in Names :
            decl[o[i]] = Ref(m) /\ LookupAfter(decl, host, o)[i - 1][m] = Unset
      BY <3>1, <3>2, <3>3, LeftBehind, Zenon
    <3>. QED  BY <3>2, <3>4, Zenon
  <2>6. FirstLookup(host)[m] = Unset /\ m \notin Inherited(host)
    <3>1. i - 1 \in 0..Len(o)
      BY <2>3
    <3>. QED  BY <2>3, <2>5, <3>1, StaysSet, FirstIs
  <2>7. o[i] \in Declared(decl) /\ decl[o[i]].kind = "ref" /\ decl[o[i]].to = m
    BY <2>3, <2>5 DEF Ref
  <2>8. PICK j \in 1..Len(q) : q[j] = o[i]
    BY <2>3, <2>7
  <2>9. LookupAfter(decl, host, q)[j - 1][m] # Unset
    <3>1. ~Unresolved(decl[q[j]], LookupAfter(decl, host, q)[j - 1])
      BY <1>1, <2>2, <2>8 DEF ChildEnvIn
    <3>. QED  BY <2>7, <2>8, <3>1 DEF Unresolved
  <2>10. PICK l \in 1..(j - 1) : q[l] = m
    <3>1. PICK k \in 0..Len(q) : k = j - 1
      BY <2>3, <2>8
    <3>2. LookupAfter(decl, host, q)[k][m] # Unset
      BY <2>9, <3>1
    <3>3. \E l \in 1..k : q[l] = m
      <4>1. q \in Seq(Declared(decl)) /\ m \in Names /\ FirstLookup(host)[m] = Unset
        BY <2>3, <2>6
      <4>. QED  BY <3>1, <3>2, <4>1, SetByEntry, Zenon
    <3>. QED  BY <3>1, <3>3
  <2>11. l \in 1..Len(q) /\ l # j /\ q[l] \in Declared(decl)
    <3>1. Len(q) \in Nat /\ j \in 1..Len(q) /\ l \in 1..(j - 1)
      BY <2>3, <2>8, <2>10
    <3>2. l \in 1..Len(q) /\ l # j
      BY <3>1
    <3>. QED  BY <2>3, <3>2
  <2>12. m \in Declared(decl) /\ m # o[i]
    BY <2>3, <2>8, <2>10, <2>11
  <2>13. m \in Chained(decl)
    BY <2>7, <2>12 DEF Chained, Declared
  <2>. QED  BY <2>6, <2>13
<1>. QED  BY <1>1

-----------------------------------------------------------------------------
(* And when it is started *)

\* Some order of the range resolves every placeholder of the server.
Cleared(s) == \E result \in ChildEnvs(entry[s].decl, proc) : result.missing = {}

\* A server is tried only once cleared, and with a view of its own entry.
Checked ==
  \A s \in Servers :
    /\ (Engaged /\ s = current) \/ calls[s] # <<>> => Cleared(s)
    /\ \A i \in 1..Len(calls[s]) : calls[s][i].view \in ClientViews(entry[s])

\* The calls a step adds are made with the current server's entry, once cleared.
LEMMA CallChecked ==
  ASSUME Inv, Checked, Engaged, UNCHANGED inputs,
         NEW what \in {"handshake", "probe"}, NEW ok \in BOOLEAN, NEW live \in SUBSET Tools,
         Call(what, ok, live)
  PROVE  \A s \in Servers :
           /\ calls'[s] # <<>> => Cleared(s)
           /\ \A i \in 1..Len(calls'[s]) : calls'[s][i].view \in ClientViews(entry[s])
<1>1. todo # {} /\ current \in Servers /\ calls \in [Servers -> Seq(Logged)] /\ Cleared(current)
  BY CurrentIsLeast DEF Inv, Types, Loop, Checked
<1>2. PICK view \in ClientViews(entry[current]) :
        calls' = [calls EXCEPT ![current] =
                    Append(@, [what |-> what, view |-> view, ok |-> ok, live |-> live])]
  BY DEF Call
<1> DEFINE call == [what |-> what, view |-> view, ok |-> ok, live |-> live]
<1>3. calls'[current] = Append(calls[current], call) /\ call.view = view
      /\ \A s \in Servers \ {current} : calls'[s] = calls[s]
  BY <1>1, <1>2
<1> HIDE DEF call
<1>4. \A i \in 1..Len(calls'[current]) : calls'[current][i].view \in ClientViews(entry[current])
  <2>1. calls[current] \in Seq(Logged)
    BY <1>1
  <2>2. /\ Len(calls'[current]) = Len(calls[current]) + 1
        /\ \A i \in 1..Len(calls[current]) : calls'[current][i] = calls[current][i]
        /\ calls'[current][Len(calls[current]) + 1] = call
    BY <1>3, <2>1
  <2>. QED  BY <1>1, <1>2, <1>3, <2>1, <2>2 DEF Checked
<1>. QED  BY <1>1, <1>3, <1>4 DEF Checked

\* Checked is an invariant.
LEMMA CheckedStep ==
  ASSUME Inv, Checked, [Next]_vars
  PROVE  Checked'
<1>1. ASSUME UNCHANGED inputs,
             \A s \in Servers : /\ calls'[s] # <<>> => Cleared(s)
                                /\ \A i \in 1..Len(calls'[s]) :
                                     calls'[s][i].view \in ClientViews(entry[s]),
             Engaged' => Cleared(current) /\ current' = current
      PROVE  Checked'
  <2>1. entry' = entry /\ proc' = proc
    BY <1>1 DEF inputs
  <2>2. \A s \in Servers : /\ Cleared(s)' <=> Cleared(s)
                           /\ ClientViews(entry[s])' = ClientViews(entry[s])
    BY <2>1 DEF Cleared, ClientViews
  <2>. QED  BY <1>1, <2>2 DEF Checked
<1>2. Engaged => Cleared(current) /\ current \in Servers
  BY CurrentIsLeast DEF Checked, Inv, Types, Loop
<1>3. ASSUME UNCHANGED <<inputs, calls>>, Engaged' => Cleared(current) /\ current' = current
      PROVE  Checked'
  BY <1>1, <1>3 DEF Checked
<1>4. CASE Load \/ Finish
  BY <1>3, <1>4 DEF Load, Finish, Engaged
<1>5. CASE CheckPlaceholders
  BY <1>3, <1>5 DEF CheckPlaceholders, Judge, Engaged, Cleared, current
<1>6. CASE Handshake
  <2>1. Engaged /\ UNCHANGED inputs /\ (Engaged' => current' = current)
    BY <1>6 DEF Handshake, HandshakeOk, HandshakeFailed, PagesOn, Judge, Engaged, current
  <2>2. UNCHANGED calls \/ \E ok \in BOOLEAN, live \in SUBSET Tools :
                             Call("handshake", ok, live)
    BY <1>6 DEF Handshake, HandshakeOk, HandshakeFailed, PagesOn
  <2>. QED  BY <1>1, <1>2, <1>3, <2>1, <2>2, CallChecked
<1>7. CASE CheckTools
  BY <1>2, <1>3, <1>7 DEF CheckTools, Judge, Engaged, current
<1>8. CASE Probe
  <2>1. Engaged /\ UNCHANGED inputs /\ ~Engaged'
    BY <1>8 DEF Probe, Judge, Engaged
  <2>2. \E ok \in BOOLEAN, live \in SUBSET Tools : Call("probe", ok, live)
    BY <1>8 DEF Probe
  <2>. QED  BY <1>1, <2>1, <2>2, CallChecked
<1>9. CASE UNCHANGED vars
  BY <1>2, <1>3, <1>9 DEF vars, Engaged, current
<1>. QED  BY <1>4, <1>5, <1>6, <1>7, <1>8, <1>9 DEF Next

\* A stdio server started with a placeholder left as text has an entry that
\* chains to a name of its own: nothing else gets past the check before the
\* start (verify.go:63-75, manifest.go:171-194).
THEOREM LiteralsNeedChains == Spec => []LiteralNeedsChain
<1>1. Init => Checked
  BY DEF Init, Checked, Engaged
<1>2. ASSUME Inv, Checked
      PROVE  LiteralNeedsChain
  <2> SUFFICES ASSUME NEW s \in Servers, NEW i \in 1..Len(calls[s]), NEW n \in Names,
                      entry[s].transport = "stdio", calls[s][i].view[n] = Placeholder
               PROVE  Chained(entry[s].decl) \ Inherited(proc) # {}
    BY DEF LiteralNeedsChain
  <2>1. calls[s] # <<>> /\ entry[s].decl \in [Names -> Templates] /\ proc \in SUBSET Names
    BY <1>2, McpVerifyAssumption DEF Inv, Types
  <2>2. PICK clean \in ChildEnvs(entry[s].decl, proc) : clean.missing = {}
    BY <1>2, <2>1 DEF Checked, Cleared
  <2>3. PICK result \in ChildEnvs(entry[s].decl, proc) : calls[s][i].view = result.env
    BY <1>2 DEF Checked, ClientViews
  <2>. QED  BY <2>1, <2>2, <2>3, OnlyChainsLeaveText
<1>3. Spec => []Checked
  BY <1>1, CheckedStep, Invariance, PTL DEF Spec
<1>. QED  BY <1>2, <1>3, Invariance, PTL
=============================================================================
