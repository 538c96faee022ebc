-------------------------- MODULE GitopsctlProofs --------------------------
(***************************************************************************)
(* Five invariants of the command line. A manifest that `mcp verify --mode *)
(* validate` passes is safe for the other commands, whatever the           *)
(* manifests, the packages and the caches: by a lemma about the rules of   *)
(* the policy. A binary that was installed is whole. `codegraph index`     *)
(* reads a line of any length right, the lint of the values reports the    *)
(* cache keys of a document of any length, and the lint of the templates   *)
(* the unbalanced blocks of a chart of any size: by induction over the     *)
(* arguments, the lines and the pieces.                                    *)
(***************************************************************************)
EXTENDS Gitopsctl, WellFoundedInduction, FiniteSetTheorems, TLAPS

\* The rules of the policy together imply what the other commands rely on
\* (validate.go:70-228).
LEMMA CleanIsSafe ==
  ASSUME NEW servers, DOMAIN servers \subseteq Names, Clean(servers)
  PROVE  Safe(servers)
<1> DEFINE Processes == {n \in NpmJobs(servers) : Stdio(servers[n])}
<1>1. ASSUME NEW n \in DOMAIN servers, servers[n] # NoEntry
      PROVE  ProcessRules(n, servers[n]) = {} /\ EntryRules(servers[n]) = {}
  BY <1>1 DEF Clean, Violations
<1>2. ASSUME NEW n \in Processes
      PROVE  NPMCacheFor(servers[n]) = PrivateCache[n] /\ n \in Names
  <2>1. n \in DOMAIN servers /\ servers[n] # NoEntry /\ Kind(servers[n]) = "npm"
           /\ Stdio(servers[n])
    BY DEF NpmJobs
  <2>2. ~NpmCacheBroken(n, servers[n])
    BY <1>1, <2>1 DEF ProcessRules
  <2>3. servers[n].cache = PrivateCache[n]
    BY <2>1, <2>2 DEF NpmCacheBroken
  <2> QED
    BY <2>1, <2>3, ManifestPolicyAssumption DEF NPMCacheFor
<1>3. \A n, o \in Processes : NPMCacheFor(servers[n]) = NPMCacheFor(servers[o]) => n = o
  BY <1>2, ManifestPolicyAssumption
<1>4. \A n \in Processes : NPMCacheFor(servers[n]) # GatewayCache
  BY <1>2, ManifestPolicyAssumption
<1>5. ASSUME NEW n \in Selected(servers), n \in duplicateServers
      PROVE  FALSE
  <2>1. n \in DOMAIN servers /\ Violations(servers)[n] = {}
    BY DEF Selected, Clean, Violations
  <2>2. Parked(servers, n)
    BY <1>5, <2>1 DEF Violations
  <2> QED
    BY <2>2 DEF Parked, Selected, IsEnabled
<1>6. ASSUME NEW n \in DOMAIN servers, servers[n] # NoEntry, servers[n].probe # NoProbe
      PROVE  n \in Selected(servers) /\ servers[n].probe \in servers[n].include
  <2>1. ~ProbeBroken(servers[n])
    BY <1>1, <1>6 DEF EntryRules
  <2> QED
    BY <1>6, <2>1 DEF ProbeBroken, Selected
<1> QED
  BY <1>3, <1>4, <1>5, <1>6 DEF Safe

-----------------------------------------------------------------------------
\* The steps of the installation belong to `install`, a validation has a
\* manifest to read, and one that has passed has read a clean one.
Passed ==
  /\ phase \in {"copy", "close", "chmod"} => cmd.words = <<"install">>
  /\ Validates => input \in Manifests
  /\ cmd.words = <<"mcp", "verify">> /\ Finished /\ Parsed.set["mode"] = "validate" /\ code = "0"
       => input \in Manifests /\ Clean(input)

LEMMA Distinct ==
  /\ <<"chart", "templates">> # <<"install">>
  /\ <<"validate", "litellm-config">> # <<"install">>
  /\ <<"mcp", "verify">> # <<"install">>
  /\ <<"mcp", "verify">> # <<"boot">>
  /\ <<"mcp", "verify">> # <<"mcp", "prewarm">>
  /\ <<"mcp", "verify">> # <<"chart", "templates">>
  /\ <<"mcp", "verify">> # <<"validate", "litellm-config">>
  /\ <<"mcp", "verify">> # <<"codegraph", "index">>
  /\ <<"mcp", "verify">> # <<"deps", "status">>
  /\ <<"mcp", "verify">> # <<"deps", "install">>
  OBVIOUS

LEMMA PassedInit == Init => Passed
<1> SUFFICES ASSUME Init PROVE Passed
  OBVIOUS
<1>1. phase = "start" /\ code = "none"
  BY DEF Init
<1>2. ASSUME Validates PROVE input \in Manifests
  <2>1. cmd.words = <<"mcp", "verify">>
    BY <1>2 DEF Validates, Runs, Is
  <2>2. ~Runs(<<"chart", "templates">>) /\ ~Runs(<<"validate", "litellm-config">>)
    BY <2>1, Distinct DEF Runs, Is
  <2> QED
    BY <1>2, <2>2 DEF Init
<1> QED
  BY <1>1, <1>2 DEF Passed, Finished

LEMMA PassedStep == Passed /\ [Next]_vars => Passed'
<1> SUFFICES ASSUME Passed, [Next]_vars
             PROVE  Passed'
  OBVIOUS
<1> USE DEF Passed, Finished, Exits
<1>1. CASE Usage
  BY <1>1 DEF Usage, Validates, Runs, Is
<1>2. CASE Help
  BY <1>2 DEF Help, Validates, Runs, Is
<1>3. CASE ChartTemplates
  BY <1>3, Distinct DEF ChartTemplates, Verdict, Validates, Runs, Is
<1>4. CASE LitellmConfig
  BY <1>4, Distinct DEF LitellmConfig, Verdict, Validates, Runs, Is
<1>5. CASE ValidateManifest
  <2>1. input \in Manifests /\ input' = input /\ phase' = "exited" /\ cmd' = cmd
    BY <1>5 DEF ValidateManifest, Verdict
  <2>2. ASSUME code' = "0" PROVE Clean(input)
    <3>1. found' = {}
      BY <1>5, <2>2 DEF ValidateManifest, Verdict
    <3>2. found' = {n \in DOMAIN Violations(input) : Violations(input)[n] # {}}
      BY <1>5, <3>1 DEF ValidateManifest
    <3> QED
      BY <3>1, <3>2 DEF Clean
  <2> QED
    BY <2>1, <2>2 DEF Validates, Runs, Is
<1>6. CASE Delegate
  <2>1. cmd.words = <<"mcp", "verify">> => Runs(<<"mcp", "verify">>) /\ ~Validates
    BY <1>6, Distinct DEF Delegate, Runs, Is
  <2>2. cmd' = cmd /\ phase' = "exited" /\ input' = input
    BY <1>6 DEF Delegate
  <2>3. Parsed' = Parsed
    BY <2>2 DEF Parsed
  <2> QED
    BY <2>1, <2>2, <2>3 DEF Validates, Runs, Is
<1>7. CASE CodegraphIndex
  BY <1>7, Distinct DEF CodegraphIndex, Validates, Runs, Is
<1>8. CASE DepsStatus \/ InstallDeps
  BY <1>8, Distinct DEF DepsStatus, InstallDeps, Validates, Runs, Is
<1>9. CASE Install
  <2>1. cmd.words = <<"install">> /\ cmd' = cmd
    BY <1>9 DEF Install, OpenDest, Copy, Close, Chmod, InstallFails, Restart, installing, Runs, Is
  <2>2. cmd.words # <<"mcp", "verify">>
    BY <2>1, Distinct
  <2> QED
    BY <2>1, <2>2 DEF Validates, Runs, Is
<1>10. CASE UNCHANGED vars
  <2>1. cmd' = cmd /\ input' = input /\ phase' = phase /\ code' = code
    BY <1>10 DEF vars
  <2>2. Parsed' = Parsed
    BY <2>1 DEF Parsed
  <2>3. Validates' = Validates
    BY <2>1, <2>2 DEF Validates, Runs, Is, Refused
  <2> QED
    BY <2>1, <2>2, <2>3
<1> QED
  BY <1>1, <1>2, <1>3, <1>4, <1>5, <1>6, <1>7, <1>8, <1>9, <1>10 DEF Next

\* A manifest the validation exits 0 for is safe, for all manifests, packages
\* and caches (validate.go:70-264).
THEOREM PassedIsSafe == Spec => []CleanMeansSafe
<1>1. Passed => CleanMeansSafe
  BY CleanIsSafe, GitopsctlAssumption DEF Passed, CleanMeansSafe
<1> QED
  BY <1>1, PassedInit, PassedStep, PTL DEF Spec

-----------------------------------------------------------------------------
\* What DEST holds at each step of the installation.
Installing ==
  /\ dest \in [holds : {"nothing", "old", "part", "new"}, exec : BOOLEAN]
  /\ phase \in {"copy", "close"} => dest.holds = "part"
  /\ phase = "chmod" => dest.holds = "new"
  /\ InstalledWhole

LEMMA InstallingStep == Installing /\ Passed /\ [Next]_vars => Installing'
<1> SUFFICES ASSUME Installing, Passed, [Next]_vars
             PROVE  Installing'
  OBVIOUS
<1> USE DEF Installing, InstalledWhole, Finished, Exits
<1>1. CASE OpenDest
  BY <1>1 DEF OpenDest
<1>2. CASE Copy
  BY <1>2 DEF Copy
<1>3. CASE Close
  BY <1>3 DEF Close
<1>4. CASE Chmod
  BY <1>4 DEF Chmod
<1>5. CASE InstallFails
  BY <1>5 DEF InstallFails
<1>6. CASE Restart
  BY <1>6 DEF Restart
<1>7. CASE Usage \/ Help
  BY <1>7 DEF Usage, Help
<1>8. CASE ChartTemplates \/ LitellmConfig \/ ValidateManifest
  <2>1. cmd.words # <<"install">>
    BY <1>8, Distinct DEF ChartTemplates, LitellmConfig, ValidateManifest, Validates, Runs, Is
  <2>2. dest' = dest /\ cmd' = cmd /\ phase' = "exited"
    BY <1>8 DEF ChartTemplates, LitellmConfig, ValidateManifest, Verdict
  <2> QED
    BY <2>1, <2>2
<1>9. CASE Delegate \/ CodegraphIndex
  BY <1>9 DEF Delegate, CodegraphIndex, Runs, Is
<1>10. CASE DepsStatus \/ InstallDeps
  BY <1>10 DEF DepsStatus, InstallDeps, Is
<1>11. CASE UNCHANGED vars
  BY <1>11 DEF vars
<1> QED
  BY <1>1, <1>2, <1>3, <1>4, <1>5, <1>6, <1>7, <1>8, <1>9, <1>10, <1>11 DEF Next, Install

\* An installation that exits with 0 leaves the whole binary at DEST, and
\* executable, however often it was cut off before (main.go:81-128).
THEOREM InstallIsWhole == Spec => []InstalledWhole
<1>1. Init => Installing
  <2> SUFFICES ASSUME Init PROVE Installing
    OBVIOUS
  <2>1. phase = "start"
    BY DEF Init
  <2>2. dest \in IF cmd.words = <<"install">>
                 THEN {[holds |-> h, exec |-> x] : h \in {"nothing", "old"}, x \in BOOLEAN}
                 ELSE {[holds |-> "nothing", exec |-> FALSE]}
    BY DEF Init
  <2>3. dest \in [holds : {"nothing", "old", "part", "new"}, exec : BOOLEAN]
    <3>1. CASE cmd.words = <<"install">>
      <4>1. PICK h \in {"nothing", "old"}, x \in BOOLEAN : dest = [holds |-> h, exec |-> x]
        BY <3>1, <2>2
      <4> QED
        BY <4>1
    <3>2. CASE cmd.words # <<"install">>
      <4>1. dest = [holds |-> "nothing", exec |-> FALSE]
        BY <3>2, <2>2
      <4> QED
        BY <4>1
    <3> QED
      BY <3>1, <3>2
  <2> QED
    BY <2>1, <2>3 DEF Installing, InstalledWhole, Finished
<1> QED
  BY <1>1, PassedInit, PassedStep, InstallingStep, PTL DEF Spec, Installing

-----------------------------------------------------------------------------
(* Recursion over a sequence: it is settled here once, for the two of the    *)
(* command line and for FlattenSeq.                                         *)

\* A set of naturals has a least one.
LEMMA Least ==
  ASSUME NEW S \in SUBSET Nat, S # {}
  PROVE  \E k \in S : \A m \in S : k <= m
<1>1. PICK k \in S : \A m \in S : ~(<<m, k>> \in OpToRel(<, Nat))
  BY NatLessThanWellFounded, WFMin
<1>2. \A m \in S : <<m, k>> \in OpToRel(<, Nat) <=> m < k
  BY DEF OpToRel
<1>3. \A m \in S : ~(m < k)
  BY <1>1, <1>2, Zenon
<1>. QED  BY <1>3

\* A set that has 0, and the successor of each natural it has, has them all.
LEMMA Induction ==
  ASSUME NEW S, 0 \in S, \A n \in Nat : n \in S => n + 1 \in S
  PROVE  Nat \subseteq S
<1> SUFFICES ASSUME Nat \ S # {} PROVE FALSE
  OBVIOUS
<1>1. PICK k \in Nat \ S : \A m \in Nat \ S : k <= m
  BY Least
<1>2. k # 0 /\ k - 1 \in Nat /\ k - 1 \notin S
  BY <1>1
<1>. QED  BY <1>1, <1>2

\* f takes the elements of q one by one, from x.
Folds(f, q, x, G) == f[0] = x /\ \A k \in 1..Len(q) : f[k] = G[f[k - 1]][q[k]]

\* What is defined by recursion over a sequence exists.
LEMMA FoldExists ==
  ASSUME NEW X, NEW A, NEW x \in X, NEW G \in [X -> [A -> X]], NEW q \in Seq(A)
  PROVE  \E f \in [0..Len(q) -> X] : Folds(f, q, x, G)
<1> DEFINE Upto(f, n) == f[0] = x /\ \A k \in 1..n : f[k] = G[f[k - 1]][q[k]]
           Has(n) == n <= Len(q) => \E f \in [0..n -> X] : Upto(f, n)
           S == {n \in Nat : Has(n)}
<1>1. 0 \in S
  <2> DEFINE g == [k \in 0..0 |-> x]
  <2>1. g \in [0..0 -> X] /\ g[0] = x
    OBVIOUS
  <2>2. Upto(g, 0)
    BY <2>1
  <2> HIDE DEF g, Upto
  <2>. QED  BY <2>1, <2>2
<1>2. ASSUME NEW n \in Nat, Has(n), n <= Len(q), n + 1 <= Len(q)
      PROVE  \E f \in [0..(n + 1) -> X] : Upto(f, n + 1)
  <2>1. PICK f \in [0..n -> X] : Upto(f, n)
    <3> HIDE DEF Upto
    <3>. QED  BY <1>2
  <2>2. G[f[n]][q[n + 1]] \in X
    <3>1. f[n] \in X /\ q[n + 1] \in A
      BY <1>2, <2>1
    <3>2. G[f[n]] \in [A -> X]
      BY <3>1
    <3>. QED  BY <3>1, <3>2
  <2> DEFINE g == [k \in 0..(n + 1) |-> IF k = n + 1 THEN G[f[n]][q[n + 1]] ELSE f[k]]
  <2>3. g \in [0..(n + 1) -> X]
    BY <2>1, <2>2
  <2>4. g[0] = x
    BY <2>1
  <2>5. ASSUME NEW k \in 1..(n + 1)
        PROVE  g[k] = G[g[k - 1]][q[k]]
    <3>1. k - 1 \in 0..n /\ g[k - 1] = f[k - 1]
      OBVIOUS
    <3>2. CASE k = n + 1
      BY <3>1, <3>2
    <3>3. CASE k # n + 1
      <4>1. k \in 1..n /\ g[k] = f[k]
        BY <3>3
      <4>. QED  BY <2>1, <3>1, <4>1
    <3>. QED  BY <3>2, <3>3
  <2>6. Upto(g, n + 1)
    BY <2>4, <2>5
  <2> HIDE DEF g, Upto
  <2>. QED  BY <2>3, <2>6
<1> HIDE DEF Upto
<1>3. \A n \in Nat : Has(n) => Has(n + 1)
  <2>1. ASSUME NEW n \in Nat, n + 1 <= Len(q)
        PROVE  n <= Len(q)
    BY <2>1
  <2>. QED  BY <1>2, <2>1
<1> HIDE DEF Has
<1>7. \A n \in Nat : n \in S => n + 1 \in S
  BY <1>3
<1> HIDE DEF S
<1>4. Nat \subseteq S
  BY <1>1, <1>7, Induction, Zenon
<1>5. Len(q) \in S /\ Len(q) \in Nat
  BY <1>4
<1>6. \E f \in [0..Len(q) -> X] : Upto(f, Len(q))
  BY <1>5 DEF S, Has
<1>. QED  BY <1>6 DEF Upto, Folds

\* And depends on nothing but the elements taken.
LEMMA FoldsAgree ==
  ASSUME NEW x, NEW G, NEW p, NEW q, NEW f, NEW g, Folds(f, p, x, G), Folds(g, q, x, G),
         NEW k \in Nat, Len(p) \in Nat, Len(q) \in Nat, k <= Len(p), k <= Len(q),
         \A i \in 1..k : p[i] = q[i]
  PROVE  f[k] = g[k]
<1> DEFINE S == {n \in Nat : n <= k => f[n] = g[n]}
<1>1. 0 \in S
  BY DEF Folds
<1>2. ASSUME NEW n \in Nat, n \in S
      PROVE  n + 1 \in S
  <2> SUFFICES ASSUME n + 1 <= k
               PROVE  f[n + 1] = g[n + 1]
    OBVIOUS
  <2>1. n + 1 \in 1..Len(p) /\ n + 1 \in 1..Len(q) /\ n + 1 \in 1..k /\ (n + 1) - 1 = n
    OBVIOUS
  <2>2. f[n] = g[n]
    BY <1>2
  <2>3. f[n + 1] = G[f[n]][p[n + 1]] /\ g[n + 1] = G[g[n]][q[n + 1]]
    BY <2>1 DEF Folds
  <2>. QED  BY <2>1, <2>2, <2>3
<1>3. \A n \in Nat : n \in S => n + 1 \in S
  BY <1>2
<1> HIDE DEF S
<1>4. Nat \subseteq S
  BY <1>1, <1>3, Induction, Zenon
<1>. QED  BY <1>4 DEF S

\* One element more is one step more.
LEMMA FoldNext ==
  ASSUME NEW x, NEW G, NEW q, NEW z, NEW f, NEW g, Folds(f, q, x, G), Folds(g, z, x, G),
         NEW n \in Nat, Len(q) = n, Len(z) = n + 1, \A i \in 1..n : q[i] = z[i]
  PROVE  g[n + 1] = G[f[n]][z[n + 1]]
<1>1. Len(q) \in Nat /\ Len(z) \in Nat /\ n <= Len(q) /\ n <= Len(z)
  OBVIOUS
<1>2. f[n] = g[n]
  BY <1>1, FoldsAgree
<1>3. n + 1 \in 1..Len(z) /\ (n + 1) - 1 = n
  OBVIOUS
<1>. QED  BY <1>2, <1>3 DEF Folds

-----------------------------------------------------------------------------
(* flag.Parse and manifestFlagFirst as folds *)

Manifest    == {"manifest"}
Texts       == STRING \cup {"none", "default"}   \* the provers do not know that these are in it
ParseStates == [outcome : {"ok", "bad", "help"}, pending : Texts, ended : BOOLEAN,
                rest : Seq(Texts), set : [Manifest -> Texts]]
ParseStart  == [outcome |-> "ok", pending |-> "none", ended |-> FALSE, rest |-> <<>>,
                set |-> [f \in Manifest |-> "default"]]
ParseFun    == [s \in ParseStates |-> [a \in Args |-> ParseStep(Manifest, s, a)]]

LEMMA ParseTypes ==
  /\ ParseStart \in ParseStates
  /\ ParseFun \in [ParseStates -> [Args -> ParseStates]]
<1>1. ParseStart \in ParseStates
  <2>1. <<>> \in Seq(Texts) /\ "none" \in Texts /\ "default" \in Texts
    BY DEF Texts
  <2>2. [f \in Manifest |-> "default"] \in [Manifest -> Texts]
    BY <2>1
  <2>. QED  BY <2>1, <2>2 DEF ParseStart, ParseStates
<1>2. ASSUME NEW s \in ParseStates, NEW a \in Args
      PROVE  ParseStep(Manifest, s, a) \in ParseStates
  <2>1. /\ s = [outcome |-> s.outcome, pending |-> s.pending, ended |-> s.ended,
                rest |-> s.rest, set |-> s.set]
        /\ s.outcome \in {"ok", "bad", "help"} /\ s.pending \in Texts /\ s.ended \in BOOLEAN
        /\ s.rest \in Seq(Texts) /\ s.set \in [Manifest -> Texts]
    BY DEF ParseStates
  <2>2. a.value \in Texts /\ a.name \in Texts
    BY DEF Args, Texts
  <2>3. Append(s.rest, a.value) \in Seq(Texts) /\ <<a.value>> \in Seq(Texts)
    BY <2>1, <2>2
  <2>4. \A n : [s.set EXCEPT ![n] = a.value] \in [Manifest -> Texts]
    BY <2>1, <2>2
  <2>5. \A o \in {"ok", "bad", "help"} : [s EXCEPT !.outcome = o] \in ParseStates
    BY <2>1 DEF ParseStates
  <2>6. \A n \in Texts : [s EXCEPT !.pending = n] \in ParseStates
    BY <2>1 DEF ParseStates
  <2>7. [s EXCEPT !.ended = TRUE] \in ParseStates
    BY <2>1 DEF ParseStates
  <2>9. [s EXCEPT !.ended = TRUE, !.rest = <<a.value>>] \in ParseStates
    BY <2>1, <2>3 DEF ParseStates
  <2>10. \A n : [s EXCEPT !.set = [@ EXCEPT ![n] = a.value]] \in ParseStates
    BY <2>1, <2>4 DEF ParseStates
  <2>11. \A n : [s EXCEPT !.set = [@ EXCEPT ![n] = a.value], !.pending = "none"] \in ParseStates
    BY <2>1, <2>4 DEF ParseStates, Texts
  <2>12. [s EXCEPT !.rest = Append(@, a.value)] \in ParseStates
    BY <2>1, <2>3 DEF ParseStates
  <2>. QED
    BY <2>2, <2>5, <2>6, <2>7, <2>9, <2>10, <2>11, <2>12 DEF ParseStep
<1>. QED  BY <1>1, <1>2 DEF ParseFun

\* Parsing is the fold of ParseStep.
LEMMA ParsingIs ==
  ASSUME NEW q \in Seq(Args)
  PROVE  /\ Parsing(q, Manifest) \in [0..Len(q) -> ParseStates]
         /\ Folds(Parsing(q, Manifest), q, ParseStart, ParseFun)
<1> DEFINE Recursive(f) == f = [i \in 0..Len(q) |->
                          IF i = 0 THEN ParseStart ELSE ParseStep(Manifest, f[i - 1], q[i])]
<1>1. PICK f \in [0..Len(q) -> ParseStates] : Folds(f, q, ParseStart, ParseFun)
  BY ParseTypes, FoldExists
<1>2. ASSUME NEW i \in 1..Len(q), NEW s \in ParseStates
      PROVE  ParseFun[s][q[i]] = ParseStep(Manifest, s, q[i])
  BY DEF ParseFun
<1>3. Recursive(f)
  <2>1. f[0] = ParseStart
    BY <1>1 DEF Folds
  <2>2. \A i \in 1..Len(q) : f[i] = ParseStep(Manifest, f[i - 1], q[i])
    BY <1>1, <1>2 DEF Folds
  <2>. QED  BY <1>1, <2>1, <2>2
<1> DEFINE p == Parsing(q, Manifest)
<1>4. p = CHOOSE g : Recursive(g)
  BY DEF Parsing, ParseStart
<1>5. Recursive(p)
  <2> HIDE DEF Recursive
  <2>. QED  BY <1>3, <1>4
<1> HIDE DEF p
<1>6. \A i \in 0..Len(q) : p[i] = f[i]
  <2> DEFINE T == {i \in Nat : i <= Len(q) => p[i] = f[i]}
  <2>1. 0 \in T
    BY <1>3, <1>5
  <2>2. ASSUME NEW i \in Nat, i \in T
        PROVE  i + 1 \in T
    <3> SUFFICES ASSUME i + 1 <= Len(q)
                 PROVE  p[i + 1] = f[i + 1]
      OBVIOUS
    <3>1. i + 1 \in 0..Len(q) /\ (i + 1) - 1 = i /\ p[i] = f[i]
      BY <2>2
    <3>2. p[i + 1] = ParseStep(Manifest, p[i], q[i + 1])
      BY <1>5, <3>1
    <3>3. f[i + 1] = ParseStep(Manifest, f[i], q[i + 1])
      BY <1>3, <3>1
    <3>. QED  BY <3>1, <3>2, <3>3
  <2>3. \A i \in Nat : i \in T => i + 1 \in T
    BY <2>2
  <2> HIDE DEF T
  <2>4. Nat \subseteq T
    BY <2>1, <2>3, Induction, Zenon
  <2>. QED  BY <2>4 DEF T
<1>7. p = f
  <2>1. p = [i \in 0..Len(q) |-> p[i]]
    BY <1>5
  <2>2. f = [i \in 0..Len(q) |-> f[i]]
    BY <1>1
  <2> HIDE DEF Recursive
  <2>. QED  BY <1>6, <2>1, <2>2
<1>. QED  BY <1>1, <1>7 DEF p

SortStates == [flags : Seq(Args), rest : Seq(Args), awaited : BOOLEAN]
SortStart  == [flags |-> <<>>, rest |-> <<>>, awaited |-> FALSE]
SortFun    == [s \in SortStates |-> [a \in Args |-> SortStep(s, a)]]

LEMMA SortTypes ==
  /\ SortStart \in SortStates
  /\ SortFun \in [SortStates -> [Args -> SortStates]]
<1>1. SortStart \in SortStates
  BY DEF SortStart, SortStates
<1>2. ASSUME NEW s \in SortStates, NEW a \in Args
      PROVE  SortStep(s, a) \in SortStates
  <2>1. Append(s.flags, a) \in Seq(Args) /\ Append(s.rest, a) \in Seq(Args)
    BY DEF SortStates
  <2>. QED  BY <2>1 DEF SortStep, SortStates
<1>. QED  BY <1>1, <1>2 DEF SortFun

\* And Sorting is the fold of SortStep.
LEMMA SortingIs ==
  ASSUME NEW q \in Seq(Args)
  PROVE  /\ Sorting(q) \in [0..Len(q) -> SortStates]
         /\ Folds(Sorting(q), q, SortStart, SortFun)
<1> DEFINE Recursive(f) == f = [i \in 0..Len(q) |->
                          IF i = 0 THEN SortStart ELSE SortStep(f[i - 1], q[i])]
<1>1. PICK f \in [0..Len(q) -> SortStates] : Folds(f, q, SortStart, SortFun)
  BY SortTypes, FoldExists
<1>2. ASSUME NEW i \in 1..Len(q), NEW s \in SortStates
      PROVE  SortFun[s][q[i]] = SortStep(s, q[i])
  BY DEF SortFun
<1>3. Recursive(f)
  <2>1. f[0] = SortStart
    BY <1>1 DEF Folds
  <2>2. \A i \in 1..Len(q) : f[i] = SortStep(f[i - 1], q[i])
    BY <1>1, <1>2 DEF Folds
  <2>. QED  BY <1>1, <2>1, <2>2
<1> DEFINE p == Sorting(q)
<1>4. p = CHOOSE g : Recursive(g)
  BY DEF Sorting, SortStart
<1>5. Recursive(p)
  <2> HIDE DEF Recursive
  <2>. QED  BY <1>3, <1>4
<1> HIDE DEF p
<1>6. \A i \in 0..Len(q) : p[i] = f[i]
  <2> DEFINE T == {i \in Nat : i <= Len(q) => p[i] = f[i]}
  <2>1. 0 \in T
    BY <1>3, <1>5
  <2>2. ASSUME NEW i \in Nat, i \in T
        PROVE  i + 1 \in T
    <3> SUFFICES ASSUME i + 1 <= Len(q)
                 PROVE  p[i + 1] = f[i + 1]
      OBVIOUS
    <3>1. i + 1 \in 0..Len(q) /\ (i + 1) - 1 = i /\ p[i] = f[i]
      BY <2>2
    <3>2. p[i + 1] = SortStep(p[i], q[i + 1])
      BY <1>5, <3>1
    <3>3. f[i + 1] = SortStep(f[i], q[i + 1])
      BY <1>3, <3>1
    <3>. QED  BY <3>1, <3>2, <3>3
  <2>3. \A i \in Nat : i \in T => i + 1 \in T
    BY <2>2
  <2> HIDE DEF T
  <2>4. Nat \subseteq T
    BY <2>1, <2>3, Induction, Zenon
  <2>. QED  BY <2>4 DEF T
<1>7. p = f
  <2>1. p = [i \in 0..Len(q) |-> p[i]]
    BY <1>5
  <2>2. f = [i \in 0..Len(q) |-> f[i]]
    BY <1>1
  <2> HIDE DEF Recursive
  <2>. QED  BY <1>6, <2>1, <2>2
<1>. QED  BY <1>1, <1>7 DEF p

-----------------------------------------------------------------------------
(* What is told from the end of a sequence of arguments *)

Sorted(q)   == Sorting(q)[Len(q)]
ParsedTo(q) == Parsing(q, Manifest)[Len(q)]

LEMMA NoArguments == Sorted(<<>>) = SortStart /\ ParsedTo(<<>>) = ParseStart
<1>0. <<>> \in Seq(Args) /\ Len(<<>>) = 0
  OBVIOUS
<1>1. PICK q \in Seq(Args) : q = <<>> /\ Len(q) = 0
  BY <1>0
<1>2. Sorting(q)[0] = SortStart /\ Parsing(q, Manifest)[0] = ParseStart
  BY SortingIs, ParsingIs DEF Folds
<1>. QED  BY <1>1, <1>2 DEF Sorted, ParsedTo

LEMMA StatesAre ==
  ASSUME NEW q \in Seq(Args)
  PROVE  Sorted(q) \in SortStates /\ ParsedTo(q) \in ParseStates
<1>1. Len(q) \in 0..Len(q)
  OBVIOUS
<1>2. /\ Sorting(q) \in [0..Len(q) -> SortStates]
      /\ Parsing(q, Manifest) \in [0..Len(q) -> ParseStates]
  BY SortingIs, ParsingIs
<1>. QED  BY <1>1, <1>2 DEF Sorted, ParsedTo

\* One argument more is one step more.
LEMMA OneMore ==
  ASSUME NEW q \in Seq(Args), NEW a \in Args
  PROVE  /\ Append(q, a) \in Seq(Args)
         /\ Sorted(Append(q, a)) = SortStep(Sorted(q), a)
         /\ ParsedTo(Append(q, a)) = ParseStep(Manifest, ParsedTo(q), a)
<1>0. Append(q, a) \in Seq(Args)
  OBVIOUS
<1>1. PICK z \in Seq(Args) : z = Append(q, a)
  BY <1>0
<1>2. PICK n \in Nat : n = Len(q)
  OBVIOUS
<1>3. Len(z) = n + 1 /\ z[n + 1] = a /\ \A i \in 1..n : q[i] = z[i]
  BY <1>1, <1>2
<1>4. Sorting(z)[n + 1] = SortFun[Sorting(q)[n]][z[n + 1]]
  <2>1. Folds(Sorting(q), q, SortStart, SortFun) /\ Folds(Sorting(z), z, SortStart, SortFun)
    BY SortingIs
  <2>. QED  BY <1>2, <1>3, <2>1, FoldNext
<1>5. Parsing(z, Manifest)[n + 1] = ParseFun[Parsing(q, Manifest)[n]][z[n + 1]]
  <2>1. /\ Folds(Parsing(q, Manifest), q, ParseStart, ParseFun)
        /\ Folds(Parsing(z, Manifest), z, ParseStart, ParseFun)
    BY ParsingIs
  <2>. QED  BY <1>2, <1>3, <2>1, FoldNext
<1>6. Sorting(q)[n] \in SortStates /\ Parsing(q, Manifest)[n] \in ParseStates
  BY <1>2, StatesAre DEF Sorted, ParsedTo
<1>. QED  BY <1>1, <1>2, <1>3, <1>4, <1>5, <1>6 DEF Sorted, ParsedTo, SortFun, ParseFun

LEMMA Concatenation ==
  ASSUME NEW A, NEW q \in Seq(A), NEW w \in Seq(A)
  PROVE  /\ q \o w \in Seq(A) /\ Len(q \o w) = Len(q) + Len(w)
         /\ \A i \in 1..Len(q) : q[i] = (q \o w)[i]
         /\ \A j \in 1..Len(w) : (q \o w)[Len(q) + j] = w[j]
OBVIOUS

LEMMA Within ==
  ASSUME NEW m \in Nat, NEW n \in Nat, NEW j \in Nat, j + 1 <= n
  PROVE  /\ m + (j + 1) \in 1..(m + n) /\ (m + (j + 1)) - 1 = m + j /\ m + j \in 0..(m + n)
         /\ j + 1 \in 1..n
OBVIOUS

\* Words after the flags are the rest, whatever their number.
LEMMA ParseWords ==
  ASSUME NEW q \in Seq(Args), NEW w \in Seq(Args), \A j \in 1..Len(w) : w[j].kind = "word",
         ParsedTo(q).outcome = "ok", ParsedTo(q).pending = "none", ParsedTo(q).ended = FALSE
  PROVE  LET t == ParsedTo(q \o w)
         IN  /\ t.outcome = "ok" /\ t.pending = "none" /\ t.set = ParsedTo(q).set
             /\ Len(w) > 0 => t.rest = [j \in 1..Len(w) |-> w[j].value]
             /\ Len(w) = 0 => t.rest = ParsedTo(q).rest
<1>1. PICK z \in Seq(Args) : z = q \o w
  BY Concatenation
<1>2. PICK m \in Nat : m = Len(q)
  OBVIOUS
<1>13. PICK n \in Nat : n = Len(w)
  OBVIOUS
<1>3. /\ Len(z) = m + n
      /\ \A i \in 1..m : q[i] = z[i]
      /\ \A j \in 1..n : z[m + j] = w[j]
  BY <1>1, <1>2, <1>13, Concatenation
<1> DEFINE p == Parsing(z, Manifest)
           Like(j) == /\ p[m + j].outcome = "ok" /\ p[m + j].pending = "none"
                      /\ p[m + j].set = ParsedTo(q).set
                      /\ j = 0 => p[m + j].ended = FALSE /\ p[m + j].rest = ParsedTo(q).rest
                      /\ j > 0 => /\ p[m + j].ended = TRUE
                                  /\ p[m + j].rest = [i \in 1..j |-> w[i].value]
           T == {j \in Nat : j <= n => Like(j)}
<1>4. p \in [0..Len(z) -> ParseStates] /\ Folds(p, z, ParseStart, ParseFun)
  BY ParsingIs
<1>5. Folds(Parsing(q, Manifest), q, ParseStart, ParseFun)
  BY ParsingIs
<1> HIDE DEF p
<1>6. p[m] = ParsedTo(q)
  <2>1. Len(q) \in Nat /\ Len(z) \in Nat /\ m <= Len(q) /\ m <= Len(z)
    BY <1>2, <1>3
  <2>2. p[m] = Parsing(q, Manifest)[m]
    BY <1>3, <1>4, <1>5, <2>1, FoldsAgree
  <2>. QED  BY <1>2, <2>2 DEF ParsedTo
<1>7. 0 \in T
  <2>1. m + 0 = m
    BY <1>2
  <2>. QED  BY <1>6, <2>1
<1>8. ASSUME NEW j \in Nat, Like(j), j <= n, j + 1 <= n
      PROVE  Like(j + 1)
  <2>1. /\ m + (j + 1) \in 1..Len(z) /\ (m + (j + 1)) - 1 = m + j /\ m + j \in 0..Len(z)
        /\ j + 1 \in 1..n
    <3>1. m \in Nat /\ n \in Nat /\ j \in Nat /\ j + 1 <= n
      BY <1>2, <1>8, <1>13
    <3> HIDE DEF Like, T
    <3>. QED  BY <1>3, <3>1, Within, Zenon
  <2>2. z[m + (j + 1)] = w[j + 1] /\ w[j + 1].kind = "word" /\ w[j + 1] \in Args
    BY <1>2, <1>3, <1>13, <2>1
  <2>3. p[m + j] \in ParseStates
    BY <1>4, <2>1
  <2>4. p[m + (j + 1)] = ParseFun[p[m + j]][w[j + 1]]
    BY <1>4, <2>1, <2>2 DEF Folds
  <2>5. p[m + (j + 1)] = ParseStep(Manifest, p[m + j], w[j + 1])
    BY <2>2, <2>3, <2>4 DEF ParseFun
  <2>6. CASE j = 0
    <3>1. p[m + (j + 1)] = [p[m + j] EXCEPT !.ended = TRUE, !.rest = <<w[j + 1].value>>]
      BY <1>8, <2>2, <2>5, <2>6 DEF ParseStep
    <3>2. <<w[j + 1].value>> = [i \in 1..(j + 1) |-> w[i].value]
      BY <2>6
    <3>. QED  BY <1>8, <2>3, <2>6, <3>1, <3>2 DEF ParseStates
  <2>7. CASE j > 0
    <3>1. p[m + (j + 1)] = [p[m + j] EXCEPT !.rest = Append(@, w[j + 1].value)]
      BY <1>8, <2>2, <2>5, <2>7 DEF ParseStep
    <3>2. Append([i \in 1..j |-> w[i].value], w[j + 1].value) = [i \in 1..(j + 1) |-> w[i].value]
      OBVIOUS
    <3>. QED  BY <1>8, <2>3, <2>7, <3>1, <3>2 DEF ParseStates
  <2>8. j = 0 \/ j > 0
    <3>1. j \in Nat
      BY <1>8
    <3>. QED  BY <3>1
  <2> HIDE DEF Like
  <2>. QED  BY <2>6, <2>7, <2>8
<1> HIDE DEF Like
<1>9. \A j \in Nat : j \in T => j + 1 \in T
  <2>1. \A j \in Nat : j + 1 <= n => j <= n
    BY <1>2
  <2>. QED  BY <1>8, <2>1
<1> HIDE DEF T
<1>10. Nat \subseteq T
  BY <1>7, <1>9, Induction, Zenon
<1>11. Like(n)
  BY <1>2, <1>10 DEF T
<1>12. p[m + n] = ParsedTo(q \o w)
  BY <1>1, <1>3 DEF p, ParsedTo
<1>. QED  BY <1>2, <1>11, <1>12, <1>13 DEF Like

-----------------------------------------------------------------------------
(* A line of `codegraph index` *)

PathsTo(units, k) == {i \in 1..k : units[i][1].kind = "word"}
GivenTo(units, k) == (1..k) \ PathsTo(units, k)
LastGiven(units, k) ==
  IF GivenTo(units, k) = {} THEN "default"
  ELSE LET u == units[Max(GivenTo(units, k))] IN u[Len(u)].value

\* A flattened sequence is built unit by unit.
LEMMA FlattenIs ==
  ASSUME NEW A, NEW units \in Seq(Seq(A))
  PROVE  \E flat \in [0..Len(units) -> Seq(A)] :
           /\ flat[0] = <<>> /\ flat[Len(units)] = FlattenSeq(units)
           /\ \A k \in 1..Len(units) : flat[k] = flat[k - 1] \o units[k]
<1> DEFINE G == [s \in Seq(A) |-> [u \in Seq(A) |-> s \o u]]
<1>1. G \in [Seq(A) -> [Seq(A) -> Seq(A)]]
  OBVIOUS
<1>2. <<>> \in Seq(A)
  OBVIOUS
<1>3. PICK flat \in [0..Len(units) -> Seq(A)] : Folds(flat, units, <<>>, G)
  <2> HIDE DEF G
  <2>. QED  BY <1>1, <1>2, FoldExists
<1>4. flat[0] = <<>> /\ \A k \in 1..Len(units) : flat[k] = flat[k - 1] \o units[k]
  <2>1. flat[0] = <<>>
    BY <1>3 DEF Folds
  <2>2. ASSUME NEW k \in 1..Len(units)
        PROVE  flat[k] = flat[k - 1] \o units[k]
    <3>1. flat[k] = G[flat[k - 1]][units[k]]
      BY <1>3 DEF Folds
    <3>2. flat[k - 1] \in Seq(A) /\ units[k] \in Seq(A)
      <4>1. k - 1 \in 0..Len(units)
        OBVIOUS
      <4>2. flat[k - 1] \in Seq(A)
        BY <1>3, <4>1
      <4>. QED  BY <4>2
    <3>. QED  BY <3>1, <3>2
  <2>. QED  BY <2>1, <2>2
<1>5. ASSUME Len(units) # 0
      PROVE  flat[Len(units)] = FlattenSeq(units)
  <2> DEFINE Recursive(f) == f = [i \in 1..Len(units) |->
                                    IF i = 1 THEN units[i] ELSE f[i - 1] \o units[i]]
             h == [i \in 1..Len(units) |-> flat[i]]
             g == CHOOSE f : Recursive(f)
  <2>1. Recursive(h)
    <3>1. ASSUME NEW i \in 1..Len(units)
          PROVE  h[i] = IF i = 1 THEN units[i] ELSE h[i - 1] \o units[i]
      <4>1. flat[i] = flat[i - 1] \o units[i]
        BY <1>4
      <4>4. units[i] \in Seq(A)
        OBVIOUS
      <4>2. CASE i = 1
        <5>1. flat[i - 1] = <<>>
          BY <1>4, <4>2
        <5>. QED  BY <4>1, <4>2, <4>4, <5>1
      <4>3. CASE i # 1
        <5>1. i - 1 \in 1..Len(units)
          BY <4>3
        <5>. QED  BY <4>1, <4>3, <5>1
      <4>. QED  BY <4>2, <4>3
    <3>. QED  BY <3>1
  <2> HIDE DEF h
  <2>2. Recursive(g)
    <3> HIDE DEF Recursive
    <3>. QED  BY <2>1
  <2>3. FlattenSeq(units) = g[Len(units)]
    BY <1>5 DEF FlattenSeq
  <2> HIDE DEF g
  <2> DEFINE T == {k \in Nat : k + 1 <= Len(units) => g[k + 1] = flat[k + 1]}
  <2>4. 0 \in T
    <3>1. 1 \in 1..Len(units)
      BY <1>5
    <3>2. h[1] = units[1] /\ g[1] = units[1]
      BY <2>1, <2>2, <3>1
    <3>3. h[1] = flat[1]
      BY <3>1 DEF h
    <3>. QED  BY <3>2, <3>3
  <2>5. ASSUME NEW k \in Nat, k \in T
        PROVE  k + 1 \in T
    <3> SUFFICES ASSUME (k + 1) + 1 <= Len(units)
                 PROVE  g[(k + 1) + 1] = flat[(k + 1) + 1]
      OBVIOUS
    <3>1. /\ (k + 1) + 1 \in 1..Len(units) /\ ((k + 1) + 1) - 1 = k + 1 /\ (k + 1) + 1 # 1
          /\ g[k + 1] = flat[k + 1]
      BY <2>5
    <3>2. g[(k + 1) + 1] = g[k + 1] \o units[(k + 1) + 1]
      BY <2>2, <3>1
    <3>3. flat[(k + 1) + 1] = flat[k + 1] \o units[(k + 1) + 1]
      BY <1>4, <3>1
    <3>. QED  BY <3>1, <3>2, <3>3
  <2>6. \A k \in Nat : k \in T => k + 1 \in T
    BY <2>5
  <2> HIDE DEF T
  <2>7. Nat \subseteq T
    BY <2>4, <2>6, Induction, Zenon
  <2>8. Len(units) - 1 \in T /\ (Len(units) - 1) + 1 = Len(units)
    BY <1>5, <2>7
  <2>. QED  BY <2>3, <2>8 DEF T
<1>6. ASSUME Len(units) = 0
      PROVE  flat[Len(units)] = FlattenSeq(units)
  <2>1. units = <<>> /\ FlattenSeq(units) = units
    BY <1>6 DEF FlattenSeq
  <2>. QED  BY <1>4, <1>6, <2>1
<1>. QED  BY <1>4, <1>5, <1>6

\* After k units: every manifest among them is parsed, and every path sorted
\* behind.
Read(q, units, k) ==
  LET s == Sorted(q)
      p == ParsedTo(s.flags)
  IN /\ s.awaited = FALSE
     /\ p.outcome = "ok" /\ p.pending = "none" /\ p.ended = FALSE /\ p.rest = <<>>
     /\ p.set["manifest"] = LastGiven(units, k)
     /\ \A j \in 1..Len(s.rest) : s.rest[j].kind = "word"
     /\ Len(s.rest) = Cardinality(PathsTo(units, k))
     /\ \A i \in PathsTo(units, k) : \E j \in 1..Len(s.rest) : s.rest[j] = units[i][1]

LEMMA ReadNothing ==
  ASSUME NEW units
  PROVE  Read(<<>>, units, 0)
<1>1. PathsTo(units, 0) = {} /\ GivenTo(units, 0) = {}
  BY DEF PathsTo, GivenTo
<1>2. Cardinality({}) = 0
  BY FS_EmptySet
<1>3. LastGiven(units, 0) = "default"
  BY <1>1 DEF LastGiven
<1>4. /\ Sorted(<<>>).flags = <<>> /\ Sorted(<<>>).rest = <<>> /\ Sorted(<<>>).awaited = FALSE
  BY NoArguments DEF SortStart
<1>5. /\ ParsedTo(<<>>).outcome = "ok" /\ ParsedTo(<<>>).pending = "none"
      /\ ParsedTo(<<>>).ended = FALSE /\ ParsedTo(<<>>).rest = <<>>
      /\ ParsedTo(<<>>).set["manifest"] = "default"
  BY NoArguments DEF ParseStart, Manifest
<1>6. <<>> \in Seq(Args) /\ Len(<<>>) = 0
  OBVIOUS
<1>7. PICK e \in Seq(Args) : e = <<>> /\ Len(e) = 0
  BY <1>6
<1>8. \A j \in 1..Len(e) : e[j].kind = "word"
  BY <1>7
<1>. QED
  BY <1>1, <1>2, <1>3, <1>4, <1>5, <1>7, <1>8 DEF Read

\* A path is set aside.
LEMMA ReadPath ==
  ASSUME NEW q \in Seq(Args), NEW units, NEW k \in Nat, Read(q, units, k),
         NEW a \in Args, units[k + 1] = <<a>>, a.kind = "word"
  PROVE  Read(Append(q, a), units, k + 1)
<1>1. Sorted(Append(q, a)) = SortStep(Sorted(q), a) /\ Sorted(q) \in SortStates
  BY OneMore, StatesAre
<1>2. Sorted(q).awaited = FALSE
  BY DEF Read
<1>3. Sorted(Append(q, a)) = [Sorted(q) EXCEPT !.rest = Append(@, a)]
  BY <1>1, <1>2 DEF SortStep, IsManifest
<1>4. units[k + 1][1] = a
  OBVIOUS
<1>5. PathsTo(units, k + 1) = PathsTo(units, k) \cup {k + 1} /\ k + 1 \notin PathsTo(units, k)
  BY <1>4 DEF PathsTo
<1>6. GivenTo(units, k + 1) = GivenTo(units, k)
  BY <1>5 DEF GivenTo, PathsTo
<1>7. LastGiven(units, k + 1) = LastGiven(units, k)
  BY <1>6 DEF LastGiven
<1>8. /\ Cardinality(PathsTo(units, k + 1)) = Cardinality(PathsTo(units, k)) + 1
  <2>1. IsFiniteSet(1..k)
    BY FS_Interval
  <2>2. IsFiniteSet(PathsTo(units, k))
    BY <2>1, FS_Subset DEF PathsTo
  <2>. QED  BY <1>5, <2>2, FS_AddElement
<1>9. PICK r \in Seq(Args) : r = Sorted(q).rest
  BY <1>1 DEF SortStates
<1>10. /\ Sorted(Append(q, a)).rest = Append(r, a) /\ Sorted(Append(q, a)).awaited = FALSE
       /\ Sorted(Append(q, a)).flags = Sorted(q).flags
  BY <1>1, <1>2, <1>3, <1>9 DEF SortStates
<1>11. /\ Len(Append(r, a)) = Len(r) + 1 /\ Len(r) \in Nat
       /\ \A j \in 1..Len(r) : Append(r, a)[j] = r[j]
       /\ Append(r, a)[Len(r) + 1] = a
  OBVIOUS
<1>12. \A j \in 1..Len(Append(r, a)) : Append(r, a)[j].kind = "word"
  BY <1>9, <1>11 DEF Read
<1>13. \A i \in PathsTo(units, k + 1) :
         \E j \in 1..Len(Append(r, a)) : Append(r, a)[j] = units[i][1]
  <2>1. \A i \in PathsTo(units, k) : \E j \in 1..Len(r) : r[j] = units[i][1]
    BY <1>9 DEF Read
  <2>2. Len(r) + 1 \in 1..Len(Append(r, a)) /\ \A j \in 1..Len(r) : j \in 1..Len(Append(r, a))
    BY <1>11
  <2>. QED  BY <1>4, <1>5, <1>11, <2>1, <2>2
<1>14. Len(Append(r, a)) = Cardinality(PathsTo(units, k + 1))
  BY <1>8, <1>9, <1>11 DEF Read
<1>. QED  BY <1>7, <1>10, <1>12, <1>13, <1>14 DEF Read

\* Flags that are parsed take the manifest that is given next.
LEMMA ReadGiven ==
  ASSUME NEW q \in Seq(Args), NEW z \in Seq(Args), NEW units, NEW k \in Nat, Read(q, units, k),
         units[k + 1][1].kind # "word",
         Sorted(z).awaited = FALSE, Sorted(z).rest = Sorted(q).rest,
         ParsedTo(Sorted(z).flags) = [ParsedTo(Sorted(q).flags) EXCEPT
           !.set = [@ EXCEPT !["manifest"] = units[k + 1][Len(units[k + 1])].value]]
  PROVE  Read(z, units, k + 1)
<1>1. PathsTo(units, k + 1) = PathsTo(units, k)
  BY DEF PathsTo
<1>2. GivenTo(units, k + 1) = GivenTo(units, k) \cup {k + 1}
  BY <1>1 DEF GivenTo, PathsTo
<1>3. Max(GivenTo(units, k + 1)) = k + 1
  <2>1. GivenTo(units, k) \subseteq 1..k
    BY DEF GivenTo
  <2>. QED  BY <1>2, <2>1 DEF Max
<1>4. LastGiven(units, k + 1) = units[k + 1][Len(units[k + 1])].value
  BY <1>2, <1>3 DEF LastGiven
<1>5. ParsedTo(Sorted(q).flags) \in ParseStates
  BY StatesAre DEF SortStates
<1>6. /\ ParsedTo(Sorted(z).flags).outcome = "ok" /\ ParsedTo(Sorted(z).flags).pending = "none"
      /\ ParsedTo(Sorted(z).flags).ended = FALSE /\ ParsedTo(Sorted(z).flags).rest = <<>>
      /\ ParsedTo(Sorted(z).flags).set["manifest"] = LastGiven(units, k + 1)
  BY <1>4, <1>5 DEF Read, ParseStates, Manifest
<1>. QED  BY <1>1, <1>6 DEF Read

\* The flag with its value in one argument.
LEMMA ReadFlagEq ==
  ASSUME NEW q \in Seq(Args), NEW units, NEW k \in Nat, Read(q, units, k),
         NEW a \in Args, units[k + 1] = <<a>>, a.kind = "flag=", a.name = "manifest"
  PROVE  Read(Append(q, a), units, k + 1)
<1>1. Append(q, a) \in Seq(Args) /\ Sorted(Append(q, a)) = SortStep(Sorted(q), a)
  BY OneMore
<1>2. Sorted(q) \in SortStates /\ Sorted(q).awaited = FALSE
  BY StatesAre DEF Read
<1>3. Sorted(Append(q, a))
        = [Sorted(q) EXCEPT !.flags = Append(@, a), !.awaited = ~@ /\ a.kind = "flag"]
  BY <1>1 DEF SortStep, IsManifest
<1>4. /\ Sorted(Append(q, a)).awaited = FALSE
      /\ Sorted(Append(q, a)).rest = Sorted(q).rest
      /\ Sorted(Append(q, a)).flags = Append(Sorted(q).flags, a)
  BY <1>2, <1>3 DEF SortStates
<1>5. Sorted(q).flags \in Seq(Args)
  BY <1>2 DEF SortStates
<1>6. ParsedTo(Append(Sorted(q).flags, a)) = ParseStep(Manifest, ParsedTo(Sorted(q).flags), a)
  BY <1>5, OneMore
<1>7. ParsedTo(Append(Sorted(q).flags, a))
        = [ParsedTo(Sorted(q).flags) EXCEPT !.set = [@ EXCEPT !["manifest"] = a.value]]
  BY <1>6 DEF ParseStep, Read, Manifest
<1>8. units[k + 1][1] = a /\ Len(units[k + 1]) = 1
  OBVIOUS
<1>. QED  BY <1>1, <1>4, <1>7, <1>8, ReadGiven

\* The flag with its value in the next argument, whatever that is.
LEMMA ReadFlag ==
  ASSUME NEW q \in Seq(Args), NEW units, NEW k \in Nat, Read(q, units, k),
         NEW a \in Args, NEW b \in Args, units[k + 1] = <<a, b>>,
         a.kind = "flag", a.name = "manifest"
  PROVE  Read(Append(Append(q, a), b), units, k + 1)
<1>1. /\ Append(q, a) \in Seq(Args) /\ Sorted(Append(q, a)) = SortStep(Sorted(q), a)
      /\ Append(Append(q, a), b) \in Seq(Args)
      /\ Sorted(Append(Append(q, a), b)) = SortStep(SortStep(Sorted(q), a), b)
  BY OneMore
<1>2. Sorted(q) \in SortStates /\ Sorted(q).awaited = FALSE
  BY StatesAre DEF Read
<1> DEFINE s == SortStep(Sorted(q), a)
           t == SortStep(s, b)
<1>0. s = [Sorted(q) EXCEPT !.flags = Append(@, a), !.awaited = ~@ /\ a.kind = "flag"]
  BY DEF SortStep, IsManifest
<1>12. Append(Sorted(q).flags, a) \in Seq(Args)
  BY <1>2 DEF SortStates
<1>3. /\ s \in SortStates /\ s.awaited = TRUE
      /\ s.rest = Sorted(q).rest /\ s.flags = Append(Sorted(q).flags, a)
  <2> HIDE DEF s
  <2>. QED  BY <1>0, <1>2, <1>12 DEF SortStates
<1> HIDE DEF s
<1>4. /\ t.awaited = FALSE /\ t.rest = Sorted(q).rest
      /\ t.flags = Append(Append(Sorted(q).flags, a), b)
  BY <1>3 DEF SortStep, SortStates
<1>5. Sorted(q).flags \in Seq(Args)
  BY <1>2 DEF SortStates
<1> DEFINE p == ParsedTo(Sorted(q).flags)
<1>6. /\ ParsedTo(Append(Sorted(q).flags, a)) = ParseStep(Manifest, p, a)
      /\ Append(Sorted(q).flags, a) \in Seq(Args)
  BY <1>5, OneMore
<1>7. ParsedTo(t.flags) = ParseStep(Manifest, ParseStep(Manifest, p, a), b)
  BY <1>4, <1>6, OneMore
<1>8. p \in ParseStates /\ p.outcome = "ok" /\ p.pending = "none" /\ p.ended = FALSE
  BY <1>5, StatesAre DEF Read
<1> HIDE DEF p
<1>9. ParseStep(Manifest, p, a) = [p EXCEPT !.pending = "manifest"]
  BY <1>8 DEF ParseStep, Manifest
<1>10. ParseStep(Manifest, [p EXCEPT !.pending = "manifest"], b)
         = [p EXCEPT !.set = [@ EXCEPT !["manifest"] = b.value]]
  BY <1>8 DEF ParseStep, ParseStates
<1>11. units[k + 1][1] = a /\ Len(units[k + 1]) = 2 /\ units[k + 1][2] = b
  OBVIOUS
<1>. QED  BY <1>1, <1>4, <1>7, <1>9, <1>10, <1>11, ReadGiven DEF s, p

\* A unit is a path, or the flag in one of its forms.
LEMMA UnitIs ==
  ASSUME NEW u \in Paths \cup Givens
  PROVE  \/ \E a \in Args : u = <<a>> /\ a.kind = "word"
         \/ \E a \in Args : u = <<a>> /\ a.kind = "flag=" /\ a.name = "manifest"
         \/ \E a, b \in Args : u = <<a, b>> /\ a.kind = "flag" /\ a.name = "manifest"
<1>1. CASE u \in Seq(Args) /\ Len(u) = 1
  <2>1. u[1] \in Args /\ u = <<u[1]>>
    BY <1>1
  <2>. QED  BY <1>1, <2>1 DEF Paths, Givens
<1>2. CASE u \in Seq(Args) /\ Len(u) = 2
  <2>1. u[1] \in Args /\ u[2] \in Args /\ u = <<u[1], u[2]>>
    BY <1>2
  <2>2. u[1].kind = "flag" /\ u[1].name = "manifest"
    BY <1>2 DEF Paths, Givens
  <2>. QED  BY <2>1, <2>2
<1>. QED  BY <1>1, <1>2 DEF Paths, Givens

\* The whole line is read.
LEMMA ReadAll ==
  ASSUME NEW units \in Seq(Paths \cup Givens)
  PROVE  FlattenSeq(units) \in Seq(Args) /\ Read(FlattenSeq(units), units, Len(units))
<1>1. units \in Seq(Seq(Args))
  BY DEF Paths, Givens
<1>2. PICK flat \in [0..Len(units) -> Seq(Args)] :
        /\ flat[0] = <<>> /\ flat[Len(units)] = FlattenSeq(units)
        /\ \A k \in 1..Len(units) : flat[k] = flat[k - 1] \o units[k]
  BY <1>1, FlattenIs
<1> DEFINE T == {k \in Nat : k <= Len(units) => Read(flat[k], units, k)}
<1>3. 0 \in T
  BY <1>2, ReadNothing
<1>4. ASSUME NEW k \in Nat, Read(flat[k], units, k), k + 1 <= Len(units)
      PROVE  Read(flat[k + 1], units, k + 1)
  <2>1. k + 1 \in 1..Len(units) /\ (k + 1) - 1 = k /\ k \in 0..Len(units)
    BY <1>4
  <2>2. flat[k + 1] = flat[k] \o units[k + 1] /\ flat[k] \in Seq(Args)
    BY <1>2, <2>1
  <2>3. PICK q \in Seq(Args) : q = flat[k]
    BY <2>2
  <2>4. units[k + 1] \in Paths \cup Givens
    BY <2>1
  <2>5. ASSUME NEW a \in Args, units[k + 1] = <<a>>
        PROVE  flat[k + 1] = Append(q, a)
    BY <2>2, <2>3, <2>5
  <2>6. ASSUME NEW a \in Args, NEW b \in Args, units[k + 1] = <<a, b>>
        PROVE  flat[k + 1] = Append(Append(q, a), b)
    BY <2>2, <2>3, <2>6
  <2>7. Read(q, units, k)
    BY <1>4, <2>3
  <2>8. ASSUME NEW a \in Args, units[k + 1] = <<a>>, a.kind = "word"
        PROVE  Read(flat[k + 1], units, k + 1)
    BY <2>5, <2>7, <2>8, ReadPath
  <2>9. ASSUME NEW a \in Args, units[k + 1] = <<a>>, a.kind = "flag=", a.name = "manifest"
        PROVE  Read(flat[k + 1], units, k + 1)
    BY <2>5, <2>7, <2>9, ReadFlagEq
  <2>10. ASSUME NEW a \in Args, NEW b \in Args, units[k + 1] = <<a, b>>,
                a.kind = "flag", a.name = "manifest"
         PROVE  Read(flat[k + 1], units, k + 1)
    BY <2>6, <2>7, <2>10, ReadFlag
  <2>. QED  BY <2>4, <2>8, <2>9, <2>10, UnitIs, Zenon
<1>5. \A k \in Nat : k \in T => k + 1 \in T
  <2>1. \A k \in Nat : k + 1 <= Len(units) => k <= Len(units)
    OBVIOUS
  <2>. QED  BY <1>4, <2>1
<1> HIDE DEF T
<1>6. Nat \subseteq T
  BY <1>3, <1>5, Induction, Zenon
<1>7. Len(units) \in Nat /\ Len(units) \in 0..Len(units)
  OBVIOUS
<1>. QED  BY <1>2, <1>6, <1>7 DEF T

\* What `codegraph index` is given: the last manifest, and the paths.
LEMMA IndexParsed ==
  ASSUME NEW units \in Seq(Paths \cup Givens)
  PROVE  LET t == Parse(manifestFlagFirst(FlattenSeq(units)), Manifest)
             paths == PathsTo(units, Len(units))
         IN  /\ t.outcome = "ok" /\ t.set["manifest"] = LastGiven(units, Len(units))
             /\ Len(t.rest) = Cardinality(paths)
             /\ Cardinality(paths) = 1 => \A i \in paths : t.rest[1] = units[i][1].value
<1> DEFINE q == FlattenSeq(units)
           s == Sorted(q)
           n == Len(units)
           p == ParsedTo(s.flags)
           t == ParsedTo(s.flags \o s.rest)
<1>1. q \in Seq(Args) /\ Read(q, units, n)
  BY ReadAll
<1> HIDE DEF q
<1>2. s \in SortStates
  BY <1>1, StatesAre
<1>3. s.flags \in Seq(Args) /\ s.rest \in Seq(Args)
  BY <1>2 DEF SortStates
<1>4. /\ p.outcome = "ok" /\ p.pending = "none" /\ p.ended = FALSE /\ p.rest = <<>>
      /\ p.set["manifest"] = LastGiven(units, n)
      /\ \A j \in 1..Len(s.rest) : s.rest[j].kind = "word"
      /\ Len(s.rest) = Cardinality(PathsTo(units, n))
      /\ \A i \in PathsTo(units, n) : \E j \in 1..Len(s.rest) : s.rest[j] = units[i][1]
  BY <1>1 DEF Read
<1> HIDE DEF s
<1>5. /\ t.outcome = "ok" /\ t.pending = "none" /\ t.set = p.set
      /\ Len(s.rest) > 0 => t.rest = [j \in 1..Len(s.rest) |-> s.rest[j].value]
      /\ Len(s.rest) = 0 => t.rest = p.rest
  BY <1>3, <1>4, ParseWords
<1>6. Parse(manifestFlagFirst(q), Manifest) = t
  <2>1. manifestFlagFirst(q) = s.flags \o s.rest
    BY DEF manifestFlagFirst, s, Sorted
  <2>. QED  BY <1>5, <2>1 DEF Parse, ParsedTo
<1> HIDE DEF p, t
<1>7. PICK r \in Seq(Args) : r = s.rest
  BY <1>3
<1>8. Len(t.rest) = Len(r)
  <2>1. Len(r) \in Nat
    OBVIOUS
  <2>2. CASE Len(r) = 0
    <3>1. t.rest = <<>>
      BY <1>4, <1>5, <1>7, <2>2
    <3>2. Len(<<>>) = 0
      OBVIOUS
    <3>. QED  BY <2>2, <3>1, <3>2
  <2>3. CASE Len(r) > 0
    <3>1. t.rest = [j \in 1..Len(r) |-> r[j].value]
      BY <1>5, <1>7, <2>3
    <3>2. DOMAIN t.rest = 1..Len(r) /\ t.rest \in Seq(STRING)
      <4>1. ASSUME NEW j \in 1..Len(r)
            PROVE  r[j].value \in STRING
        <5>1. r[j] \in Args
          OBVIOUS
        <5>. QED  BY <5>1 DEF Args
      <4>. QED  BY <3>1, <4>1
    <3>. QED  BY <3>1, <3>2
  <2>. QED  BY <2>1, <2>2, <2>3
<1>9. ASSUME Cardinality(PathsTo(units, n)) = 1, NEW i \in PathsTo(units, n)
      PROVE  t.rest[1] = units[i][1].value
  <2>1. Len(r) = 1 /\ t.rest = [j \in 1..Len(r) |-> r[j].value]
    BY <1>4, <1>5, <1>7, <1>9
  <2>2. PICK j \in 1..Len(r) : r[j] = units[i][1]
    BY <1>4, <1>7, <1>9
  <2>3. j = 1
    BY <2>1, <2>2
  <2>. QED  BY <2>1, <2>2, <2>3
<1>. QED  BY <1>4, <1>5, <1>6, <1>7, <1>8, <1>9 DEF q

LEMMA IndexWords ==
  LET w == <<"codegraph", "index">>
  IN  /\ w # <<"boot">> /\ w # <<"install">> /\ w # <<"chart", "templates">>
      /\ w # <<"validate", "litellm-config">> /\ w # <<"mcp", "prewarm">> /\ w # <<"mcp", "verify">>
      /\ w # <<"deps", "status">> /\ w # <<"deps", "install">>
  OBVIOUS

\* The only flag of `codegraph index`.
LEMMA IndexFlags ==
  /\ <<"codegraph", "index">> \in DOMAIN Flags
  /\ Flags[<<"codegraph", "index">>] = Manifest
  BY IndexWords DEF Flags, Commands, Manifest

\* A line that is put together from paths and manifests.
Index == cmd.words = <<"codegraph", "index">> /\ cmd.units # <<>>

\* Once the command has run, it has run with what was read of the line.
Indexed ==
  /\ cmd \in Lines
  /\ Index => phase \in {"start", "exited", "helped"}
  /\ Index /\ phase = "exited" =>
       \/ code = "2" /\ (Parsed.outcome = "bad" \/ Refused)
       \/ /\ code \in {"0", "1"} /\ ~Refused
          /\ target = <<Parsed.set["manifest"], Parsed.rest[1]>>

LEMMA IndexedStep == Indexed /\ [Next]_vars => Indexed'
<1> SUFFICES ASSUME Indexed, [Next]_vars
             PROVE  Indexed'
  OBVIOUS
<1>1. ASSUME cmd' = cmd PROVE Parsed' = Parsed /\ Refused' = Refused /\ Index' = Index
  BY <1>1 DEF Parsed, Refused, Index
<1>2. CASE Usage
  <2>1. Index => Parsed.outcome = "bad" \/ Refused
    BY <1>2, IndexFlags DEF Usage, Index
  <2>. QED  BY <1>1, <1>2, <2>1 DEF Usage, Exits, Indexed
<1>3. CASE Help
  BY <1>1, <1>3 DEF Help, Indexed
<1>4. CASE ChartTemplates \/ LitellmConfig \/ ValidateManifest \/ Delegate
  <2>1. cmd' = cmd /\ ~Index
    BY <1>4, IndexWords DEF ChartTemplates, LitellmConfig, ValidateManifest, Delegate, Validates,
                            Runs, Is, Index
  <2>. QED  BY <1>1, <2>1 DEF Indexed
<1>5. CASE CodegraphIndex
  <2>1. /\ cmd' = cmd /\ ~Refused /\ phase' = "exited" /\ code' \in {"0", "1"}
        /\ target' = <<Parsed.set["manifest"], Parsed.rest[1]>>
    BY <1>5 DEF CodegraphIndex, Runs, Exits
  <2>. QED  BY <1>1, <2>1 DEF Indexed
<1>6. CASE DepsStatus \/ InstallDeps
  <2>1. cmd' = cmd /\ ~Index
    BY <1>6, IndexWords DEF DepsStatus, InstallDeps, Is, Index
  <2>. QED  BY <1>1, <2>1 DEF Indexed
<1>7. CASE Install
  <2>1. cmd' = cmd
    BY <1>7 DEF Install, OpenDest, Copy, Close, Chmod, InstallFails, Restart, installing
  <2>2. CASE OpenDest \/ Restart \/ (InstallFails /\ Runs(<<"install">>))
    <3>1. ~Index
      BY <2>2, IndexWords DEF OpenDest, Restart, InstallFails, Runs, Is, Index
    <3>. QED  BY <1>1, <2>1, <3>1 DEF Indexed
  <2>3. CASE phase \in {"copy", "close", "chmod"}
    <3>1. ~Index
      BY <2>3 DEF Indexed
    <3>. QED  BY <1>1, <2>1, <3>1 DEF Indexed
  <2>4. (Copy \/ Close \/ Chmod) => phase \in {"copy", "close", "chmod"}
    BY DEF Copy, Close, Chmod
  <2>5. InstallFails => (Runs(<<"install">>) \/ phase \in {"copy", "close", "chmod"})
    BY DEF InstallFails
  <2>. QED  BY <1>7, <2>2, <2>3, <2>4, <2>5 DEF Install
<1>8. CASE UNCHANGED vars
  BY <1>1, <1>8 DEF vars, Indexed
<1>. QED  BY <1>2, <1>3, <1>4, <1>5, <1>6, <1>7, <1>8 DEF Next

LEMMA IndexedFlags == Indexed => AnyFlagOrder
<1> SUFFICES ASSUME Indexed, Index, phase = "exited"
             PROVE  AnyFlagOrder
  BY DEF AnyFlagOrder, Index
<1> DEFINE units == cmd.units
           n == Len(units)
           paths == PathsTo(units, n)
           t == Parse(manifestFlagFirst(FlattenSeq(units)), Manifest)
<1>1. units \in Seq(Paths \cup Givens) /\ cmd.args = FlattenSeq(units)
  BY GitopsctlAssumption DEF Indexed, Index
<1>2. Parsed = t
  BY <1>1, IndexFlags DEF Parsed, Index
<1>3. /\ t.outcome = "ok" /\ t.set["manifest"] = LastGiven(units, n)
      /\ Len(t.rest) = Cardinality(paths)
      /\ Cardinality(paths) = 1 => \A i \in paths : t.rest[1] = units[i][1].value
  BY <1>1, IndexParsed
<1>4. Refused <=> Cardinality(paths) # 1
  BY <1>2, <1>3, IndexWords DEF Refused, Index
<1>5. DOMAIN units = 1..n
  BY <1>1
<1> HIDE DEF units
<1>6. /\ paths = {i \in DOMAIN units : units[i][1].kind = "word"}
      /\ GivenTo(units, n) = DOMAIN units \ paths
  BY <1>5 DEF PathsTo, GivenTo
<1> HIDE DEF t
<1>7. CASE Cardinality(paths) # 1
  <2>1. code = "2"
    BY <1>4, <1>7 DEF Indexed
  <2>. QED  BY <1>6, <1>7, <2>1 DEF AnyFlagOrder, units
<1>8. CASE Cardinality(paths) = 1
  <2>1. code # "2" /\ target = <<t.set["manifest"], t.rest[1]>>
    BY <1>2, <1>3, <1>4, <1>8 DEF Indexed
  <2>2. paths # {}
    BY <1>8, FS_EmptySet
  <2>3. (CHOOSE i \in paths : TRUE) \in paths
    BY <2>2
  <2>4. target[2] = units[CHOOSE i \in paths : TRUE][1].value
    BY <1>3, <1>8, <2>1, <2>3
  <2>5. target[1] = LastGiven(units, n)
    BY <1>3, <2>1
  <2> HIDE DEF n
  <2>. QED
    BY <1>6, <1>8, <2>1, <2>4, <2>5 DEF AnyFlagOrder, LastGiven, units
<1>. QED  BY <1>7, <1>8

\* `codegraph index` runs with the only path and the last manifest of its
\* line, in whichever order and form these are given, or says 2, for lines of
\* any length (main.go:153-194).
THEOREM FlagsInAnyOrder == Spec => []AnyFlagOrder
<1>1. Init => Indexed
  BY DEF Init, Indexed
<1>2. Indexed => AnyFlagOrder
  BY IndexedFlags
<1>. QED  BY <1>1, <1>2, IndexedStep, PTL DEF Spec

-----------------------------------------------------------------------------
(* Lines of values as a tree *)

At(lines, n) == Litellm!Indent(lines[n])

LEMMA AtNat ==
  ASSUME NEW lines \in Seq(Litellm!KeyLines), NEW n \in 1..Len(lines)
  PROVE  At(lines, n) \in Nat
<1>1. lines[n] \in Litellm!KeyLines
  OBVIOUS
<1>2. lines[n].start \in Nat /\ lines[n].start + 2 \in Nat /\ lines[n].start + 0 \in Nat
  BY <1>1 DEF Litellm!KeyLines
<1>. QED  BY <1>2 DEF At, Litellm!Indent

LEMMA Greatest ==
  ASSUME NEW n \in Nat, NEW S \in SUBSET (0..n), S # {}
  PROVE  Litellm!Max(S) \in S /\ \A m \in S : m <= Litellm!Max(S)
<1> DEFINE T == {j \in Nat : n - j \in S}
<1>1. T # {}
  <2>1. PICK m \in S : TRUE
    OBVIOUS
  <2>2. n - m \in Nat /\ n - (n - m) = m
    OBVIOUS
  <2>. QED  BY <2>2
<1>2. PICK j \in T : \A i \in T : j <= i
  BY <1>1, Least
<1>3. n - j \in S /\ \A m \in S : n - j >= m
  <2>1. ASSUME NEW m \in S
        PROVE  n - m \in Nat /\ n - (n - m) = m
    OBVIOUS
  <2>2. \A m \in S : n - m \in T
    BY <2>1
  <2>. QED  BY <1>2, <2>1, <2>2
<1>4. Litellm!Max(S) \in S /\ \A m \in S : Litellm!Max(S) >= m
  <2>1. \E x \in S : \A m \in S : x >= m
    BY <1>3
  <2>. QED  BY <2>1 DEF Litellm!Max
<1>. QED  BY <1>4

\* The mapping of a line is the one opened by the last line that is less far in.
LEMMA ParentIs ==
  ASSUME NEW lines \in Seq(Litellm!KeyLines), NEW n \in 1..Len(lines)
  PROVE  LET p == Litellm!Parent(lines, n)
         IN  /\ p \in 0..(n - 1)
             /\ p # 0 => At(lines, p) < At(lines, n)
             /\ \A m \in (p + 1)..(n - 1) : At(lines, n) <= At(lines, m)
<1> DEFINE S == {0} \cup {m \in 1..(n - 1) : At(lines, m) < At(lines, n)}
           p == Litellm!Parent(lines, n)
<1>1. p = Litellm!Max(S)
  BY DEF Litellm!Parent, At
<1>2. S \in SUBSET (0..(n - 1)) /\ S # {} /\ n - 1 \in Nat
  OBVIOUS
<1>3. p \in S /\ \A m \in S : m <= p
  <2> HIDE DEF S, p
  <2>. QED  BY <1>1, <1>2, Greatest
<1> HIDE DEF p
<1>4. ASSUME NEW m \in (p + 1)..(n - 1)
      PROVE  At(lines, n) <= At(lines, m)
  <2>1. m \in 1..(n - 1) /\ ~(m <= p) /\ m \in 1..Len(lines)
    BY <1>3
  <2>2. ~(At(lines, m) < At(lines, n))
    BY <1>3, <2>1
  <2>. QED  BY <2>1, <2>2, AtNat
<1>. QED  BY <1>3, <1>4 DEF p

LEMMA ParentOnly ==
  ASSUME NEW lines \in Seq(Litellm!KeyLines), NEW n \in 1..Len(lines), NEW p \in 1..(n - 1),
         At(lines, p) < At(lines, n),
         \A m \in (p + 1)..(n - 1) : At(lines, n) <= At(lines, m)
  PROVE  Litellm!Parent(lines, n) = p
<1> DEFINE r == Litellm!Parent(lines, n)
<1>1. /\ r \in 0..(n - 1)
      /\ r # 0 => At(lines, r) < At(lines, n)
      /\ \A m \in (r + 1)..(n - 1) : At(lines, n) <= At(lines, m)
  BY ParentIs
<1> HIDE DEF r
<1>2. At(lines, p) \in Nat /\ At(lines, n) \in Nat /\ (r # 0 => At(lines, r) \in Nat)
  <2>1. p \in 1..Len(lines) /\ (r # 0 => r \in 1..Len(lines))
    BY <1>1
  <2>. QED  BY <2>1, AtNat
<1>3. ~(r < p)
  <2>1. r < p => p \in (r + 1)..(n - 1)
    BY <1>1
  <2>. QED  BY <1>1, <1>2, <2>1
<1>4. ~(p < r)
  <2>1. p < r => r # 0 /\ r \in (p + 1)..(n - 1)
    BY <1>1
  <2>. QED  BY <1>1, <1>2, <2>1
<1>. QED  BY <1>1, <1>3, <1>4 DEF r

\* Line k is still further in than line p, and so are all between them.
Deeper(lines, p, k) == \A m \in (p + 1)..k : At(lines, p) < At(lines, m)

LEMMA AncestorsAre ==
  ASSUME NEW lines, NEW n \in Nat, NEW a
  PROVE  a \in Litellm!Ancestors(lines, n) <=> a \in 1..(n - 1) /\ Deeper(lines, a, n)
  BY DEF Litellm!Ancestors, Deeper, At

LEMMA DeeperFurther ==
  ASSUME NEW lines \in Seq(Litellm!KeyLines), NEW n \in 1..Len(lines),
         NEW a \in 1..n, NEW b \in 1..a, Deeper(lines, b, a), Deeper(lines, a, n)
  PROVE  Deeper(lines, b, n)
<1> SUFFICES ASSUME NEW m \in (b + 1)..n
             PROVE  At(lines, b) < At(lines, m)
  BY DEF Deeper
<1>1. CASE m <= a
  BY <1>1 DEF Deeper
<1>2. CASE m > a
  <2>1. At(lines, a) < At(lines, m)
    BY <1>2 DEF Deeper
  <2>2. b = a \/ At(lines, b) < At(lines, a)
    BY DEF Deeper
  <2>3. At(lines, a) \in Nat /\ At(lines, b) \in Nat /\ At(lines, m) \in Nat
    BY AtNat
  <2>. QED  BY <2>1, <2>2, <2>3
<1>. QED  BY <1>1, <1>2

LEMMA ParentDeeper ==
  ASSUME NEW lines \in Seq(Litellm!KeyLines), NEW n \in 1..Len(lines),
         NEW p, p = Litellm!Parent(lines, n), p # 0
  PROVE  p \in 1..(n - 1) /\ Deeper(lines, p, n)
<1>1. /\ p \in 0..(n - 1) /\ At(lines, p) < At(lines, n)
      /\ \A m \in (p + 1)..(n - 1) : At(lines, n) <= At(lines, m)
  BY ParentIs
<1>2. ASSUME NEW m \in (p + 1)..n
      PROVE  At(lines, p) < At(lines, m)
  <2>1. At(lines, p) \in Nat /\ At(lines, m) \in Nat /\ At(lines, n) \in Nat
    BY <1>1, AtNat
  <2>. QED  BY <1>1, <2>1
<1>. QED  BY <1>1, <1>2 DEF Deeper

\* The mappings a line is in are that of its parent, and those the parent is in.
LEMMA AncestorsThrough ==
  ASSUME NEW lines \in Seq(Litellm!KeyLines), NEW n \in 1..Len(lines), NEW a \in 1..(n - 1),
         Deeper(lines, a, n)
  PROVE  LET p == Litellm!Parent(lines, n)
         IN  p \in a..(n - 1) /\ Deeper(lines, a, p)
<1> DEFINE p == Litellm!Parent(lines, n)
<1>1. /\ p \in 0..(n - 1)
      /\ \A m \in (p + 1)..(n - 1) : At(lines, n) <= At(lines, m)
  BY ParentIs
<1> HIDE DEF p
<1>2. At(lines, a) < At(lines, n) /\ At(lines, a) \in Nat /\ At(lines, n) \in Nat
  BY AtNat DEF Deeper
<1>3. ~(p < a)
  BY <1>1, <1>2
<1>. QED  BY <1>1, <1>3 DEF Deeper, p

-----------------------------------------------------------------------------
(* The blocks of a document *)

\* A line that opens a block if it is in none, and the litellm_params the scan
\* looks at: those in no block.
Opener(line) == line.key = "litellm_params" /\ line.value = Litellm!NoValue
LookedAt(lines) ==
  {n \in DOMAIN lines :
     /\ lines[n].key = "litellm_params"
     /\ \A a \in Litellm!Ancestors(lines, n) : ~Opener(lines[a])}

LEMMA ModelIs ==
  ASSUME NEW lines \in Seq(Litellm!KeyLines), NEW n
  PROVE  n \in LookedAt(lines) <=>
           /\ n \in 1..Len(lines) /\ lines[n].key = "litellm_params"
           /\ \A a \in 1..(n - 1) : Deeper(lines, a, n) => ~Opener(lines[a])
  BY AncestorsAre DEF LookedAt

\* The block that the lines up to k have not left.
Opens(lines, p, k) ==
  /\ p \in LookedAt(lines) /\ lines[p].value = Litellm!NoValue
  /\ p \in 1..k /\ Deeper(lines, p, k)

\* In a block there is no other.
LEMMA NoModelWithin ==
  ASSUME NEW lines \in Seq(Litellm!KeyLines), NEW p \in LookedAt(lines),
         lines[p].value = Litellm!NoValue, NEW n, p < n, n \in LookedAt(lines)
  PROVE  ~Deeper(lines, p, n)
<1>1. p \in 1..(n - 1) /\ Opener(lines[p])
  BY ModelIs DEF Opener
<1>. QED  BY <1>1, ModelIs

LEMMA OneOpen ==
  ASSUME NEW lines \in Seq(Litellm!KeyLines), NEW k \in Nat, k <= Len(lines), NEW p, NEW q,
         Opens(lines, p, k), Opens(lines, q, k)
  PROVE  p = q
<1>1. ASSUME NEW a, NEW b, Opens(lines, a, k), Opens(lines, b, k), a < b
      PROVE  FALSE
  <2>1. a \in 1..k /\ b \in 1..k /\ Deeper(lines, a, k)
    BY <1>1 DEF Opens
  <2>2. Deeper(lines, a, b)
    BY <2>1 DEF Deeper
  <2>. QED  BY <1>1, <2>2, NoModelWithin DEF Opens
<1>2. p \in 1..k /\ q \in 1..k
  BY DEF Opens
<1>3. ~(p < q) /\ ~(q < p)
  BY <1>1
<1>. QED  BY <1>2, <1>3

\* A line further in stays in the block, any other leaves it.
LEMMA StaysOpen ==
  ASSUME NEW lines \in Seq(Litellm!KeyLines), NEW n \in 1..Len(lines),
         NEW p, Opens(lines, p, n - 1)
  PROVE  Opens(lines, p, n) <=> At(lines, p) < At(lines, n)
<1>1. p \in 1..(n - 1) /\ Deeper(lines, p, n - 1)
  BY DEF Opens
<1>2. Deeper(lines, p, n) <=> At(lines, p) < At(lines, n)
  <2>1. \A m \in (p + 1)..n : m = n \/ m \in (p + 1)..(n - 1)
    OBVIOUS
  <2>2. n \in (p + 1)..n
    BY <1>1
  <2>. QED  BY <1>1, <2>1, <2>2 DEF Deeper
<1>. QED  BY <1>1, <1>2 DEF Opens

\* The children of a mapping in a document are as far in.
LEMMA Siblings ==
  ASSUME NEW lines \in Seq(Litellm!KeyLines), Litellm!Document(lines), NEW n \in 1..Len(lines),
         NEW p, p = Litellm!Parent(lines, n)
  PROVE  \A m \in (p + 1)..(n - 1) :
           Litellm!Parent(lines, m) = p => At(lines, m) = At(lines, n)
  BY DEF Litellm!Document, At

\* The first line of a block is a child of the key that opens it, and no line
\* of the block is less far in.
LEMMA FirstChild ==
  ASSUME NEW lines \in Seq(Litellm!KeyLines), Litellm!Document(lines), NEW n \in 1..Len(lines),
         NEW p \in 1..(n - 1), Deeper(lines, p, n)
  PROVE  /\ Litellm!Parent(lines, p + 1) = p
         /\ \A m \in (p + 1)..n : At(lines, p + 1) <= At(lines, m)
<1>1. p + 1 \in 1..Len(lines) /\ p \in 1..((p + 1) - 1) /\ p + 1 \in (p + 1)..n
  OBVIOUS
<1>2. Litellm!Parent(lines, p + 1) = p
  <2>1. At(lines, p) < At(lines, p + 1)
    BY <1>1 DEF Deeper
  <2>2. \A m \in (p + 1)..((p + 1) - 1) : At(lines, p + 1) <= At(lines, m)
    OBVIOUS
  <2>. QED  BY <1>1, <2>1, <2>2, ParentOnly
<1> DEFINE S == {m \in Nat : m \in (p + 1)..n /\ At(lines, m) < At(lines, p + 1)}
<1>4. S = {}
  <2> SUFFICES ASSUME S # {} PROVE FALSE
    OBVIOUS
  <2>1. PICK m \in S : \A i \in S : m <= i
    BY Least
  <2>2. /\ m \in (p + 1)..n /\ m \in 1..Len(lines) /\ At(lines, m) < At(lines, p + 1)
        /\ p \in 1..(m - 1) /\ At(lines, p) < At(lines, m)
    BY <2>1 DEF Deeper
  <2>3. m # p + 1
    BY <1>1, <2>2, AtNat
  <2>4. ASSUME NEW i \in (p + 1)..(m - 1)
        PROVE  At(lines, m) <= At(lines, i)
    <3>1. i \in Nat /\ i \in (p + 1)..n /\ ~(m <= i) /\ i \in 1..Len(lines)
      BY <2>2
    <3>2. ~(At(lines, i) < At(lines, p + 1))
      BY <2>1, <3>1
    <3>3. At(lines, i) \in Nat /\ At(lines, m) \in Nat /\ At(lines, p + 1) \in Nat
      BY <1>1, <2>2, <3>1, AtNat
    <3>. QED  BY <2>2, <3>2, <3>3
  <2>5. Litellm!Parent(lines, m) = p
    BY <2>2, <2>4, ParentOnly
  <2>6. p + 1 \in (p + 1)..(m - 1)
    BY <2>2, <2>3
  <2>7. At(lines, p + 1) = At(lines, m)
    BY <1>2, <2>2, <2>5, <2>6, Siblings
  <2>. QED  BY <1>1, <2>2, <2>7, AtNat
<1>5. ASSUME NEW m \in (p + 1)..n
      PROVE  At(lines, p + 1) <= At(lines, m)
  <2>1. m \in Nat /\ m \in 1..Len(lines)
    OBVIOUS
  <2>2. ~(At(lines, m) < At(lines, p + 1))
    BY <1>4, <2>1
  <2>3. At(lines, m) \in Nat /\ At(lines, p + 1) \in Nat
    BY <1>1, <2>1, AtNat
  <2>. QED  BY <2>2, <2>3
<1>. QED  BY <1>2, <1>5

\* Within a block a line is one of its direct keys when it is as far in as the
\* first, and it is no litellm_params looked at and no key of another.
LEMMA WithinBlock ==
  ASSUME NEW lines \in Seq(Litellm!KeyLines), Litellm!Document(lines), NEW n \in 1..Len(lines),
         NEW p, Opens(lines, p, n), p # n
  PROVE  /\ n \notin LookedAt(lines)
         /\ Litellm!Parent(lines, n) \in LookedAt(lines) => Litellm!Parent(lines, n) = p
         /\ Litellm!Parent(lines, n) = p <=> At(lines, n) = At(lines, p + 1)
<1>1. p \in LookedAt(lines) /\ lines[p].value = Litellm!NoValue /\ p \in 1..(n - 1) /\ Deeper(lines, p, n)
  BY DEF Opens
<1>2. n \notin LookedAt(lines)
  BY <1>1, NoModelWithin
<1> DEFINE r == Litellm!Parent(lines, n)
<1>3. r \in p..(n - 1) /\ Deeper(lines, p, r)
  BY <1>1, AncestorsThrough
<1>4. r = Litellm!Parent(lines, n)
  OBVIOUS
<1> HIDE DEF r
<1>5. ASSUME r \in LookedAt(lines)
      PROVE  r = p
  <2>1. ~(p < r)
    BY <1>1, <1>3, <1>5, NoModelWithin
  <2>. QED  BY <1>1, <1>3, <2>1
<1>6. /\ Litellm!Parent(lines, p + 1) = p
      /\ \A m \in (p + 1)..n : At(lines, p + 1) <= At(lines, m)
  BY <1>1, FirstChild
<1>7. ASSUME r = p
      PROVE  At(lines, n) = At(lines, p + 1)
  <2>1. CASE n = p + 1
    BY <2>1
  <2>2. CASE n # p + 1
    <3>1. p + 1 \in (p + 1)..(n - 1)
      BY <1>1, <2>2
    <3>2. \A m \in (p + 1)..(n - 1) : Litellm!Parent(lines, m) = p => At(lines, m) = At(lines, n)
      BY <1>4, <1>7, Siblings
    <3>. QED  BY <1>6, <3>1, <3>2
  <2>. QED  BY <2>1, <2>2
<1>8. ASSUME At(lines, n) = At(lines, p + 1)
      PROVE  r = p
  <2>1. At(lines, p) < At(lines, n)
    BY <1>1 DEF Deeper
  <2>2. \A m \in (p + 1)..(n - 1) : At(lines, n) <= At(lines, m)
    BY <1>6, <1>8
  <2>. QED  BY <1>1, <1>4, <2>1, <2>2, ParentOnly
<1>. QED  BY <1>2, <1>4, <1>5, <1>7, <1>8

\* Outside of all blocks nothing a line is in could open one.
LEMMA OutsideBlocks ==
  ASSUME NEW lines \in Seq(Litellm!KeyLines), Litellm!Document(lines), NEW n \in 1..Len(lines),
         \A p : Opens(lines, p, n) => p = n,
         NEW a \in 1..(n - 1), Deeper(lines, a, n)
  PROVE  ~Opener(lines[a])
<1> SUFFICES ASSUME Opener(lines[a]) PROVE FALSE
  OBVIOUS
<1> DEFINE S == {m \in Nat : m \in 1..(n - 1) /\ Deeper(lines, m, n) /\ Opener(lines[m])}
<1>1. a \in S
  OBVIOUS
<1>2. PICK p \in S : \A m \in S : p <= m
  BY <1>1, Least
<1>3. p \in 1..(n - 1) /\ Deeper(lines, p, n) /\ Opener(lines[p]) /\ p \in 1..Len(lines)
  BY <1>2
<1>4. ASSUME NEW b \in 1..(p - 1), Deeper(lines, b, p)
      PROVE  ~Opener(lines[b])
  <2>1. b \in Nat /\ b \in 1..(n - 1) /\ ~(p <= b) /\ b \in 1..p /\ p \in 1..n
    BY <1>3
  <2>2. Deeper(lines, b, n)
    BY <1>3, <1>4, <2>1, DeeperFurther
  <2>. QED  BY <1>2, <2>1, <2>2
<1>5. p \in LookedAt(lines)
  BY <1>3, <1>4, ModelIs DEF Opener
<1>6. lines[p].value = Litellm!NoValue
  BY <1>3 DEF Opener
<1>7. Opens(lines, p, n) /\ p # n
  BY <1>3, <1>5, <1>6 DEF Opens
<1>. QED  BY <1>7

\* So there a litellm_params is looked at, and no line is a key of a block.
LEMMA OutsideIs ==
  ASSUME NEW lines \in Seq(Litellm!KeyLines), Litellm!Document(lines), NEW n \in 1..Len(lines),
         \A p : Opens(lines, p, n) => p = n
  PROVE  /\ n \in LookedAt(lines) <=> lines[n].key = "litellm_params"
         /\ Litellm!Parent(lines, n) \in LookedAt(lines)
              => lines[Litellm!Parent(lines, n)].value # Litellm!NoValue
<1>1. \A a \in 1..(n - 1) : Deeper(lines, a, n) => ~Opener(lines[a])
  BY OutsideBlocks
<1>2. n \in LookedAt(lines) <=> lines[n].key = "litellm_params"
  BY <1>1, ModelIs
<1> DEFINE p == Litellm!Parent(lines, n)
<1>3. ASSUME p \in LookedAt(lines), lines[p].value = Litellm!NoValue
      PROVE  FALSE
  <2>1. p # 0 /\ Opener(lines[p])
    BY <1>3, ModelIs DEF Opener
  <2>2. p \in 1..(n - 1) /\ Deeper(lines, p, n)
    BY <2>1, ParentDeeper
  <2>. QED  BY <1>1, <2>1, <2>2
<1>. QED  BY <1>2, <1>3

-----------------------------------------------------------------------------
(* The walk over the lines *)

EntryNames == Litellm!Values \cup {Litellm!NoValue, Litellm!Unnamed}
Reports    == [line : Nat, model : EntryNames]
ScanStates == [model : EntryNames, params : Int, child : Int, found : SUBSET Reports, scanned : Nat]

\* A line in the open block leaves the walk there, with a finding if it is a
\* direct key that is fatal.
LEMMA StepInside ==
  ASSUME NEW s \in ScanStates, NEW line \in Litellm!KeyLines, NEW n \in Nat,
         s.params # Litellm!None, Litellm!Indent(line) \in Nat, Litellm!Indent(line) > s.params
  PROVE  LET t == Litellm!Step(s, line, n)
             child == IF s.child = Litellm!None THEN Litellm!Indent(line) ELSE s.child
         IN  /\ t \in ScanStates
             /\ t.model = s.model /\ t.params = s.params /\ t.child = child
             /\ t.found = s.found \cup
                  (IF Litellm!Indent(line) = child /\ Litellm!Reported(line)
                   THEN {[line |-> n, model |-> s.model]} ELSE {})
<1>1. Litellm!Step(s, line, n) = Litellm!Inside(s, line, n)
  BY DEF Litellm!Step
<1> DEFINE child == IF s.child = Litellm!None THEN Litellm!Indent(line) ELSE s.child
           new == IF Litellm!Indent(line) = child /\ Litellm!Reported(line)
                  THEN {[line |-> n, model |-> s.model]} ELSE {}
<1>2. Litellm!Inside(s, line, n) = [s EXCEPT !.child = child, !.found = @ \cup new]
  BY DEF Litellm!Inside, Litellm!Violation
<1>3. child \in Int /\ new \in SUBSET Reports
  BY DEF ScanStates, Reports
<1> HIDE DEF child, new
<1>4. LET t == [s EXCEPT !.child = child, !.found = @ \cup new]
      IN  /\ t \in ScanStates /\ t.model = s.model /\ t.params = s.params /\ t.child = child
          /\ t.found = s.found \cup new
  BY <1>3 DEF ScanStates
<1>. QED  BY <1>1, <1>2, <1>4 DEF child, new

\* Any other line is outside: a name, a litellm_params of either form, or
\* nothing that matters.
LEMMA StepOutside ==
  ASSUME NEW s \in ScanStates, NEW line \in Litellm!KeyLines, NEW n \in Nat,
         Litellm!Indent(line) \in Nat,
         s.params = Litellm!None \/ ~(Litellm!Indent(line) > s.params)
  PROVE  LET t == Litellm!Step(s, line, n)
             block == line.key = "litellm_params" /\ line.value = Litellm!NoValue
             flow == /\ line.key = "litellm_params" /\ line.value # Litellm!NoValue
                     /\ Litellm!flowCacheKeys(line.value)
         IN  /\ t \in ScanStates
             /\ t.model = IF line.key = "model_name" THEN line.value
                          ELSE IF block /\ s.model = Litellm!NoValue THEN Litellm!Unnamed ELSE s.model
             /\ t.params = IF block THEN Litellm!Indent(line) ELSE Litellm!None
             /\ block => t.child = Litellm!None
             /\ t.found = s.found \cup IF flow THEN {[line |-> n, model |-> s.model]} ELSE {}
<1> DEFINE r == [s EXCEPT !.params = Litellm!None, !.child = Litellm!None]
<1>1. Litellm!Step(s, line, n) = Litellm!Outside(r, line, n)
  BY DEF Litellm!Step
<1>2. /\ r \in ScanStates /\ r.params = Litellm!None /\ r.child = Litellm!None
      /\ r.model = s.model /\ r.found = s.found /\ r.scanned = s.scanned
  <2>1. Litellm!None \in Int
    BY DEF Litellm!None
  <2>. QED  BY <2>1 DEF ScanStates
<1> HIDE DEF r
<1>3. line.value \in EntryNames /\ [line |-> n, model |-> s.model] \in Reports
  BY DEF Litellm!KeyLines, EntryNames, ScanStates, Reports
<1>4. Litellm!None \in Int
  BY DEF Litellm!None
<1>5. CASE line.key = "model_name"
  <2>1. Litellm!Outside(r, line, n) = [r EXCEPT !.model = line.value]
    BY <1>5 DEF Litellm!Outside
  <2>. QED  BY <1>1, <1>2, <1>3, <1>5, <2>1 DEF ScanStates
<1>6. CASE line.key = "litellm_params" /\ line.value # Litellm!NoValue
  <2> DEFINE new == IF Litellm!flowCacheKeys(line.value) THEN {[line |-> n, model |-> s.model]} ELSE {}
  <2>1. Litellm!Outside(r, line, n) = [r EXCEPT !.scanned = @ + 1, !.found = @ \cup new]
    BY <1>2, <1>6 DEF Litellm!Outside, Litellm!Violation
  <2>2. new \in SUBSET Reports
    BY <1>3
  <2>3. new = IF line.key = "litellm_params" /\ line.value # Litellm!NoValue
                   /\ Litellm!flowCacheKeys(line.value)
              THEN {[line |-> n, model |-> s.model]} ELSE {}
    BY <1>6
  <2> HIDE DEF new
  <2>4. LET t == [r EXCEPT !.scanned = @ + 1, !.found = @ \cup new]
        IN  /\ t \in ScanStates /\ t.model = s.model /\ t.params = Litellm!None
            /\ t.found = s.found \cup new
    <3>1. r.scanned + 1 \in Nat /\ r.found \cup new \in SUBSET Reports
      BY <1>2, <2>2 DEF ScanStates
    <3>. QED  BY <1>2, <3>1 DEF ScanStates
  <2>. QED  BY <1>1, <1>6, <2>1, <2>3, <2>4
<1>7. CASE line.key = "litellm_params" /\ line.value = Litellm!NoValue
  <2> DEFINE name == IF s.model = Litellm!NoValue THEN Litellm!Unnamed ELSE s.model
  <2>1. Litellm!Outside(r, line, n)
          = [r EXCEPT !.scanned = @ + 1, !.params = Litellm!Indent(line), !.child = Litellm!None,
                      !.model = name]
    BY <1>2, <1>7 DEF Litellm!Outside
  <2>2. name \in EntryNames
    BY DEF ScanStates, EntryNames
  <2> HIDE DEF name
  <2>3. LET t == [r EXCEPT !.scanned = @ + 1, !.params = Litellm!Indent(line), !.child = Litellm!None,
                           !.model = name]
        IN  /\ t \in ScanStates /\ t.model = name /\ t.params = Litellm!Indent(line)
            /\ t.child = Litellm!None /\ t.found = s.found
    <3>1. r.scanned + 1 \in Nat /\ Litellm!Indent(line) \in Int
      BY <1>2 DEF ScanStates
    <3>. QED  BY <1>2, <1>4, <2>2, <3>1 DEF ScanStates
  <2>. QED  BY <1>1, <1>4, <1>7, <2>1, <2>3 DEF name
<1>8. CASE line.key \notin {"model_name", "litellm_params"}
  <2>1. Litellm!Outside(r, line, n) = r
    BY <1>8 DEF Litellm!Outside
  <2>. QED  BY <1>1, <1>2, <1>8, <2>1
<1>. QED  BY <1>5, <1>6, <1>7, <1>8

LEMMA StepTypes ==
  ASSUME NEW lines \in Seq(Litellm!KeyLines), NEW s \in ScanStates, NEW n \in 1..Len(lines)
  PROVE  Litellm!Step(s, lines[n], n) \in ScanStates
<1>1. lines[n] \in Litellm!KeyLines /\ n \in Nat /\ Litellm!Indent(lines[n]) \in Nat
  BY AtNat DEF At
<1>. QED  BY <1>1, StepInside, StepOutside

\* Scanning is the recursion it says.
LEMMA ScanningIs ==
  ASSUME NEW lines \in Seq(Litellm!KeyLines)
  PROVE  /\ Litellm!Scanning(lines) \in [0..Len(lines) -> ScanStates]
         /\ Litellm!Scanning(lines)[0] = Litellm!Start
         /\ \A n \in 1..Len(lines) :
              Litellm!Scanning(lines)[n] = Litellm!Step(Litellm!Scanning(lines)[n - 1], lines[n], n)
<1> DEFINE L == Len(lines)
           q == [n \in 1..L |-> n]
           G == [s \in ScanStates |-> [n \in 1..L |-> Litellm!Step(s, lines[n], n)]]
           Recursive(f) == f = [n \in 0..L |->
              IF n = 0 THEN Litellm!Start ELSE Litellm!Step(f[n - 1], lines[n], n)]
<1>1. q \in Seq(1..L) /\ Len(q) = L /\ L \in Nat
  OBVIOUS
<1>2. G \in [ScanStates -> [1..L -> ScanStates]]
  BY StepTypes
<1>3. Litellm!Start \in ScanStates
  BY DEF Litellm!Start, ScanStates, EntryNames, Litellm!NoValue, Litellm!None
<1>4. PICK f \in [0..L -> ScanStates] : Folds(f, q, Litellm!Start, G)
  <2> HIDE DEF L, q, G
  <2>1. \E f \in [0..Len(q) -> ScanStates] : Folds(f, q, Litellm!Start, G)
    BY <1>1, <1>2, <1>3, FoldExists
  <2>. QED  BY <1>1, <2>1
<1>5. \A n \in 1..L : f[n] = Litellm!Step(f[n - 1], lines[n], n)
  <2>1. ASSUME NEW n \in 1..L
        PROVE  f[n] = Litellm!Step(f[n - 1], lines[n], n)
    <3>1. f[n] = G[f[n - 1]][q[n]] /\ q[n] = n
      BY <1>1, <1>4 DEF Folds
    <3>2. f[n - 1] \in ScanStates
      BY <1>4
    <3>. QED  BY <3>1, <3>2
  <2>. QED  BY <2>1
<1>6. Recursive(f)
  <2>1. f[0] = Litellm!Start
    BY <1>4 DEF Folds
  <2>. QED  BY <1>4, <1>5, <2>1
<1> DEFINE s == Litellm!Scanning(lines)
<1>7. s = CHOOSE g : Recursive(g)
  BY DEF Litellm!Scanning
<1>8. Recursive(s)
  <2> HIDE DEF Recursive, s
  <2>. QED  BY <1>6, <1>7
<1> HIDE DEF s
<1>9. s[0] = Litellm!Start /\ \A n \in 1..L : s[n] = Litellm!Step(s[n - 1], lines[n], n)
  <2>1. 0 \in 0..L /\ \A n \in 1..L : n \in 0..L /\ n # 0
    OBVIOUS
  <2>. QED  BY <1>8, <2>1
<1>10. \A n \in 0..L : s[n] \in ScanStates
  <2> DEFINE T == {n \in Nat : n <= L => s[n] \in ScanStates}
  <2>1. 0 \in T
    BY <1>3, <1>9
  <2>2. ASSUME NEW n \in Nat, n \in T
        PROVE  n + 1 \in T
    <3> SUFFICES ASSUME n + 1 <= L PROVE s[n + 1] \in ScanStates
      OBVIOUS
    <3>1. n + 1 \in 1..L /\ (n + 1) - 1 = n /\ s[n] \in ScanStates
      BY <2>2
    <3>2. s[n + 1] = Litellm!Step(s[n], lines[n + 1], n + 1)
      BY <1>9, <3>1
    <3>. QED  BY <3>1, <3>2, StepTypes
  <2>3. \A n \in Nat : n \in T => n + 1 \in T
    BY <2>2
  <2> HIDE DEF T
  <2>4. Nat \subseteq T
    BY <2>1, <2>3, Induction, Zenon
  <2>. QED  BY <2>4 DEF T
<1>11. s \in [0..L -> ScanStates]
  <2>1. s = [n \in 0..L |-> s[n]]
    BY <1>8
  <2> HIDE DEF Recursive
  <2>. QED  BY <1>10, <2>1
<1>. QED  BY <1>9, <1>11 DEF s

-----------------------------------------------------------------------------
(* What the walk knows after k lines *)

\* The last name up to there, if it is outside of all blocks and says something.
LastName(lines, k, e) ==
  /\ e \in 1..k /\ lines[e].key = "model_name" /\ lines[e].value # Litellm!NoValue
  /\ \A m \in 1..k : lines[m].key = "model_name" => m <= e
  /\ \A a \in 1..(e - 1) : Deeper(lines, a, e) => ~Opener(lines[a])

\* The name an entry gives to its parameters is the last before them.
LEMMA NameIsLast ==
  ASSUME NEW lines \in Seq(Litellm!KeyLines), NEW p \in LookedAt(lines),
         NEW x \in Litellm!NameBefore(lines, p)
  PROVE  \E e : LastName(lines, p - 1, e) /\ x = lines[e].value.scalar
<1>1. p \in 1..Len(lines) /\ lines[p].key = "litellm_params"
  BY ModelIs
<1>2. \A a \in 1..(p - 1) : Deeper(lines, a, p) => ~Opener(lines[a])
  BY ModelIs
<1>3. PICK e \in 1..(p - 1) :
        /\ lines[e].key = "model_name" /\ lines[e].value # Litellm!NoValue /\ x = lines[e].value.scalar
        /\ e \in Litellm!Entry(lines, p)
        /\ \A m \in 1..(p - 1) : lines[m].key = "model_name" => m <= e
  BY <1>1 DEF Litellm!NameBefore
<1>4. e \in 1..Len(lines) /\ Litellm!Parent(lines, e) = Litellm!Parent(lines, p)
  BY <1>1, <1>3 DEF Litellm!Entry
<1>5. ASSUME NEW a \in 1..(e - 1), Deeper(lines, a, e)
      PROVE  ~Opener(lines[a])
  <2> DEFINE q == Litellm!Parent(lines, e)
  <2>1. q \in a..(e - 1) /\ Deeper(lines, a, q)
    BY <1>4, <1>5, AncestorsThrough
  <2>2. q = Litellm!Parent(lines, p) /\ q # 0
    BY <1>4, <2>1
  <2> HIDE DEF q
  <2>3. q \in 1..(p - 1) /\ Deeper(lines, q, p)
    BY <1>1, <2>2, ParentDeeper
  <2>4. a \in 1..q /\ q \in 1..p /\ a \in 1..(p - 1)
    <3>1. p \in Nat /\ q \in Nat /\ a \in Nat /\ a <= q /\ q <= p - 1 /\ 1 <= a
      BY <1>1, <1>5, <2>1, <2>3
    <3>. QED  BY <3>1
  <2>5. Deeper(lines, a, p)
    BY <1>1, <2>1, <2>3, <2>4, DeeperFurther
  <2>. QED  BY <1>2, <2>4, <2>5
<1>. QED  BY <1>3, <1>5 DEF LastName

\* A key of the parameters is reported under the same name as the parameters.
LEMMA NameOfKey ==
  ASSUME NEW lines, NEW n, lines[n].key # "litellm_params",
         NEW p, p = Litellm!Parent(lines, n), lines[p].key = "litellm_params"
  PROVE  Litellm!NameBefore(lines, n) = Litellm!NameBefore(lines, p)
  BY DEF Litellm!NameBefore

\* What the scan finds.
Hits(lines) ==
  {n \in DOMAIN lines :
     LET p == Litellm!Parent(lines, n)
     IN  \/ /\ n \in LookedAt(lines) /\ lines[n].value # Litellm!NoValue
            /\ Litellm!flowCacheKeys(lines[n].value)
         \/ /\ Litellm!Reported(lines[n])
            /\ p \in LookedAt(lines) /\ lines[p].value = Litellm!NoValue}

InBlock(lines, k, s) ==
  /\ \A p : Opens(lines, p, k) =>
       /\ s.params = At(lines, p)
       /\ s.child = IF p = k THEN Litellm!None ELSE At(lines, p + 1)
       /\ Litellm!NameBefore(lines, p) \subseteq {s.model.scalar}
  /\ (\A p : ~Opens(lines, p, k)) => s.params = Litellm!None
FoundSoFar(lines, k, s) ==
  /\ {v.line : v \in s.found} = Hits(lines) \cap 1..k
  /\ \A v \in s.found : Litellm!NameBefore(lines, v.line) \subseteq {v.model.scalar}
NameKept(lines, k, s) == \A e : LastName(lines, k, e) => s.model = lines[e].value

Walked(lines, k, s) ==
  s \in ScanStates /\ InBlock(lines, k, s) /\ FoundSoFar(lines, k, s) /\ NameKept(lines, k, s)

\* One more line is a hit when it is found.
LEMMA FoundNext ==
  ASSUME NEW lines, NEW n \in Nat, n # 0, NEW s, NEW t, NEW hit, NEW model,
         FoundSoFar(lines, n - 1, s), hit \in BOOLEAN,
         t.found = s.found \cup IF hit THEN {[line |-> n, model |-> model]} ELSE {},
         hit <=> n \in Hits(lines),
         hit => Litellm!NameBefore(lines, n) \subseteq {model.scalar}
  PROVE  FoundSoFar(lines, n, t)
<1> DEFINE v == [line |-> n, model |-> model]
           E == Hits(lines)
<1>0. v.line = n /\ v.model = model
  OBVIOUS
<1>1. t.found = s.found \cup IF hit THEN {v} ELSE {}
  OBVIOUS
<1>2. E \cap 1..n = (E \cap 1..(n - 1)) \cup IF n \in E THEN {n} ELSE {}
  <2>1. 1..n = (1..(n - 1)) \cup {n}
    OBVIOUS
  <2> HIDE DEF E
  <2>. QED  BY <2>1
<1> HIDE DEF v, E
<1>3. {w.line : w \in t.found} = {w.line : w \in s.found} \cup IF hit THEN {n} ELSE {}
  BY <1>0, <1>1
<1>4. {w.line : w \in s.found} = E \cap 1..(n - 1) /\ (hit <=> n \in E)
  BY DEF FoundSoFar, E
<1>5. {w.line : w \in t.found} = E \cap 1..n
  BY <1>2, <1>3, <1>4
<1>6. \A w \in t.found : Litellm!NameBefore(lines, w.line) \subseteq {w.model.scalar}
  BY <1>0, <1>1 DEF FoundSoFar
<1>. QED  BY <1>5, <1>6 DEF FoundSoFar, E

LEMMA HitIs ==
  ASSUME NEW lines \in Seq(Litellm!KeyLines), NEW n \in 1..Len(lines)
  PROVE  LET p == Litellm!Parent(lines, n)
         IN  n \in Hits(lines) <=>
               \/ /\ n \in LookedAt(lines) /\ lines[n].value # Litellm!NoValue
                  /\ Litellm!flowCacheKeys(lines[n].value)
               \/ /\ Litellm!Reported(lines[n])
                  /\ p \in LookedAt(lines) /\ lines[p].value = Litellm!NoValue
  BY DEF Hits

LEMMA LineIs ==
  ASSUME NEW lines \in Seq(Litellm!KeyLines), NEW n \in 1..Len(lines)
  PROVE  /\ lines[n] \in Litellm!KeyLines /\ n \in Nat
         /\ Litellm!Indent(lines[n]) = At(lines, n) /\ Litellm!Indent(lines[n]) \in Nat
<1>1. lines[n] \in Litellm!KeyLines /\ n \in Nat
  OBVIOUS
<1>. QED  BY <1>1, AtNat DEF At

LEMMA NoneIs == Litellm!None \notin Nat /\ Litellm!None \in Int
  BY DEF Litellm!None

\* A line within the block.
LEMMA WalkInside ==
  ASSUME NEW lines \in Seq(Litellm!KeyLines), Litellm!Document(lines), NEW n \in 1..Len(lines),
         NEW s, Walked(lines, n - 1, s), NEW p, Opens(lines, p, n - 1), Opens(lines, p, n)
  PROVE  Walked(lines, n, Litellm!Step(s, lines[n], n))
<1> DEFINE t == Litellm!Step(s, lines[n], n)
           hit == At(lines, n) = At(lines, p + 1) /\ Litellm!Reported(lines[n])
<1>1. /\ s.params = At(lines, p) /\ At(lines, p) < At(lines, n)
      /\ s.child = IF p = n - 1 THEN Litellm!None ELSE At(lines, p + 1)
      /\ Litellm!NameBefore(lines, p) \subseteq {s.model.scalar}
  BY StaysOpen DEF Walked, InBlock
<1>2. p \in 1..(n - 1) /\ p \in 1..Len(lines) /\ p + 1 \in 1..Len(lines) /\ p # n
  BY DEF Opens
<1>3. At(lines, p) \in Nat /\ At(lines, p + 1) \in Nat /\ At(lines, n) \in Nat
  BY <1>2, AtNat
<1>4. (IF s.child = Litellm!None THEN At(lines, n) ELSE s.child) = At(lines, p + 1)
  BY <1>1, <1>2, <1>3, NoneIs
<1>5. /\ t \in ScanStates
      /\ t.model = s.model /\ t.params = s.params /\ t.child = At(lines, p + 1)
      /\ t.found = s.found \cup IF hit THEN {[line |-> n, model |-> s.model]} ELSE {}
  <2>1. s \in ScanStates /\ s.params # Litellm!None /\ Litellm!Indent(lines[n]) > s.params
    BY <1>1, <1>3, LineIs, NoneIs DEF Walked
  <2>2. lines[n] \in Litellm!KeyLines /\ n \in Nat /\ Litellm!Indent(lines[n]) \in Nat
        /\ Litellm!Indent(lines[n]) = At(lines, n)
    BY LineIs
  <2>. QED  BY <1>4, <2>1, <2>2, StepInside
<1> HIDE DEF t
<1>6. InBlock(lines, n, t)
  <2>1. ASSUME NEW q, Opens(lines, q, n)
        PROVE  q = p
    BY <2>1, OneOpen
  <2>. QED  BY <1>1, <1>2, <1>5, <2>1 DEF InBlock
<1>7. /\ n \notin LookedAt(lines)
      /\ Litellm!Parent(lines, n) \in LookedAt(lines) => Litellm!Parent(lines, n) = p
      /\ Litellm!Parent(lines, n) = p <=> At(lines, n) = At(lines, p + 1)
  BY <1>2, WithinBlock
<1>8. p \in LookedAt(lines) /\ lines[p].value = Litellm!NoValue /\ lines[p].key = "litellm_params" /\ Deeper(lines, p, n)
  BY ModelIs DEF Opens
<1>9. hit <=> n \in Hits(lines)
  BY <1>7, <1>8, HitIs
<1>10. hit => Litellm!NameBefore(lines, n) \subseteq {s.model.scalar}
  <2>1. Litellm!Reported(lines[n]) => lines[n].key # "litellm_params"
    BY DEF Litellm!Reported
  <2>2. hit => Litellm!NameBefore(lines, n) = Litellm!NameBefore(lines, p)
    BY <1>7, <1>8, <2>1, NameOfKey
  <2>. QED  BY <1>1, <2>2
<1> HIDE DEF hit
<1>11. FoundSoFar(lines, n, t)
  <2>1. hit \in BOOLEAN
    BY DEF hit
  <2>2. n \in Nat /\ n # 0 /\ FoundSoFar(lines, n - 1, s)
    BY DEF Walked
  <2>. QED  BY <1>5, <1>9, <1>10, <2>1, <2>2, FoundNext
<1>12. NameKept(lines, n, t)
  <2>1. ASSUME NEW e, LastName(lines, n, e)
        PROVE  LastName(lines, n - 1, e)
    <3>1. e \in 1..n /\ e # n
      BY <1>2, <1>8, <2>1 DEF LastName, Opener
    <3>. QED  BY <2>1, <3>1 DEF LastName
  <2>. QED  BY <1>5, <2>1 DEF NameKept, Walked
<1>. QED  BY <1>5, <1>6, <1>11, <1>12 DEF Walked, t

\* Any other line.
LEMMA WalkOutside ==
  ASSUME NEW lines \in Seq(Litellm!KeyLines), Litellm!Document(lines), NEW n \in 1..Len(lines),
         NEW s, Walked(lines, n - 1, s), \A p : Opens(lines, p, n) => p = n
  PROVE  Walked(lines, n, Litellm!Step(s, lines[n], n))
<1> DEFINE t == Litellm!Step(s, lines[n], n)
           block == lines[n].key = "litellm_params" /\ lines[n].value = Litellm!NoValue
           hit == /\ lines[n].key = "litellm_params" /\ lines[n].value # Litellm!NoValue
                  /\ Litellm!flowCacheKeys(lines[n].value)
<1>1. s.params = Litellm!None \/ ~(At(lines, n) > s.params)
  <2>1. CASE \A p : ~Opens(lines, p, n - 1)
    BY <2>1 DEF Walked, InBlock
  <2>2. CASE \E p : Opens(lines, p, n - 1)
    <3>1. PICK p : Opens(lines, p, n - 1)
      BY <2>2
    <3>2. p \in 1..(n - 1) /\ p # n /\ s.params = At(lines, p) /\ p \in 1..Len(lines)
      BY <3>1 DEF Opens, Walked, InBlock
    <3>3. ~(At(lines, p) < At(lines, n))
      BY <3>1, <3>2, StaysOpen
    <3>. QED  BY <3>2, <3>3, AtNat
  <2>. QED  BY <2>1, <2>2
<1>2. /\ t \in ScanStates
      /\ t.model = IF lines[n].key = "model_name" THEN lines[n].value
                   ELSE IF block /\ s.model = Litellm!NoValue THEN Litellm!Unnamed ELSE s.model
      /\ t.params = IF block THEN At(lines, n) ELSE Litellm!None
      /\ block => t.child = Litellm!None
      /\ t.found = s.found \cup IF hit THEN {[line |-> n, model |-> s.model]} ELSE {}
  <2>1. lines[n] \in Litellm!KeyLines /\ n \in Nat /\ Litellm!Indent(lines[n]) \in Nat
        /\ Litellm!Indent(lines[n]) = At(lines, n) /\ s \in ScanStates
    BY LineIs DEF Walked
  <2>. QED  BY <1>1, <2>1, StepOutside
<1> HIDE DEF t
<1>3. /\ n \in LookedAt(lines) <=> lines[n].key = "litellm_params"
      /\ Litellm!Parent(lines, n) \in LookedAt(lines)
           => lines[Litellm!Parent(lines, n)].value # Litellm!NoValue
  BY OutsideIs
<1>4. hit <=> n \in Hits(lines)
  BY <1>3, HitIs
\* What the walk holds is the name, and then it is kept.
<1>5. ASSUME n \in LookedAt(lines), NEW x \in Litellm!NameBefore(lines, n)
      PROVE  x = s.model.scalar /\ x = t.model.scalar
  <2>1. PICK e : LastName(lines, n - 1, e) /\ x = lines[e].value.scalar
    BY <1>5, NameIsLast
  <2>2. x = s.model.scalar /\ s.model # Litellm!NoValue
    BY <2>1 DEF Walked, NameKept, LastName
  <2>3. lines[n].key # "model_name"
    BY <1>3, <1>5
  <2>. QED  BY <1>2, <2>2, <2>3
<1>6. InBlock(lines, n, t)
  <2>1. Opens(lines, n, n) <=> block
    <3>1. Deeper(lines, n, n)
      BY DEF Deeper
    <3>. QED  BY <1>3, <3>1 DEF Opens
  <2>2. ASSUME NEW p, Opens(lines, p, n)
        PROVE  /\ t.params = At(lines, p) /\ Litellm!NameBefore(lines, p) \subseteq {t.model.scalar}
               /\ t.child = IF p = n THEN Litellm!None ELSE At(lines, p + 1)
    <3>1. p = n /\ block
      BY <2>1, <2>2
    <3>2. n \in LookedAt(lines)
      BY <1>3, <3>1
    <3>. QED  BY <1>2, <1>5, <3>1, <3>2
  <2>3. (\A p : ~Opens(lines, p, n)) => t.params = Litellm!None
    BY <1>2, <2>1
  <2>. QED  BY <2>2, <2>3 DEF InBlock
<1>7. FoundSoFar(lines, n, t)
  <2>1. hit => Litellm!NameBefore(lines, n) \subseteq {s.model.scalar}
    BY <1>3, <1>5
  <2>2. hit \in BOOLEAN
    OBVIOUS
  <2>3. n \in Nat /\ n # 0 /\ FoundSoFar(lines, n - 1, s)
    BY DEF Walked
  <2> HIDE DEF hit
  <2>. QED  BY <1>2, <1>4, <2>1, <2>2, <2>3, FoundNext
<1>8. NameKept(lines, n, t)
  <2> SUFFICES ASSUME NEW e, LastName(lines, n, e)
               PROVE  t.model = lines[e].value
    BY DEF NameKept
  <2>1. CASE lines[n].key = "model_name"
    <3>1. n <= e /\ e \in 1..n
      BY <2>1 DEF LastName
    <3>2. e = n
      BY <3>1
    <3>. QED  BY <1>2, <2>1, <3>2
  <2>2. CASE lines[n].key # "model_name"
    <3>1. LastName(lines, n - 1, e)
      <4>1. e \in 1..n /\ e # n
        BY <2>2 DEF LastName
      <4>. QED  BY <4>1 DEF LastName
    <3>2. s.model = lines[e].value /\ s.model # Litellm!NoValue
      BY <3>1 DEF Walked, NameKept, LastName
    <3>. QED  BY <1>2, <2>2, <3>2
  <2>. QED  BY <2>1, <2>2
<1>. QED  BY <1>2, <1>6, <1>7, <1>8 DEF Walked, t

\* So the findings are the hits, each under its name.
LEMMA ScanFinds ==
  ASSUME NEW lines \in Seq(Litellm!KeyLines), Litellm!Document(lines)
  PROVE  LET reported == Litellm!Scanned(lines).found
         IN  /\ {v.line : v \in reported} = Hits(lines)
             /\ \A v \in reported : Litellm!NameBefore(lines, v.line) \subseteq {v.model.scalar}
<1> DEFINE s == Litellm!Scanning(lines)
           L == Len(lines)
           T == {n \in Nat : n <= L => Walked(lines, n, s[n])}
<1>1. /\ s[0] = Litellm!Start /\ s[0] \in ScanStates
      /\ \A n \in 1..L : s[n] = Litellm!Step(s[n - 1], lines[n], n)
  BY ScanningIs
<1> HIDE DEF s
<1>2. 0 \in T
  <2>1. /\ s[0].found = {} /\ s[0].params = Litellm!None
    BY <1>1 DEF Litellm!Start
  <2>2. InBlock(lines, 0, s[0])
    BY <2>1 DEF InBlock, Opens
  <2>3. FoundSoFar(lines, 0, s[0])
    BY <2>1 DEF FoundSoFar
  <2>4. NameKept(lines, 0, s[0])
    BY DEF NameKept, LastName
  <2>. QED  BY <1>1, <2>2, <2>3, <2>4 DEF Walked
<1>3. ASSUME NEW n \in Nat, n \in T
      PROVE  n + 1 \in T
  <2> SUFFICES ASSUME n + 1 <= L
               PROVE  Walked(lines, n + 1, s[n + 1])
    OBVIOUS
  <2>1. n + 1 \in 1..L /\ (n + 1) - 1 = n /\ n <= L
    OBVIOUS
  <2>2. Walked(lines, n, s[n]) /\ s[n + 1] = Litellm!Step(s[n], lines[n + 1], n + 1)
    BY <1>1, <1>3, <2>1
  <2>3. CASE \E p : Opens(lines, p, n) /\ Opens(lines, p, n + 1)
    BY <2>1, <2>2, <2>3, WalkInside
  <2>4. CASE \A p : Opens(lines, p, n + 1) => p = n + 1
    BY <2>1, <2>2, <2>4, WalkOutside
  <2>5. ASSUME NEW p, Opens(lines, p, n + 1), p # n + 1
        PROVE  Opens(lines, p, n)
    BY <2>5 DEF Opens, Deeper
  <2>. QED  BY <2>3, <2>4, <2>5
<1>4. \A n \in Nat : n \in T => n + 1 \in T
  BY <1>3
<1>5. L \in Nat
  OBVIOUS
<1>6. L \in T
  <2> HIDE DEF T, L
  <2>1. Nat \subseteq T
    BY <1>2, <1>4, Induction, Zenon
  <2>. QED  BY <1>5, <2>1
<1>7. FoundSoFar(lines, L, s[L])
  BY <1>5, <1>6 DEF Walked
<1>8. Hits(lines) \subseteq 1..L
  BY DEF Hits
<1>. QED  BY <1>7, <1>8 DEF FoundSoFar, Litellm!Scanned, s

\* A litellm_params in no block is a model's, or stands under one with a
\* comment behind it.
LEMMA LookedAtIs ==
  ASSUME NEW lines \in Seq(Litellm!KeyLines), NEW n \in 1..Len(lines),
         n \notin Litellm!Unopened(lines)
  PROVE  n \in LookedAt(lines) <=> n \in Litellm!Models(lines)
<1>1. \A a \in Litellm!Ancestors(lines, n) :
        lines[a].key = "litellm_params" => lines[a].value = Litellm!NoValue
  BY DEF Litellm!Unopened
<1>. QED  BY <1>1 DEF LookedAt, Litellm!Models, Opener

\* What a line is in above its parent it is in itself, so the same goes for the
\* parent of a line.
LEMMA ParentLookedAt ==
  ASSUME NEW lines \in Seq(Litellm!KeyLines), NEW n \in 1..Len(lines),
         n \notin Litellm!Unopened(lines), NEW p, p = Litellm!Parent(lines, n), p # 0
  PROVE  /\ p \in 1..Len(lines)
         /\ p \in LookedAt(lines) <=> p \in Litellm!Models(lines)
         /\ lines[p].key = "litellm_params" => lines[p].value = Litellm!NoValue
<1>1. p \in 1..(n - 1) /\ Deeper(lines, p, n) /\ p \in 1..Len(lines) /\ n \in Nat
  BY ParentDeeper
<1>2. p \in Litellm!Ancestors(lines, n)
  BY <1>1, AncestorsAre
<1>3. lines[p].key = "litellm_params" => lines[p].value = Litellm!NoValue
  BY <1>2 DEF Litellm!Unopened
<1>4. ASSUME NEW a \in Litellm!Ancestors(lines, p)
      PROVE  a \in Litellm!Ancestors(lines, n)
  <2>1. a \in 1..(p - 1) /\ Deeper(lines, a, p) /\ p \in Nat
    BY <1>1, <1>4, AncestorsAre
  <2>2. a \in 1..p /\ p \in 1..n /\ a \in 1..(n - 1)
    BY <1>1, <2>1
  <2>3. Deeper(lines, a, n)
    BY <1>1, <2>1, <2>2, DeeperFurther
  <2>. QED  BY <1>1, <2>2, <2>3, AncestorsAre
<1>5. p \notin Litellm!Unopened(lines)
  BY <1>4 DEF Litellm!Unopened
<1>. QED  BY <1>1, <1>3, <1>5, LookedAtIs

\* What is not hit and expected, or hit and not expected, is one of the lines
\* that the scan and YAML read otherwise.
LEMMA HitsAreExpected ==
  ASSUME NEW lines \in Seq(Litellm!KeyLines), NEW n \in 1..Len(lines),
         n \notin Litellm!Unopened(lines)
  PROVE  /\ n \in Litellm!Expected(lines) => n \in Hits(lines) \/ Litellm!PassedOver(lines[n])
         /\ n \in Hits(lines) => n \in Litellm!Expected(lines) \/ Litellm!Lookalike(lines[n])
<1> DEFINE p == Litellm!Parent(lines, n)
           v == lines[n].value
<1>1. n \in LookedAt(lines) <=> n \in Litellm!Models(lines)
  BY LookedAtIs
<1>2. p \in Litellm!Models(lines) <=> p \in LookedAt(lines) /\ lines[p].value = Litellm!NoValue
  <2>1. p \in Litellm!Models(lines) \/ p \in LookedAt(lines) => p # 0 /\ lines[p].key = "litellm_params"
    BY DEF Litellm!Models, LookedAt
  <2> HIDE DEF p
  <2>. QED  BY <2>1, ParentLookedAt DEF p
<1>3. n \in Hits(lines) <=>
        \/ n \in LookedAt(lines) /\ v # Litellm!NoValue /\ Litellm!flowCacheKeys(v)
        \/ Litellm!Reported(lines[n]) /\ p \in Litellm!Models(lines)
  BY <1>2, HitIs
<1>4. n \in Litellm!Expected(lines) <=>
        \/ n \in Litellm!Models(lines) /\ v.flow \cap {"cache", "cache_params", "quoted cache"} # {}
        \/ lines[n].key \in Litellm!cacheKeys /\ p \in Litellm!Models(lines)
  <2> DEFINE A == {m \in Litellm!Models(lines) :
                     lines[m].value.flow \cap {"cache", "cache_params", "quoted cache"} # {}}
             B == {m \in DOMAIN lines : lines[m].key \in Litellm!cacheKeys
                                           /\ Litellm!Parent(lines, m) \in Litellm!Models(lines)}
  <2>1. Litellm!Expected(lines) = A \cup B
    BY DEF Litellm!Expected
  <2>2. n \in A <=> n \in Litellm!Models(lines) /\ v.flow \cap {"cache", "cache_params", "quoted cache"} # {}
    BY Zenon
  <2>3. n \in B <=> lines[n].key \in Litellm!cacheKeys /\ p \in Litellm!Models(lines)
    OBVIOUS
  <2> HIDE DEF A, B
  <2>. QED  BY <2>1, <2>2, <2>3
<1>5. n \in Litellm!Models(lines) => lines[n].key = "litellm_params"
  BY DEF Litellm!Models
<1>6. /\ Litellm!Reported(lines[n]) => lines[n].key \in Litellm!cacheKeys
      /\ lines[n].key \in Litellm!cacheKeys => Litellm!Reported(lines[n]) \/ Litellm!PassedOver(lines[n])
  BY DEF Litellm!Reported, Litellm!cacheKeys, Litellm!PassedOver
<1>7. ASSUME v.flow \cap {"cache", "cache_params", "quoted cache"} # {}, lines[n].key = "litellm_params"
      PROVE  v # Litellm!NoValue /\ (Litellm!flowCacheKeys(v) \/ Litellm!PassedOver(lines[n]))
  <2>1. v # Litellm!NoValue
    <3>1. Litellm!NoValue.flow = {}
      BY DEF Litellm!NoValue
    <3> HIDE DEF v
    <3>2. v = Litellm!NoValue => v.flow \cap {"cache", "cache_params", "quoted cache"} = {}
      BY <3>1
    <3>. QED  BY <1>7, <3>2
  <2>2. PICK k \in v.flow : k \in {"cache", "cache_params", "quoted cache"}
    BY <1>7
  <2>. QED  BY <1>7, <2>1, <2>2 DEF Litellm!flowCacheKeys, Litellm!PassedOver
<1>8. ASSUME Litellm!flowCacheKeys(v)
      PROVE  v.flow \cap {"cache", "cache_params", "quoted cache"} # {} \/ Litellm!Lookalike(lines[n])
  BY <1>8 DEF Litellm!flowCacheKeys, Litellm!Lookalike
<1> HIDE DEF p, v
<1>. QED  BY <1>1, <1>3, <1>4, <1>5, <1>6, <1>7, <1>8

\* A finished lint of the values has found what the scan found, unless the
\* file could not be read.
Linted ==
  /\ cmd.words = <<"validate", "litellm-config">> /\ phase = "start" /\ Parsed.outcome = "ok" /\ ~Refused
       => input \in ValuesFiles
  /\ cmd.words = <<"validate", "litellm-config">> /\ Finished =>
       /\ input \in ValuesFiles
       /\ found = Litellm!Scanned(input).found \/ \E v \in found : v.line = 0

LEMMA LintWords ==
  LET w == <<"validate", "litellm-config">>
  IN  /\ w # <<"boot">> /\ w # <<"install">> /\ w # <<"chart", "templates">>
      /\ w # <<"codegraph", "index">> /\ w # <<"mcp", "prewarm">> /\ w # <<"mcp", "verify">>
      /\ w # <<"deps", "status">> /\ w # <<"deps", "install">>
  OBVIOUS

LEMMA LintedStep == Linted /\ Passed /\ [Next]_vars => Linted'
<1> SUFFICES ASSUME Linted, Passed, [Next]_vars
             PROVE  Linted'
  OBVIOUS
<1>1. CASE Usage \/ Help
  BY <1>1 DEF Usage, Help, Exits, Linted, Finished
<1>2. CASE LitellmConfig
  <2>1. /\ cmd.words = <<"validate", "litellm-config">> /\ input \in ValuesFiles /\ input' = input
        /\ phase' = "exited"
    BY <1>2 DEF LitellmConfig, Verdict, Exits, Runs, Is, Linted
  <2>2. found' = Litellm!Scanned(input).found \/ \E v \in found' : v.line = 0
    <3>1. [line |-> 0, model |-> Litellm!Unnamed].line = 0
      OBVIOUS
    <3>. QED  BY <1>2, <3>1 DEF LitellmConfig
  <2>. QED  BY <2>1, <2>2 DEF Linted
<1>3. CASE ChartTemplates \/ ValidateManifest \/ Delegate \/ CodegraphIndex \/ DepsStatus
              \/ InstallDeps
  <2>1. cmd' = cmd /\ cmd.words # <<"validate", "litellm-config">>
    BY <1>3, LintWords DEF ChartTemplates, ValidateManifest, Delegate, CodegraphIndex, DepsStatus,
                           InstallDeps, Validates, Runs, Is
  <2>. QED  BY <2>1 DEF Linted
<1>4. CASE Install
  <2>1. cmd' = cmd /\ cmd.words = <<"install">>
    BY <1>4 DEF Passed, Install, OpenDest, Copy, Close, Chmod, InstallFails, Restart, installing,
                Runs, Is
  <2>. QED  BY <2>1, LintWords DEF Linted
<1>5. CASE UNCHANGED vars
  BY <1>5 DEF vars, Linted, Finished, Parsed, Refused
<1>. QED  BY <1>1, <1>2, <1>3, <1>4, <1>5 DEF Next

\* The lint of the values finds the cache keys of a model's litellm_params and
\* no other, under the name the entry gave before, in documents of any length
\* and but for the lines a line-oriented scan reads otherwise (values.go:26-146).
THEOREM CacheKeysAreFound == Spec => []CacheKeysFound
<1>1. Init => Linted
  <2> SUFFICES ASSUME Init PROVE Linted
    OBVIOUS
  <2>1. phase = "start"
    BY DEF Init
  <2>2. ASSUME cmd.words = <<"validate", "litellm-config">>, Parsed.outcome = "ok", ~Refused
        PROVE  input \in ValuesFiles
    <3>1. /\ Runs(<<"validate", "litellm-config">>) /\ ~Runs(<<"chart", "templates">>)
          /\ ~Validates
      BY <2>1, <2>2, LintWords DEF Validates, Runs, Is
    <3>. QED  BY <3>1 DEF Init
  <2>. QED  BY <2>1, <2>2 DEF Linted, Finished
<1>2. Linted => CacheKeysFound
  <2> SUFFICES ASSUME Linted, cmd.words = <<"validate", "litellm-config">>, Finished,
                      Litellm!Document(input), \A v \in found : v.line # 0
               PROVE  CacheKeysFound
    BY DEF CacheKeysFound
  <2>1. input \in Seq(Litellm!KeyLines)
    BY GitopsctlAssumption DEF Linted
  <2>2. found = Litellm!Scanned(input).found
    BY DEF Linted
  <2>3. /\ {v.line : v \in found} = Hits(input)
        /\ \A v \in found : Litellm!NameBefore(input, v.line) \subseteq {v.model.scalar}
    BY <2>1, <2>2, ScanFinds
  <2>4. Hits(input) \subseteq 1..Len(input) /\ Litellm!Expected(input) \subseteq 1..Len(input)
    <3>1. DOMAIN input = 1..Len(input)
      BY <2>1
    <3>2. Litellm!Models(input) \subseteq DOMAIN input
      BY DEF Litellm!Models
    <3>3. Litellm!Expected(input) \subseteq DOMAIN input
      BY <3>2, Zenon DEF Litellm!Expected
    <3>4. Hits(input) \subseteq DOMAIN input
      BY Zenon DEF Hits
    <3>. QED  BY <3>1, <3>3, <3>4
  <2>5. \A n \in 1..Len(input) : n \notin Litellm!Unopened(input) =>
          /\ n \in Litellm!Expected(input) => n \in Hits(input) \/ Litellm!PassedOver(input[n])
          /\ n \in Hits(input) => n \in Litellm!Expected(input) \/ Litellm!Lookalike(input[n])
    BY <2>1, HitsAreExpected
  <2>. QED  BY <2>3, <2>4, <2>5 DEF CacheKeysFound
<1>. QED  BY <1>1, <1>2, LintedStep, PassedInit, PassedStep, PTL DEF Spec

-----------------------------------------------------------------------------
(* Recursion over the positions of a text *)

\* What holds at the first of some positions, and at the next of each, holds
\* at all of them.
LEMMA Along ==
  ASSUME NEW a \in Nat, NEW b \in Nat, NEW S, a <= b => a \in S,
         \A k \in a..b : k \in S /\ k + 1 <= b => k + 1 \in S
  PROVE  a..b \subseteq S
<1> SUFFICES ASSUME {k \in Nat : k \in a..b /\ k \notin S} # {}
             PROVE  FALSE
  OBVIOUS
<1>1. PICK k \in {j \in Nat : j \in a..b /\ j \notin S} :
        \A i \in {j \in Nat : j \in a..b /\ j \notin S} : k <= i
  BY Least
<1>2. k # a /\ k - 1 \in a..b /\ (k - 1) + 1 = k /\ k <= b /\ k - 1 \in Nat
  BY <1>1
<1>3. k - 1 \in S
  BY <1>1, <1>2
<1>. QED  BY <1>1, <1>2, <1>3

\* f is at x before position a, and goes on as G says.
Walks(f, a, b, x, G) == f[a] = x /\ \A k \in (a + 1)..b : f[k] = G[f[k - 1]][k]

LEMMA WalkExists ==
  ASSUME NEW a \in Nat, NEW b \in Nat, a <= b, NEW D, D = a..b,
         NEW X, NEW x \in X, NEW G \in [X -> [D -> X]]
  PROVE  \E f \in [D -> X] : Walks(f, a, b, x, G)
<1> DEFINE q == [i \in 1..(b - a) |-> a + i]
<1>1. q \in Seq(a..b) /\ Len(q) = b - a /\ b - a \in Nat /\ \A i \in 1..(b - a) : q[i] = a + i
  OBVIOUS
<1> HIDE DEF q
<1>2. PICK g \in [0..(b - a) -> X] : Folds(g, q, x, G)
  <2>1. \E g \in [0..Len(q) -> X] : Folds(g, q, x, G)
    BY <1>1, FoldExists
  <2>. QED  BY <1>1, <2>1
<1> DEFINE f == [k \in a..b |-> g[k - a]]
<1>3. f \in [a..b -> X] /\ f[a] = x
  BY <1>2 DEF Folds
<1>4. ASSUME NEW k \in (a + 1)..b
      PROVE  f[k] = G[f[k - 1]][k]
  <2>1. k - a \in 1..(b - a) /\ a + (k - a) = k /\ (k - a) - 1 = (k - 1) - a /\ k \in a..b
          /\ k - 1 \in a..b
    OBVIOUS
  <2>2. g[k - a] = G[g[(k - a) - 1]][q[k - a]] /\ q[k - a] = k
    BY <1>1, <1>2, <2>1 DEF Folds
  <2>. QED  BY <2>1, <2>2
<1> HIDE DEF f
<1>. QED  BY <1>3, <1>4 DEF Walks

-----------------------------------------------------------------------------
(* The lexer and the scan, piece by piece *)

Modes  == {"text", "action", "comment", "dq", "bq", "escape"}
Quotes == {"none", "dq", "bq", "dq hides", "bq hides"}

\* Where the lexer is before piece k.
ModeIs(text, k, m) ==
  m[k] = Templates!Lex(m[k - 1], text[k - 1], k <= Len(text) /\ text[k] = "leftComment")

LEMMA Modality ==
  ASSUME NEW text \in Seq(Templates!Pieces)
  PROVE  LET m == Templates!Mode(text)
         IN  /\ m \in [1..(Len(text) + 1) -> Modes] /\ m[1] = "text"
             /\ \A k \in 2..(Len(text) + 1) : ModeIs(text, k, m)
<1> DEFINE L == Len(text)
           step(k, was) == Templates!Lex(was, text[k - 1], k <= L /\ text[k] = "leftComment")
           Recursive(g) == g = [k \in 1..(L + 1) |-> IF k = 1 THEN "text" ELSE step(k, g[k - 1])]
           G == [was \in Modes |-> [k \in 1..(L + 1) |-> step(k, was)]]
<1>1. ASSUME NEW k, NEW was \in Modes
      PROVE  step(k, was) \in Modes
  BY DEF Templates!Lex, Modes
<1>2. L \in Nat /\ 1 <= L + 1 /\ L + 1 \in Nat
  OBVIOUS
<1> HIDE DEF L, step
<1>3. G \in [Modes -> [1..(L + 1) -> Modes]]
  BY <1>1
<1>4. PICK f \in [1..(L + 1) -> Modes] :
        f[1] = "text" /\ \A k \in (1 + 1)..(L + 1) : f[k] = G[f[k - 1]][k]
  <2> DEFINE b == L + 1
  <2> DEFINE x == "text"
  <2>1. x \in Modes /\ 1 \in Nat /\ b \in Nat /\ 1 <= b /\ G \in [Modes -> [1..b -> Modes]]
    BY <1>2, <1>3 DEF Modes
  <2> DEFINE D == 1..b
  <2>3. G \in [Modes -> [D -> Modes]] /\ D = 1..b
    BY <2>1
  <2> HIDE DEF G, b, D, x
  <2>2. \E f \in [D -> Modes] : Walks(f, 1, b, x, G)
    BY <2>1, <2>3, WalkExists
  <2>. QED  BY <2>2 DEF b, D, x, Walks
<1>5. ASSUME NEW k \in 2..(L + 1)
      PROVE  f[k] = step(k, f[k - 1])
  <2>1. k \in (1 + 1)..(L + 1) /\ k \in 1..(L + 1) /\ f[k - 1] \in Modes
    BY <1>2, <1>4
  <2>. QED  BY <1>4, <2>1
<1>6. Recursive(f)
  BY <1>2, <1>4, <1>5
<1> DEFINE m == Templates!Mode(text)
<1>7. m = CHOOSE g : Recursive(g)
  BY DEF Templates!Mode, L, step
<1>8. Recursive(m)
  <2> HIDE DEF Recursive, m
  <2>. QED  BY <1>6, <1>7
<1> HIDE DEF m
<1>9. m[1] = "text" /\ \A k \in 2..(L + 1) : m[k] = step(k, m[k - 1])
  BY <1>2, <1>8
<1>10. \A k \in 1..(L + 1) : m[k] \in Modes
  <2> DEFINE S == {k \in Nat : m[k] \in Modes}
  <2>1. 1 \in S
    BY <1>9 DEF Modes
  <2>2. ASSUME NEW k \in 1..(L + 1), k \in S, k + 1 <= L + 1
        PROVE  k + 1 \in S
    <3>1. k + 1 \in 2..(L + 1) /\ (k + 1) - 1 = k /\ k + 1 \in Nat
      BY <1>2, <2>2
    <3>. QED  BY <1>1, <1>9, <2>2, <3>1
  <2> HIDE DEF S
  <2>3. 1..(L + 1) \subseteq S
    BY <1>2, <2>1, <2>2, Along
  <2>. QED  BY <2>3 DEF S
<1>11. m = [k \in 1..(L + 1) |-> m[k]]
  BY <1>8
<1> HIDE DEF Recursive
<1>12. m \in [1..(L + 1) -> Modes]
  BY <1>10, <1>11
<1>. QED  BY <1>9, <1>12 DEF m, ModeIs, step, L

LEMMA Quoting ==
  ASSUME NEW text \in Seq(Templates!Pieces), NEW from \in 1..(Len(text) + 1)
  PROVE  LET q == Templates!QuoteBefore(text, from)
         IN  /\ q[from] = "none"
             /\ \A k \in (from + 1)..(Len(text) + 1) : q[k] = Templates!Quote(q[k - 1], text[k - 1])
<1> DEFINE L == Len(text)
           step(k, was) == Templates!Quote(was, text[k - 1])
           Recursive(g) == g = [k \in from..(L + 1) |-> IF k = from THEN "none" ELSE step(k, g[k - 1])]
           G == [was \in Quotes |-> [k \in from..(L + 1) |-> step(k, was)]]
<1>1. ASSUME NEW k, NEW was \in Quotes
      PROVE  step(k, was) \in Quotes
  BY DEF Templates!Quote, Quotes
<1>2. L \in Nat /\ from \in Nat /\ from <= L + 1 /\ L + 1 \in Nat
  OBVIOUS
<1> HIDE DEF L, step
<1>3. G \in [Quotes -> [from..(L + 1) -> Quotes]]
  BY <1>1
<1>4. PICK f \in [from..(L + 1) -> Quotes] :
        f[from] = "none" /\ \A k \in (from + 1)..(L + 1) : f[k] = G[f[k - 1]][k]
  <2> DEFINE b == L + 1
  <2> DEFINE x == "none"
  <2>1. x \in Quotes /\ b \in Nat /\ from <= b /\ G \in [Quotes -> [from..b -> Quotes]]
    BY <1>2, <1>3 DEF Quotes
  <2> DEFINE D == from..b
  <2>3. G \in [Quotes -> [D -> Quotes]] /\ D = from..b
    BY <2>1
  <2> HIDE DEF G, b, D, x
  <2>2. \E f \in [D -> Quotes] : Walks(f, from, b, x, G)
    BY <1>2, <2>1, <2>3, WalkExists
  <2>. QED  BY <2>2 DEF b, D, x, Walks
<1>5. ASSUME NEW k \in (from + 1)..(L + 1)
      PROVE  f[k] = step(k, f[k - 1])
  <2>1. k \in from..(L + 1) /\ f[k - 1] \in Quotes
    BY <1>2, <1>4
  <2>. QED  BY <1>4, <2>1
<1>6. Recursive(f)
  BY <1>2, <1>4, <1>5
<1> DEFINE q == Templates!QuoteBefore(text, from)
<1>7. q = CHOOSE g : Recursive(g)
  BY DEF Templates!QuoteBefore, L, step
<1>8. Recursive(q)
  <2> HIDE DEF Recursive, q
  <2>. QED  BY <1>6, <1>7
<1> HIDE DEF q
<1>9. q[from] = "none" /\ \A k \in (from + 1)..(L + 1) : q[k] = step(k, q[k - 1])
  BY <1>2, <1>8
<1>. QED  BY <1>9 DEF q, step, L

-----------------------------------------------------------------------------
(* An action to the scan and to the lexer *)

LEMMA Smallest ==
  ASSUME NEW S \in SUBSET Nat, S # {}
  PROVE  Templates!Min(S) \in S /\ \A m \in S : Templates!Min(S) <= m
<1>1. \E k \in S : \A m \in S : k <= m
  BY Least
<1>. QED  BY <1>1 DEF Templates!Min

\* What the lexer and findActionEnd hold of one piece within an action.
Alike(mode, quote) ==
  \/ quote = "none" /\ mode \in {"action", "comment"}
  \/ quote \in {"dq", "bq"} /\ mode = quote
  \/ quote = "dq hides" /\ mode = "escape"

\* They stay alike over a piece that does not end the action.
LEMMA AlikeNext ==
  ASSUME NEW mode, NEW quote, Alike(mode, quote), NEW p, NEW c,
         mode = "comment" => p \notin {"dq", "bq", "rightDelim"},
         mode = "bq" => p # "bs",
         ~(quote = "none" /\ p = "rightDelim")
  PROVE  Alike(Templates!Lex(mode, p, c), Templates!Quote(quote, p))
<1>1. CASE quote = "none" /\ mode = "action"
  BY <1>1 DEF Alike, Templates!Lex, Templates!Quote
<1>2. CASE quote = "none" /\ mode = "comment"
  BY <1>2 DEF Alike, Templates!Lex, Templates!Quote
<1>3. CASE quote = "dq" /\ mode = "dq"
  BY <1>3 DEF Alike, Templates!Lex, Templates!Quote
<1>4. CASE quote = "bq" /\ mode = "bq"
  BY <1>4 DEF Alike, Templates!Lex, Templates!Quote
<1>5. CASE quote = "dq hides" /\ mode = "escape"
  BY <1>5 DEF Alike, Templates!Lex, Templates!Quote
<1>. QED  BY <1>1, <1>2, <1>3, <1>4, <1>5 DEF Alike

PlainAt(text, m, k) ==
  /\ text[k] = "nl" => m[k] = "text"
  /\ text[k] = "leftDelim" => m[k] # "action"
  /\ text[k] = "leftDelim" /\ m[k] # "text" =>
       \A i \in Templates!Actions(text, {"end"}) :
         i < k => \E j \in (i + 1)..k : m[j] = "text"
  /\ m[k] = "comment" => text[k] \notin {"dq", "bq", "rightDelim"}
  /\ m[k] = "bq" => text[k] # "bs"

LEMMA PlainIs ==
  ASSUME NEW text \in Seq(Templates!Pieces), Templates!Plain(text), NEW k \in 1..Len(text)
  PROVE  PlainAt(text, Templates!Mode(text), k)
  BY DEF Templates!Plain, PlainAt

LEMMA StartIs ==
  ASSUME NEW text \in Seq(Templates!Pieces), NEW k
  PROVE  k \in Templates!Starts(text) <=>
           k \in 1..Len(text) /\ Templates!Mode(text)[k] = "text" /\ text[k] = "leftDelim"
  BY DEF Templates!Starts

\* The piece e ends the action that starts at k, for the lexer.
EndsAt(text, k, e) ==
  LET m == Templates!Mode(text)
  IN e \in (k + 1)..Len(text) /\ m[e + 1] = "text" /\ \A j \in (k + 1)..e : m[j] # "text"

\* In a plain text the first end findActionEnd sees is that of the lexer, and
\* it sees none where the lexer sees none.
LEMMA ActionIs ==
  ASSUME NEW text \in Seq(Templates!Pieces), Templates!Plain(text),
         NEW k \in Templates!Starts(text)
  PROVE  LET E == Templates!ActionEnds(text, k + 1)
         IN  /\ E = {} => \A j \in (k + 1)..(Len(text) + 1) : Templates!Mode(text)[j] # "text"
             /\ E # {} => EndsAt(text, k, Templates!Min(E))
<1> DEFINE m == Templates!Mode(text)
           L == Len(text)
           q == Templates!QuoteBefore(text, k + 1)
           E == Templates!ActionEnds(text, k + 1)
<1>1. k \in 1..L /\ m[k] = "text" /\ text[k] = "leftDelim" /\ L \in Nat /\ k + 1 \in 1..(L + 1)
  BY StartIs
<1>2. \A j \in 2..(L + 1) : ModeIs(text, j, m)
  BY Modality
<1>3. /\ q[k + 1] = "none"
      /\ \A j \in ((k + 1) + 1)..(L + 1) : q[j] = Templates!Quote(q[j - 1], text[j - 1])
  BY <1>1, Quoting
<1>4. E = {j \in (k + 1)..L : q[j] = "none" /\ text[j] = "rightDelim"}
  BY DEF Templates!ActionEnds
<1>5. \A j \in 1..L : PlainAt(text, m, j)
  BY PlainIs
<1> HIDE DEF m, q, E
<1>6. Alike(m[k + 1], q[k + 1])
  <2>1. ModeIs(text, k + 1, m) /\ (k + 1) - 1 = k
    BY <1>1, <1>2
  <2>2. m[k + 1] \in {"action", "comment"}
    BY <1>1, <2>1 DEF ModeIs, Templates!Lex
  <2>. QED  BY <1>3, <2>2 DEF Alike
<1>7. ASSUME NEW j \in (k + 1)..L, Alike(m[j], q[j]), j \notin E
      PROVE  Alike(m[j + 1], q[j + 1])
  <2>1. /\ j \in 1..L /\ j + 1 \in 2..(L + 1) /\ j + 1 \in ((k + 1) + 1)..(L + 1) /\ (j + 1) - 1 = j
    BY <1>1
  <2>2. /\ m[j + 1] = Templates!Lex(m[j], text[j], j + 1 <= L /\ text[j + 1] = "leftComment")
        /\ q[j + 1] = Templates!Quote(q[j], text[j])
    BY <1>2, <1>3, <2>1 DEF ModeIs
  <2>3. PlainAt(text, m, j) /\ ~(q[j] = "none" /\ text[j] = "rightDelim")
    BY <1>4, <1>5, <1>7, <2>1
  <2>4. Alike(Templates!Lex(m[j], text[j], j + 1 <= L /\ text[j + 1] = "leftComment"),
              Templates!Quote(q[j], text[j]))
    BY <1>7, <2>3, AlikeNext DEF PlainAt
  <2>. QED  BY <2>2, <2>4
<1>8. ASSUME NEW e \in (k + 1)..(L + 1), \A i \in E : e <= i
      PROVE  \A j \in (k + 1)..e : Alike(m[j], q[j])
  <2> DEFINE S == {j \in Nat : Alike(m[j], q[j])}
  <2>1. k + 1 \in S
    BY <1>1, <1>6
  <2>2. ASSUME NEW j \in (k + 1)..e, j \in S, j + 1 <= e
        PROVE  j + 1 \in S
    <3>1. j \in (k + 1)..L /\ j \notin E /\ j + 1 \in Nat
      BY <1>1, <1>8, <2>2
    <3>. QED  BY <1>7, <2>2, <3>1
  <2>3. k + 1 \in Nat /\ e \in Nat
    BY <1>1
  <2> HIDE DEF S
  <2>4. (k + 1)..e \subseteq S
    BY <2>1, <2>2, <2>3, Along
  <2>. QED  BY <2>4 DEF S
<1>9. ASSUME NEW mode, NEW quote, Alike(mode, quote)
      PROVE  mode # "text" /\ (quote = "none" => mode \in {"action", "comment"})
  BY <1>9 DEF Alike
<1>10. ASSUME E = {}
       PROVE  \A j \in (k + 1)..(L + 1) : m[j] # "text"
  <2>1. L + 1 \in (k + 1)..(L + 1)
    BY <1>1
  <2>2. \A j \in (k + 1)..(L + 1) : Alike(m[j], q[j])
    BY <1>8, <1>10, <2>1
  <2>. QED  BY <1>9, <2>2
<1>11. ASSUME E # {}
       PROVE  EndsAt(text, k, Templates!Min(E))
  <2> DEFINE e == Templates!Min(E)
  <2>1. e \in E /\ \A i \in E : e <= i
    <3>1. E \in SUBSET Nat
      BY <1>1, <1>4
    <3>. QED  BY <1>11, <3>1, Smallest
  <2> HIDE DEF e
  <2>2. e \in (k + 1)..L /\ q[e] = "none" /\ text[e] = "rightDelim" /\ e \in 1..L /\ e \in (k + 1)..(L + 1)
          /\ e \in (k + 1)..e
    BY <1>1, <1>4, <2>1
  <2>3. \A j \in (k + 1)..e : Alike(m[j], q[j])
    BY <1>8, <2>1, <2>2
  <2>4. m[e] = "action"
    <3>1. m[e] \in {"action", "comment"}
      BY <1>9, <2>2, <2>3
    <3>2. PlainAt(text, m, e)
      BY <1>5, <2>2
    <3>. QED  BY <2>2, <3>1, <3>2 DEF PlainAt
  <2>5. m[e + 1] = "text"
    <3>1. ModeIs(text, e + 1, m) /\ (e + 1) - 1 = e
      BY <1>1, <1>2, <2>2
    <3>. QED  BY <2>2, <2>4, <3>1 DEF ModeIs, Templates!Lex
  <2>6. \A j \in (k + 1)..e : m[j] # "text"
    BY <1>9, <2>3
  <2>. QED  BY <2>2, <2>5, <2>6 DEF EndsAt, e, m
<1>. QED  BY <1>10, <1>11 DEF m, E

-----------------------------------------------------------------------------
(* The balance of blocks *)

\* The instance has a Cardinality of its own; it is the same.
LEMMA SameCardinality ==
  ASSUME NEW S
  PROVE  Templates!Cardinality(S) = Cardinality(S)
  BY Zenon DEF Templates!Cardinality, Cardinality, Templates!IsFiniteSet, IsFiniteSet

Count(A, i, j) == Cardinality(A \cap i..j)

CountNext(A, i, n) ==
  /\ Count(A, i, n) \in Nat /\ Count(A, i, n - 1) \in Nat
  /\ Count(A, i, n) = Count(A, i, n - 1) + IF n \in A THEN 1 ELSE 0

LEMMA Counting ==
  ASSUME NEW A, NEW i \in Nat, NEW n \in Nat, i <= n, n # 0
  PROVE  CountNext(A, i, n)
<1> DEFINE S == A \cap i..(n - 1)
           T == A \cap i..n
<1>1. IsFiniteSet(i..n)
  BY FS_Interval
<1>2. IsFiniteSet(T) /\ IsFiniteSet(S)
  <2>1. T \subseteq i..n /\ S \subseteq i..n
    OBVIOUS
  <2> HIDE DEF S, T
  <2>. QED  BY <1>1, <2>1, FS_Subset
<1>3. n \notin S
  OBVIOUS
<1>4. T = IF n \in A THEN S \cup {n} ELSE S
  OBVIOUS
<1>7. Count(A, i, n) = Cardinality(T) /\ Count(A, i, n - 1) = Cardinality(S)
  BY Zenon DEF Count
<1> HIDE DEF S, T
<1>5. Cardinality(S) \in Nat /\ Cardinality(T) \in Nat
  BY <1>2, FS_CardinalityType
<1>6. Cardinality(S \cup {n}) = Cardinality(S) + 1
  BY <1>2, <1>3, FS_AddElement
<1>. QED  BY <1>4, <1>5, <1>6, <1>7 DEF CountNext

Openers(text) == Templates!Actions(text, Templates!blockOpeners)
Ends(text)    == Templates!Actions(text, {"end"})

\* How many more blocks are opened than closed in i..j.
Net(text, i, j) == Count(Openers(text), i, j) - Count(Ends(text), i, j)

LEMMA ActionsAre ==
  ASSUME NEW text \in Seq(Templates!Pieces), NEW k
  PROVE  /\ k \in Openers(text) <=>
              k \in Templates!Starts(text) /\ k < Len(text) /\ text[k + 1] \in Templates!blockOpeners
         /\ k \in Ends(text) <=>
              k \in Templates!Starts(text) /\ k < Len(text) /\ text[k + 1] = "end"
         /\ k \in Openers(text) => k \notin Ends(text) /\ k \in 1..Len(text)
         /\ k \in Ends(text) => k \in 1..Len(text)
<1>1. k \in Templates!Starts(text) => k \in 1..Len(text)
  BY StartIs
<1>. QED  BY <1>1 DEF Openers, Ends, Templates!Actions, Templates!blockOpeners

LEMMA NetNext ==
  ASSUME NEW text, NEW i \in Nat, NEW n \in Nat, i <= n, n # 0
  PROVE  /\ Net(text, i, n - 1) \in Int /\ Net(text, i, n) \in Int
         /\ n \in Openers(text) /\ n \notin Ends(text) => Net(text, i, n) = Net(text, i, n - 1) + 1
         /\ n \notin Openers(text) /\ n \in Ends(text) => Net(text, i, n) = Net(text, i, n - 1) - 1
         /\ n \notin Openers(text) /\ n \notin Ends(text) => Net(text, i, n) = Net(text, i, n - 1)
<1>1. CountNext(Openers(text), i, n) /\ CountNext(Ends(text), i, n)
  BY Counting
<1>. QED  BY <1>1 DEF CountNext, Net

LEMMA NetOfNone ==
  ASSUME NEW text, NEW i \in Nat
  PROVE  Net(text, i + 1, i) = 0
<1>1. ASSUME NEW A
      PROVE  Count(A, i + 1, i) = 0
  <2>1. A \cap (i + 1)..i = {}
    OBVIOUS
  <2>. QED  BY <2>1, FS_EmptySet, Zenon DEF Count
<1>. QED  BY <1>1 DEF Net

LEMMA BalancedIs ==
  ASSUME NEW text, NEW i \in Nat, NEW n \in Nat, i <= n, n # 0
  PROVE  Templates!Balanced(text, i, n) <=> Net(text, i, n) = 0
<1>1. CountNext(Openers(text), i, n) /\ CountNext(Ends(text), i, n)
  BY Counting
<1>2. Templates!Balanced(text, i, n) <=> Count(Openers(text), i, n) = Count(Ends(text), i, n)
  BY SameCardinality, Zenon DEF Templates!Balanced, Count, Openers, Ends
<1>. QED  BY <1>1, <1>2 DEF Net, CountNext

\* P names the blocks that are open after the first k pieces.
OpenBlocks(text, k, P) ==
  /\ P \in Seq(Nat)
  /\ \A x \in 1..Len(P) :
       /\ P[x] \in Openers(text) /\ P[x] <= k
       /\ \A j \in P[x]..k : Net(text, P[x], j) >= 1
       /\ Net(text, P[x], k) = Len(P) - x + 1
  /\ \A i \in Openers(text) : i <= k /\ (\A x \in 1..Len(P) : P[x] # i) =>
       \E j \in Ends(text) : i < j /\ j <= k /\ Net(text, i, j) = 0
  /\ \A i \in 1..(k + 1), x \in 0..Len(P) :
       (\A y \in 1..x : P[y] < i) => Net(text, i, k) <= Len(P) - x

LEMMA BlockOpened ==
  ASSUME NEW text \in Seq(Templates!Pieces), NEW n \in 1..Len(text), NEW P,
         OpenBlocks(text, n - 1, P), n \in Openers(text)
  PROVE  OpenBlocks(text, n, Append(P, n))
<1> DEFINE Q == Append(P, n)
<1>1. P \in Seq(Nat) /\ n \in Nat /\ n # 0 /\ n \notin Ends(text)
  BY ActionsAre DEF OpenBlocks
<1>2. /\ Q \in Seq(Nat) /\ Len(Q) = Len(P) + 1 /\ Q[Len(P) + 1] = n
      /\ \A x \in 1..Len(P) : Q[x] = P[x]
  BY <1>1
<1> HIDE DEF Q
<1>3. \A i \in 1..n : Net(text, i, n - 1) \in Int /\ Net(text, i, n) = Net(text, i, n - 1) + 1
  BY <1>1, NetNext
<1>4. Net(text, n, n - 1) = 0 /\ Net(text, n + 1, n) = 0
  <2>1. n - 1 \in Nat /\ (n - 1) + 1 = n
    OBVIOUS
  <2>2. Net(text, (n - 1) + 1, n - 1) = 0 /\ Net(text, n + 1, n) = 0
    BY <1>1, <2>1, NetOfNone
  <2>. QED  BY <2>1, <2>2
<1>5. ASSUME NEW x \in 1..Len(Q)
      PROVE  /\ Q[x] \in Openers(text) /\ Q[x] <= n
             /\ \A j \in Q[x]..n : Net(text, Q[x], j) >= 1
             /\ Net(text, Q[x], n) = Len(Q) - x + 1
  <2>1. CASE x = Len(P) + 1
    <3>1. Net(text, n, n) = 1
      BY <1>1, <1>3, <1>4
    <3>. QED  BY <1>1, <1>2, <2>1, <3>1
  <2>2. CASE x \in 1..Len(P)
    <3>1. /\ P[x] \in Openers(text) /\ P[x] <= n - 1 /\ P[x] \in 1..Len(text)
          /\ \A j \in P[x]..(n - 1) : Net(text, P[x], j) >= 1
          /\ Net(text, P[x], n - 1) = Len(P) - x + 1
      BY <2>2, ActionsAre DEF OpenBlocks
    <3>2. Net(text, P[x], n) = Len(P) - x + 1 + 1
      BY <1>3, <3>1
    <3>3. Net(text, P[x], n) >= 1
      BY <1>1, <2>2, <3>2
    <3>4. \A j \in P[x]..n : j = n \/ j \in P[x]..(n - 1)
      BY <3>1
    <3>5. \A j \in P[x]..n : Net(text, P[x], j) >= 1
      BY <3>1, <3>3, <3>4
    <3>6. Q[x] = P[x] /\ Len(Q) - x + 1 = Len(P) - x + 1 + 1 /\ P[x] <= n
      BY <1>1, <1>2, <2>2, <3>1
    <3>. QED  BY <3>1, <3>2, <3>5, <3>6
  <2>. QED  BY <1>1, <1>2, <2>1, <2>2
<1>6. ASSUME NEW i \in Openers(text), i <= n, \A x \in 1..Len(Q) : Q[x] # i
      PROVE  \E j \in Ends(text) : i < j /\ j <= n /\ Net(text, i, j) = 0
  <2>1. i # n /\ i \in 1..Len(text)
    BY <1>1, <1>2, <1>6, ActionsAre
  <2>2. \A x \in 1..Len(P) : P[x] # i
    BY <1>1, <1>2, <1>6
  <2>3. PICK j \in Ends(text) : i < j /\ j <= n - 1 /\ Net(text, i, j) = 0
    BY <1>6, <2>1, <2>2 DEF OpenBlocks
  <2>4. j <= n
    BY <2>3, ActionsAre
  <2>. QED  BY <2>3, <2>4
<1>7. ASSUME NEW i \in 1..(n + 1), NEW x \in 0..Len(Q), \A y \in 1..x : Q[y] < i
      PROVE  Net(text, i, n) <= Len(Q) - x
  <2>1. CASE i = n + 1
    BY <1>1, <1>2, <1>4, <2>1
  <2>2. CASE i # n + 1
    <3>1. i \in 1..n /\ i \in 1..((n - 1) + 1)
      BY <2>2
    <3>2. x \in 0..Len(P)
      <4>1. Len(P) \in Nat /\ x \in 0..(Len(P) + 1)
        BY <1>1, <1>2
      <4>2. ASSUME x = Len(P) + 1
            PROVE  FALSE
        <5>1. x \in 1..x
          BY <4>1, <4>2
        <5>2. n < i
          BY <1>2, <1>7, <4>2, <5>1
        <5>. QED  BY <3>1, <5>2
      <4>. QED  BY <4>1, <4>2
    <3>3. \A y \in 1..x : P[y] < i
      <4>1. \A y \in 1..x : y \in 1..Len(P)
        BY <1>1, <3>2
      <4>. QED  BY <1>2, <1>7, <4>1
    <3>4. Net(text, i, n - 1) <= Len(P) - x
      BY <3>1, <3>2, <3>3 DEF OpenBlocks
    <3>. QED  BY <1>1, <1>2, <1>3, <3>1, <3>2, <3>4
  <2>. QED  BY <2>1, <2>2
<1>. QED  BY <1>2, <1>5, <1>6, <1>7 DEF OpenBlocks, Q

\* An end closes the block that was opened last.
LEMMA BlockClosed ==
  ASSUME NEW text \in Seq(Templates!Pieces), NEW n \in 1..Len(text), NEW P,
         OpenBlocks(text, n - 1, P), n \in Ends(text), Len(P) # 0
  PROVE  /\ OpenBlocks(text, n, SubSeq(P, 1, Len(P) - 1))
         /\ n \notin Templates!Orphans(text)
<1> DEFINE Q == SubSeq(P, 1, Len(P) - 1)
           N == Len(P)
<1>1. P \in Seq(Nat) /\ n \in Nat /\ n # 0 /\ n \notin Openers(text) /\ N \in Nat /\ N # 0
  BY ActionsAre DEF OpenBlocks
<1>2. Q \in Seq(Nat) /\ Len(Q) = N - 1 /\ \A x \in 1..(N - 1) : Q[x] = P[x]
  <2> DEFINE h == Len(P) - 1
  <2>1. h \in 0..Len(P) /\ h \in Nat /\ 1..h \subseteq 1..Len(P)
    BY <1>1
  <2>2. \A x \in 1..h : P[x] \in Nat
    BY <1>1, <2>1
  <2> HIDE DEF h
  <2>3. SubSeq(P, 1, h) = [x \in 1..h |-> P[x]]
    BY <1>1, <2>1
  <2>4. SubSeq(P, 1, h) \in Seq(Nat) /\ Len(SubSeq(P, 1, h)) = h /\ \A x \in 1..h : SubSeq(P, 1, h)[x] = P[x]
    BY <2>1, <2>2, <2>3
  <2>. QED  BY <2>4 DEF h
<1> HIDE DEF Q, N
<1>3. \A i \in 1..n : Net(text, i, n - 1) \in Int /\ Net(text, i, n) = Net(text, i, n - 1) - 1
  <2>1. n \notin Openers(text) /\ n \in Ends(text)
    BY <1>1
  <2>2. ASSUME NEW i \in 1..n
        PROVE  Net(text, i, n - 1) \in Int /\ Net(text, i, n) = Net(text, i, n - 1) - 1
    <3>1. i \in Nat /\ i <= n
      BY <1>1
    <3>. QED  BY <1>1, <2>1, <3>1, NetNext
  <2>. QED  BY <2>2
<1>4. ASSUME NEW x \in 1..N
      PROVE  /\ P[x] \in Openers(text) /\ P[x] <= n - 1 /\ P[x] \in 1..n
             /\ \A j \in P[x]..(n - 1) : Net(text, P[x], j) >= 1
             /\ Net(text, P[x], n) = N - x
  <2>1. /\ P[x] \in Openers(text) /\ P[x] <= n - 1 /\ P[x] \in 1..Len(text)
        /\ \A j \in P[x]..(n - 1) : Net(text, P[x], j) >= 1
        /\ Net(text, P[x], n - 1) = N - x + 1
    BY ActionsAre DEF OpenBlocks, N
  <2>2. P[x] \in 1..n
    BY <2>1
  <2>. QED  BY <1>1, <1>3, <2>1, <2>2
<1>5. ASSUME NEW x \in 1..Len(Q)
      PROVE  /\ Q[x] \in Openers(text) /\ Q[x] <= n
             /\ \A j \in Q[x]..n : Net(text, Q[x], j) >= 1
             /\ Net(text, Q[x], n) = Len(Q) - x + 1
  <2>1. x \in 1..N /\ Q[x] = P[x] /\ N - x >= 1 /\ Len(Q) - x + 1 = N - x /\ x \in Nat
    BY <1>1, <1>2
  <2>2. \A j \in P[x]..n : j = n \/ j \in P[x]..(n - 1)
    BY <1>4, <2>1
  <2>3. \A j \in P[x]..n : Net(text, P[x], j) >= 1
    BY <1>4, <2>1, <2>2
  <2>4. P[x] <= n
    BY <1>4, <2>1
  <2>. QED  BY <1>4, <2>1, <2>3, <2>4
<1>6. ASSUME NEW i \in Openers(text), i <= n, \A x \in 1..Len(Q) : Q[x] # i
      PROVE  \E j \in Ends(text) : i < j /\ j <= n /\ Net(text, i, j) = 0
  <2>1. i # n /\ i \in 1..Len(text)
    BY <1>1, <1>6, ActionsAre
  <2>2. CASE P[N] = i
    <3>1. N \in 1..N /\ N - N = 0
      BY <1>1
    <3>2. Net(text, P[N], n) = N - N
      BY <1>4, <3>1
    <3>3. Net(text, i, n) = 0
      BY <2>2, <3>1, <3>2
    <3>4. i < n /\ n <= n
      BY <1>1, <1>6, <2>1
    <3>. QED  BY <3>3, <3>4
  <2>3. CASE P[N] # i
    <3>1. \A x \in 1..N : x = N \/ x \in 1..Len(Q)
      BY <1>1, <1>2
    <3>2. \A x \in 1..N : P[x] # i
      BY <1>2, <1>6, <2>3, <3>1
    <3>3. PICK j \in Ends(text) : i < j /\ j <= n - 1 /\ Net(text, i, j) = 0
      BY <1>6, <2>1, <3>2 DEF OpenBlocks, N
    <3>4. j <= n
      BY <3>3, ActionsAre
    <3>. QED  BY <3>3, <3>4
  <2>. QED  BY <2>2, <2>3
<1>7. ASSUME NEW i \in 1..(n + 1), NEW x \in 0..Len(Q), \A y \in 1..x : Q[y] < i
      PROVE  Net(text, i, n) <= Len(Q) - x
  <2>1. CASE i = n + 1
    <3>1. Net(text, n + 1, n) = 0
      BY <1>1, NetOfNone
    <3>. QED  BY <1>1, <1>2, <2>1, <3>1
  <2>2. CASE i # n + 1
    <3>1. i \in 1..n /\ i \in 1..((n - 1) + 1) /\ x \in 0..N
      BY <1>1, <1>2, <2>2
    <3>2. \A y \in 1..x : y \in 1..(N - 1)
      BY <1>1, <1>2
    <3>3. \A y \in 1..x : P[y] < i
      BY <1>2, <1>7, <3>2
    <3>4. Net(text, i, n - 1) <= N - x
      BY <3>1, <3>3 DEF OpenBlocks, N
    <3>. QED  BY <1>1, <1>2, <1>3, <3>1, <3>4
  <2>. QED  BY <2>1, <2>2
<1>8. n \notin Templates!Orphans(text)
  <2>1. P[N] \in Openers(text) /\ P[N] <= n - 1 /\ P[N] \in 1..n /\ Net(text, P[N], n) = 0
    <3>1. N \in 1..N /\ N - N = 0
      BY <1>1
    <3>. QED  BY <1>4, <3>1
  <2>2. Templates!Balanced(text, P[N], n)
    BY <1>1, <2>1, BalancedIs
  <2>3. P[N] < n
    BY <2>1
  <2>. QED  BY <2>1, <2>2, <2>3 DEF Templates!Orphans, Openers
<1>9. OpenBlocks(text, n, Q)
  BY <1>2, <1>5, <1>6, <1>7 DEF OpenBlocks
<1>. QED  BY <1>8, <1>9 DEF Q, N

\* An end is an orphan when no block is open.
LEMMA NothingToClose ==
  ASSUME NEW text \in Seq(Templates!Pieces), NEW n \in 1..Len(text), NEW P,
         OpenBlocks(text, n - 1, P), n \in Ends(text), n \notin Templates!Open(text), Len(P) = 0
  PROVE  OpenBlocks(text, n, P) /\ n \in Templates!Orphans(text)
<1>1. P \in Seq(Nat) /\ n \in Nat /\ n # 0 /\ n \notin Openers(text)
  BY ActionsAre DEF OpenBlocks
<1>2. \A i \in 1..n : Net(text, i, n - 1) \in Int /\ Net(text, i, n) = Net(text, i, n - 1) - 1
  <2>1. n \notin Openers(text) /\ n \in Ends(text)
    BY <1>1
  <2>2. ASSUME NEW i \in 1..n
        PROVE  Net(text, i, n - 1) \in Int /\ Net(text, i, n) = Net(text, i, n - 1) - 1
    <3>1. i \in Nat /\ i <= n
      BY <1>1
    <3>. QED  BY <1>1, <2>1, <3>1, NetNext
  <2>. QED  BY <2>2
<1>3. \A i \in 1..n : Net(text, i, n) <= -1
  <2>1. ASSUME NEW i \in 1..n
        PROVE  Net(text, i, n - 1) <= 0
    <3>1. i \in 1..((n - 1) + 1) /\ 0 \in 0..Len(P)
      OBVIOUS
    <3>2. Net(text, i, n - 1) <= Len(P) - 0
      BY <3>1 DEF OpenBlocks
    <3>. QED  BY <3>2
  <2>. QED  BY <1>2, <2>1
<1>4. ASSUME NEW i \in Openers(text), i < n
      PROVE  ~Templates!Balanced(text, i, n)
  <2>1. i \in 1..n /\ i \in Nat
    BY <1>4, ActionsAre
  <2>2. Net(text, i, n) # 0
    BY <1>2, <1>3, <2>1
  <2>. QED  BY <1>1, <2>1, <2>2, BalancedIs
<1>5. n \in Templates!Orphans(text)
  BY <1>4 DEF Templates!Orphans, Ends, Openers
<1>6. ASSUME NEW i \in Openers(text), i <= n
      PROVE  \E j \in Ends(text) : i < j /\ j <= n /\ Net(text, i, j) = 0
  <2>1. i <= n - 1 /\ i \in 1..Len(text)
    BY <1>1, <1>6, ActionsAre
  <2>2. \A x \in 1..Len(P) : P[x] # i
    OBVIOUS
  <2>3. PICK j \in Ends(text) : i < j /\ j <= n - 1 /\ Net(text, i, j) = 0
    BY <2>1, <2>2 DEF OpenBlocks
  <2>4. j <= n
    BY <2>3, ActionsAre
  <2>. QED  BY <2>3, <2>4
<1>7. ASSUME NEW i \in 1..(n + 1), NEW x \in 0..Len(P)
      PROVE  Net(text, i, n) <= Len(P) - x
  <2>1. x = 0
    OBVIOUS
  <2>2. CASE i = n + 1
    BY <1>1, <2>1, <2>2, NetOfNone
  <2>3. CASE i # n + 1
    <3>1. i \in 1..n
      BY <2>3
    <3>. QED  BY <1>2, <1>3, <2>1, <3>1
  <2>. QED  BY <2>2, <2>3
<1>8. \A x \in 1..Len(P) : FALSE
  OBVIOUS
<1>. QED  BY <1>1, <1>5, <1>6, <1>7, <1>8 DEF OpenBlocks

\* Any other piece changes nothing.
LEMMA BlocksKept ==
  ASSUME NEW text \in Seq(Templates!Pieces), NEW n \in 1..Len(text), NEW P,
         OpenBlocks(text, n - 1, P), n \notin Ends(text), n \notin Openers(text)
  PROVE  OpenBlocks(text, n, P)
<1>1. P \in Seq(Nat) /\ n \in Nat /\ n # 0
  BY DEF OpenBlocks
<1>2. \A i \in 1..n : Net(text, i, n - 1) \in Int /\ Net(text, i, n) = Net(text, i, n - 1)
  BY <1>1, NetNext
<1>3. ASSUME NEW x \in 1..Len(P)
      PROVE  /\ P[x] \in Openers(text) /\ P[x] <= n
             /\ \A j \in P[x]..n : Net(text, P[x], j) >= 1
             /\ Net(text, P[x], n) = Len(P) - x + 1
  <2>1. /\ P[x] \in Openers(text) /\ P[x] <= n - 1 /\ P[x] \in 1..Len(text)
        /\ \A j \in P[x]..(n - 1) : Net(text, P[x], j) >= 1
        /\ Net(text, P[x], n - 1) = Len(P) - x + 1
    BY ActionsAre DEF OpenBlocks
  <2>2. P[x] \in 1..n /\ P[x] <= n
    BY <2>1
  <2>3. Net(text, P[x], n) = Len(P) - x + 1 /\ Net(text, P[x], n) >= 1
    BY <1>1, <1>2, <2>1, <2>2
  <2>4. \A j \in P[x]..n : j = n \/ j \in P[x]..(n - 1)
    BY <2>2
  <2>5. \A j \in P[x]..n : Net(text, P[x], j) >= 1
    BY <2>1, <2>3, <2>4
  <2>. QED  BY <2>1, <2>2, <2>3, <2>5
<1>4. ASSUME NEW i \in Openers(text), i <= n, \A x \in 1..Len(P) : P[x] # i
      PROVE  \E j \in Ends(text) : i < j /\ j <= n /\ Net(text, i, j) = 0
  <2>1. i <= n - 1
    BY <1>1, <1>4, ActionsAre
  <2>2. PICK j \in Ends(text) : i < j /\ j <= n - 1 /\ Net(text, i, j) = 0
    BY <1>4, <2>1 DEF OpenBlocks
  <2>3. j <= n
    BY <2>2, ActionsAre
  <2>. QED  BY <2>2, <2>3
<1>5. ASSUME NEW i \in 1..(n + 1), NEW x \in 0..Len(P), \A y \in 1..x : P[y] < i
      PROVE  Net(text, i, n) <= Len(P) - x
  <2>1. CASE i = n + 1
    BY <1>1, <2>1, NetOfNone
  <2>2. CASE i # n + 1
    <3>1. i \in 1..n /\ i \in 1..((n - 1) + 1)
      BY <2>2
    <3>2. Net(text, i, n - 1) <= Len(P) - x
      BY <1>5, <3>1 DEF OpenBlocks
    <3>. QED  BY <1>2, <3>1, <3>2
  <2>. QED  BY <2>1, <2>2
<1>. QED  BY <1>1, <1>3, <1>4, <1>5 DEF OpenBlocks


-----------------------------------------------------------------------------
(* The loop of checkFile *)

Marks   == [rule : {"orphan-end", "unterminated"}, line : Nat]
TStates == [next : Nat, line : Nat, stack : Seq(Nat), found : SUBSET Marks, returned : BOOLEAN]

\* The fields of a state of the loop.
Now(t, next, line, stack, found1, returned) ==
  /\ t \in TStates
  /\ t.next = next /\ t.line = line /\ t.stack = stack /\ t.found = found1 /\ t.returned = returned

\* The same state, where the scan goes on at "next".
LEMMA GoesOn ==
  ASSUME NEW s \in TStates, NEW n \in Nat
  PROVE  Now([s EXCEPT !.next = n], n, s.line, s.stack, s.found, s.returned)
<1>1. s.line \in Nat /\ s.stack \in Seq(Nat) /\ s.found \in SUBSET Marks /\ s.returned \in BOOLEAN
  BY DEF TStates
<1>. QED  BY <1>1 DEF Now, TStates

LEMMA NextLine ==
  ASSUME NEW s \in TStates
  PROVE  Now([s EXCEPT !.line = @ + 1], s.next, s.line + 1, s.stack, s.found, s.returned)
<1>1. s.next \in Nat /\ s.line + 1 \in Nat /\ s.stack \in Seq(Nat) /\ s.found \in SUBSET Marks
        /\ s.returned \in BOOLEAN
  BY DEF TStates
<1>. QED  BY <1>1 DEF Now, TStates

LEMMA Pushes ==
  ASSUME NEW s \in TStates, NEW n \in Nat
  PROVE  Now([s EXCEPT !.stack = Append(@, s.line), !.next = n],
             n, s.line, Append(s.stack, s.line), s.found, s.returned)
<1>1. s.line \in Nat /\ Append(s.stack, s.line) \in Seq(Nat) /\ s.found \in SUBSET Marks
        /\ s.returned \in BOOLEAN
  BY DEF TStates
<1>. QED  BY <1>1 DEF Now, TStates

Popped(q) == SubSeq(q, 1, Len(q) - 1)

LEMMA PoppedIs ==
  ASSUME NEW q \in Seq(Nat), Len(q) # 0
  PROVE  /\ Popped(q) \in Seq(Nat) /\ Len(Popped(q)) = Len(q) - 1
         /\ \A x \in 1..(Len(q) - 1) : Popped(q)[x] = q[x]
<1> DEFINE h == Len(q) - 1
<1>1. h \in 0..Len(q) /\ h \in Nat /\ 1..h \subseteq 1..Len(q)
  OBVIOUS
<1>2. \A x \in 1..h : q[x] \in Nat
  BY <1>1
<1> HIDE DEF h
<1>3. SubSeq(q, 1, h) = [x \in 1..h |-> q[x]]
  BY <1>1
<1>4. /\ SubSeq(q, 1, h) \in Seq(Nat) /\ Len(SubSeq(q, 1, h)) = h
      /\ \A x \in 1..h : SubSeq(q, 1, h)[x] = q[x]
  BY <1>1, <1>2, <1>3
<1>. QED  BY <1>4 DEF h, Popped

LEMMA Pops ==
  ASSUME NEW s \in TStates, NEW n \in Nat, s.stack # <<>>
  PROVE  Now([s EXCEPT !.stack = Templates!Front(@), !.next = n],
             n, s.line, Popped(s.stack), s.found, s.returned)
<1>1. s.line \in Nat /\ s.stack \in Seq(Nat) /\ Len(s.stack) # 0 /\ s.found \in SUBSET Marks
        /\ s.returned \in BOOLEAN
  BY DEF TStates
<1>2. Templates!Front(s.stack) = Popped(s.stack)
  BY DEF Templates!Front, Popped
<1>3. Popped(s.stack) \in Seq(Nat)
  BY <1>1, PoppedIs
<1> HIDE DEF Popped
<1>. QED  BY <1>1, <1>2, <1>3 DEF Now, TStates

LEMMA Reports1 ==
  ASSUME NEW s \in TStates, NEW rule \in {"orphan-end", "unterminated"}
  PROVE  LET marks == s.found \cup {[rule |-> rule, line |-> s.line]}
         IN  /\ Now(Templates!Report(s, rule), s.next, s.line, s.stack, marks, s.returned)
             /\ Now([Templates!Report(s, rule) EXCEPT !.returned = TRUE],
                    s.next, s.line, s.stack, marks, TRUE)
<1>1. s.next \in Nat /\ s.line \in Nat /\ s.stack \in Seq(Nat) /\ s.found \in SUBSET Marks
        /\ s.returned \in BOOLEAN
  BY DEF TStates
<1>2. s.found \cup {[rule |-> rule, line |-> s.line]} \in SUBSET Marks
  BY <1>1 DEF Marks
<1>. QED  BY <1>1, <1>2 DEF Now, TStates, Templates!Report

-----------------------------------------------------------------------------
\* One round of the loop, case by case.
LEMMA RoundSkips ==
  ASSUME NEW text, NEW s, NEW k,
         \/ s.returned \/ k < s.next
         \/ text[k] \notin {"nl", "leftDelim"}
  PROVE  Templates!Scan(text, s, k) = s
  BY DEF Templates!Scan

\* The loop is in its round for piece k.
Going(s, k) == s \in TStates /\ ~s.returned /\ ~(k < s.next)

LEMMA RoundOfLine ==
  ASSUME NEW text, NEW s, NEW k, Going(s, k), text[k] = "nl"
  PROVE  Now(Templates!Scan(text, s, k), s.next, s.line + 1, s.stack, s.found, FALSE)
<1>1. Templates!Scan(text, s, k) = [s EXCEPT !.line = @ + 1]
  BY DEF Templates!Scan, Going
<1>2. s \in TStates /\ s.returned = FALSE
  BY DEF Going, TStates
<1>. QED  BY <1>1, <1>2, NextLine

LEMMA RoundOfOpen ==
  ASSUME NEW text, NEW s, NEW k, Going(s, k), text[k] = "leftDelim",
         Templates!ActionEnds(text, k + 1) = {}
  PROVE  Now(Templates!Scan(text, s, k), s.next, s.line, s.stack,
             s.found \cup {[rule |-> "unterminated", line |-> s.line]}, TRUE)
<1>1. Templates!Scan(text, s, k) = [Templates!Report(s, "unterminated") EXCEPT !.returned = TRUE]
  BY DEF Templates!Scan, Going
<1>. QED  BY <1>1, Reports1 DEF Going

\* The action from k ends at e.
Acts(text, s, k, e) ==
  /\ Going(s, k) /\ text[k] = "leftDelim" /\ Templates!ActionEnds(text, k + 1) # {}
  /\ e = Templates!Min(Templates!ActionEnds(text, k + 1)) /\ e \in Nat

LEMMA RoundOfAction ==
  ASSUME NEW text, NEW s, NEW k, NEW e, Acts(text, s, k, e)
  PROVE  /\ Templates!Scan(text, s, k) = Templates!Block(s, text[k + 1], e)
         /\ s \in TStates /\ s.returned = FALSE /\ e + 1 \in Nat
<1>1. Templates!Scan(text, s, k) = Templates!Block(s, text[k + 1], e)
  BY DEF Templates!Scan, Going, Acts
<1>. QED  BY <1>1 DEF Acts, Going, TStates

\* The switch on the keyword, arm by arm.
LEMMA OpenerBlock ==
  ASSUME NEW s \in TStates, NEW word \in Templates!blockOpeners, NEW e \in Nat
  PROVE  Now(Templates!Block(s, word, e), e + 1, s.line, Append(s.stack, s.line), s.found, s.returned)
<1>1. Templates!Block(s, word, e) = [s EXCEPT !.stack = Append(@, s.line), !.next = e + 1]
  BY DEF Templates!Block, Templates!blockOpeners
<1>2. e + 1 \in Nat
  OBVIOUS
<1>. QED  BY <1>1, <1>2, Pushes

LEMMA OrphanBlock ==
  ASSUME NEW s \in TStates, NEW e \in Nat, s.stack = <<>>
  PROVE  Now(Templates!Block(s, "end", e), s.next, s.line, s.stack,
             s.found \cup {[rule |-> "orphan-end", line |-> s.line]}, s.returned)
<1>1. Templates!Block(s, "end", e) = Templates!Report(s, "orphan-end")
  BY DEF Templates!Block, Templates!blockOpeners
<1>. QED  BY <1>1, Reports1

LEMMA EndBlock ==
  ASSUME NEW s \in TStates, NEW e \in Nat, s.stack # <<>>
  PROVE  Now(Templates!Block(s, "end", e), e + 1, s.line, Popped(s.stack), s.found, s.returned)
<1>1. Templates!Block(s, "end", e) = [s EXCEPT !.stack = Templates!Front(@), !.next = e + 1]
  BY DEF Templates!Block, Templates!blockOpeners
<1>2. e + 1 \in Nat
  OBVIOUS
<1>. QED  BY <1>1, <1>2, Pops

LEMMA OtherBlock ==
  ASSUME NEW s \in TStates, NEW word, word # "end", word \notin Templates!blockOpeners, NEW e \in Nat
  PROVE  Now(Templates!Block(s, word, e), e + 1, s.line, s.stack, s.found, s.returned)
<1>1. Templates!Block(s, word, e) = [s EXCEPT !.next = e + 1]
  BY DEF Templates!Block
<1>2. e + 1 \in Nat
  OBVIOUS
<1>. QED  BY <1>1, <1>2, GoesOn

LEMMA RoundOfOpener ==
  ASSUME NEW text, NEW s, NEW k, NEW e, Acts(text, s, k, e), text[k + 1] \in Templates!blockOpeners
  PROVE  Now(Templates!Scan(text, s, k), e + 1, s.line, Append(s.stack, s.line), s.found, FALSE)
<1>1. e \in Nat
  BY DEF Acts
<1>2. Now(Templates!Block(s, text[k + 1], e), e + 1, s.line, Append(s.stack, s.line), s.found, s.returned)
  BY <1>1, RoundOfAction, OpenerBlock
<1>. QED  BY <1>2, RoundOfAction

LEMMA RoundOfOrphan ==
  ASSUME NEW text, NEW s, NEW k, NEW e, Acts(text, s, k, e), text[k + 1] = "end", s.stack = <<>>
  PROVE  Now(Templates!Scan(text, s, k), s.next, s.line, s.stack,
             s.found \cup {[rule |-> "orphan-end", line |-> s.line]}, FALSE)
<1>1. e \in Nat
  BY DEF Acts
<1>2. Now(Templates!Block(s, text[k + 1], e), s.next, s.line, s.stack,
             s.found \cup {[rule |-> "orphan-end", line |-> s.line]}, s.returned)
  BY <1>1, RoundOfAction, OrphanBlock
<1>. QED  BY <1>2, RoundOfAction

LEMMA RoundOfEnd ==
  ASSUME NEW text, NEW s, NEW k, NEW e, Acts(text, s, k, e), text[k + 1] = "end", s.stack # <<>>
  PROVE  Now(Templates!Scan(text, s, k), e + 1, s.line, Popped(s.stack), s.found, FALSE)
<1>1. e \in Nat
  BY DEF Acts
<1>2. Now(Templates!Block(s, text[k + 1], e), e + 1, s.line, Popped(s.stack), s.found, s.returned)
  BY <1>1, RoundOfAction, EndBlock
<1>. QED  BY <1>2, RoundOfAction

LEMMA RoundOfOther ==
  ASSUME NEW text, NEW s, NEW k, NEW e, Acts(text, s, k, e), text[k + 1] # "end", text[k + 1] \notin Templates!blockOpeners
  PROVE  Now(Templates!Scan(text, s, k), e + 1, s.line, s.stack, s.found, FALSE)
<1>1. e \in Nat
  BY DEF Acts
<1>2. Now(Templates!Block(s, text[k + 1], e), e + 1, s.line, s.stack, s.found, s.returned)
  BY <1>1, RoundOfAction, OtherBlock
<1>. QED  BY <1>2, RoundOfAction

LEMMA RoundTypes ==
  ASSUME NEW text \in Seq(Templates!Pieces), NEW s \in TStates, NEW k \in 1..Len(text)
  PROVE  Templates!Scan(text, s, k) \in TStates
<1>1. CASE s.returned \/ k < s.next \/ text[k] \notin {"nl", "leftDelim"}
  BY <1>1, RoundSkips
<1>2. CASE ~s.returned /\ ~(k < s.next) /\ text[k] = "nl"
  BY <1>2, RoundOfLine DEF Going, Now
<1>3. CASE ~s.returned /\ ~(k < s.next) /\ text[k] = "leftDelim"
  <2>1. Going(s, k)
    BY <1>3 DEF Going
  <2>2. CASE Templates!ActionEnds(text, k + 1) = {}
    BY <1>3, <2>1, <2>2, RoundOfOpen DEF Now
  <2>3. CASE Templates!ActionEnds(text, k + 1) # {}
    <3> DEFINE E == Templates!ActionEnds(text, k + 1)
               e == Templates!Min(E)
    <3>1. e \in Nat
      <4>1. E \in SUBSET Nat
        BY DEF Templates!ActionEnds
      <4> HIDE DEF E
      <4>2. E # {}
        BY <2>3 DEF E
      <4>. QED  BY <4>1, <4>2, Smallest
    <3>2. Acts(text, s, k, e)
      BY <1>3, <2>1, <2>3, <3>1 DEF Acts
    <3> HIDE DEF E, e
    <3>3. CASE text[k + 1] \in Templates!blockOpeners
      BY <3>2, <3>3, RoundOfOpener DEF Now
    <3>4. CASE text[k + 1] = "end" /\ s.stack = <<>>
      BY <3>2, <3>4, RoundOfOrphan DEF Now
    <3>5. CASE text[k + 1] = "end" /\ s.stack # <<>>
      BY <3>2, <3>5, RoundOfEnd DEF Now
    <3>6. CASE text[k + 1] # "end" /\ text[k + 1] \notin Templates!blockOpeners
      BY <3>2, <3>6, RoundOfOther DEF Now
    <3>. QED  BY <3>3, <3>4, <3>5, <3>6
  <2>. QED  BY <2>2, <2>3
<1>. QED  BY <1>1, <1>2, <1>3

LEMMA Rounds ==
  ASSUME NEW text \in Seq(Templates!Pieces)
  PROVE  LET s == Templates!Scanning(text)
         IN  /\ s[0] = Templates!Start
             /\ \A k \in 1..Len(text) : s[k] = Templates!Scan(text, s[k - 1], k)
<1> DEFINE L == Len(text)
           x == Templates!Start
           step(k, was) == Templates!Scan(text, was, k)
           Recursive(g) == g = [k \in 0..L |-> IF k = 0 THEN x ELSE step(k, g[k - 1])]
           G == [was \in TStates |-> [k \in 0..L |-> IF k = 0 THEN was ELSE step(k, was)]]
<1>1. L \in Nat /\ 0 <= L /\ 0 \in Nat
  OBVIOUS
<1>2. x \in TStates
  <2>1. <<>> \in Seq(Nat) /\ {} \in SUBSET Marks
    OBVIOUS
  <2>. QED  BY <2>1 DEF Templates!Start, TStates
<1>3. ASSUME NEW k \in 1..L, NEW was \in TStates
      PROVE  step(k, was) \in TStates
  BY RoundTypes
<1> HIDE DEF x, step, L
<1>4. G \in [TStates -> [0..L -> TStates]]
  BY <1>1, <1>3
<1>5. PICK f \in [0..L -> TStates] : Walks(f, 0, L, x, G)
  <2> DEFINE D == 0..L
  <2>1. G \in [TStates -> [D -> TStates]] /\ D = 0..L
    BY <1>4
  <2> HIDE DEF G, D
  <2>2. \E f \in [D -> TStates] : Walks(f, 0, L, x, G)
    BY <1>1, <1>2, <2>1, WalkExists
  <2>. QED  BY <2>2 DEF D
<1>6. ASSUME NEW k \in 1..L
      PROVE  f[k] = step(k, f[k - 1])
  <2>1. k \in (0 + 1)..L /\ k \in 0..L /\ k # 0 /\ k - 1 \in 0..L
    BY <1>1
  <2>2. f[k - 1] \in TStates
    BY <1>5, <2>1
  <2>. QED  BY <1>5, <2>1, <2>2 DEF Walks
<1>7. Recursive(f)
  <2>1. f[0] = x
    BY <1>5 DEF Walks
  <2>2. \A k \in 0..L : k # 0 => k \in 1..L
    BY <1>1
  <2>. QED  BY <1>5, <1>6, <2>1, <2>2
<1> DEFINE s == Templates!Scanning(text)
<1>8. s = CHOOSE g : Recursive(g)
  BY DEF Templates!Scanning, L, step, x
<1>9. Recursive(s)
  <2> HIDE DEF Recursive, s
  <2>. QED  BY <1>7, <1>8
<1> HIDE DEF s
<1>10. s[0] = x /\ \A k \in 1..L : s[k] = step(k, s[k - 1])
  BY <1>1, <1>9
<1>. QED  BY <1>10 DEF s, step, L, x

\* The counter of lines is ahead of a line end by one.
LEMMA LinesCount ==
  ASSUME NEW text \in Seq(Templates!Pieces), NEW k \in 1..Len(text)
  PROVE  /\ Templates!Line(text, k) \in Nat
         /\ Templates!Line(text, 1) = 1
         /\ text[k] = "nl" => Templates!Line(text, k + 1) = Templates!Line(text, k) + 1
         /\ text[k] # "nl" => Templates!Line(text, k + 1) = Templates!Line(text, k)
<1> DEFINE A == {j \in 1..Len(text) : text[j] = "nl"}
<1>1. ASSUME NEW i \in 1..(Len(text) + 1)
      PROVE  Templates!Line(text, i) = 1 + Count(A, 1, i - 1)
  <2>1. {j \in 1..(i - 1) : text[j] = "nl"} = A \cap 1..(i - 1)
    OBVIOUS
  <2>. QED  BY <2>1, SameCardinality, Zenon DEF Templates!Line, Count
<1>2. CountNext(A, 1, k)
  BY Counting
<1>3. k \in A <=> text[k] = "nl"
  OBVIOUS
<1>4. Count(A, 1, 0) = 0
  <2>1. A \cap 1..0 = {}
    OBVIOUS
  <2>. QED  BY <2>1, FS_EmptySet, Zenon DEF Count
<1> HIDE DEF A
<1>5. /\ Templates!Line(text, k) = 1 + Count(A, 1, k - 1)
      /\ Templates!Line(text, k + 1) = 1 + Count(A, 1, k)
      /\ Templates!Line(text, 1) = 1 + Count(A, 1, 0)
  <2>1. /\ k \in 1..(Len(text) + 1) /\ k + 1 \in 1..(Len(text) + 1) /\ 1 \in 1..(Len(text) + 1)
        /\ (k + 1) - 1 = k /\ 1 - 1 = 0
    OBVIOUS
  <2>. QED  BY <1>1, <2>1
<1>. QED  BY <1>2, <1>3, <1>4, <1>5 DEF CountNext

-----------------------------------------------------------------------------
(* What the loop holds before piece n of a plain text *)

\* The lexer is in an action that begins with end.
WithinEnd(text, n) ==
  \E i \in Ends(text) : i < n /\ \A j \in (i + 1)..n : Templates!Mode(text)[j] # "text"

\* The counter is at the line of n; what the loop passes over is an action,
\* and it is in no other action than one that begins with an orphan end.
Passing(text, n, s) ==
  LET m == Templates!Mode(text)
  IN  /\ s.line = Templates!Line(text, n)
      /\ s.next \in 1..(Len(text) + 1)
      /\ \A j \in n..(s.next - 1) : m[j] # "text"
      /\ n <= s.next => m[s.next] = "text"
      /\ s.next < n /\ m[n] # "text" => WithinEnd(text, n)

\* Every action before n has its end; the orphans among them were reported.
Told(text, n, s) ==
  /\ \A o \in Templates!Open(text) : o >= n
  /\ s.found = Templates!Findings(text, "orphan-end", Templates!Orphans(text) \cap 1..(n - 1))

\* The stack has the lines of the blocks that are open.
Stacked(text, n, s) ==
  \E P : /\ OpenBlocks(text, n - 1, P) /\ Len(s.stack) = Len(P)
         /\ \A x \in 1..Len(P) : s.stack[x] = Templates!Line(text, P[x])

\* The loop has returned: there is an action without an end.
Stopped(text, s) ==
  /\ Templates!Open(text) # {}
  /\ s.found = Templates!Findings(text, "orphan-end", Templates!Orphans(text))
                 \cup Templates!Findings(text, "unterminated", Templates!Open(text))

Looped(text, n, s) ==
  /\ s \in TStates
  /\ IF s.returned THEN Stopped(text, s)
     ELSE Passing(text, n, s) /\ Told(text, n, s) /\ Stacked(text, n, s)

\* Where an action, an end without a block, and an open action can be.
LEMMA SubsetsOfStarts ==
  ASSUME NEW text \in Seq(Templates!Pieces)
  PROVE  /\ Templates!Open(text) \subseteq Templates!Starts(text)
         /\ Templates!Orphans(text) \subseteq Ends(text) \ Templates!Open(text)
         /\ Ends(text) \subseteq Templates!Starts(text)
         /\ Openers(text) \subseteq Templates!Starts(text)
         /\ Templates!Starts(text) \subseteq 1..Len(text)
<1>1. Templates!Starts(text) \subseteq 1..Len(text)
  BY StartIs
<1>. QED
  BY <1>1 DEF Templates!Open, Templates!Orphans, Ends, Openers, Templates!Actions

\* A piece where no action begins opens, closes and reports nothing.
LEMMA NothingBegins ==
  ASSUME NEW text \in Seq(Templates!Pieces), NEW n \in 1..Len(text), n \notin Templates!Starts(text),
         NEW s, Told(text, n, s), Stacked(text, n, s),
         NEW t, t.found = s.found, t.stack = s.stack
  PROVE  Told(text, n + 1, t) /\ Stacked(text, n + 1, t)
<1>1. n \notin Templates!Open(text) /\ n \notin Templates!Orphans(text) /\ n \notin Ends(text)
        /\ n \notin Openers(text)
  BY SubsetsOfStarts
<1>2. (n + 1) - 1 = n /\ n - 1 \in Nat
  OBVIOUS
<1>3. Told(text, n + 1, t)
  <2>1. \A o \in Templates!Open(text) : o >= n + 1
    <3> SUFFICES ASSUME NEW o \in Templates!Open(text) PROVE o >= n + 1
      OBVIOUS
    <3>1. o >= n /\ o \in 1..Len(text) /\ o # n
      BY <1>1, SubsetsOfStarts DEF Told
    <3>. QED  BY <3>1
  <2>2. Templates!Orphans(text) \cap 1..n = Templates!Orphans(text) \cap 1..(n - 1)
    BY <1>1
  <2>3. t.found = Templates!Findings(text, "orphan-end", Templates!Orphans(text) \cap 1..n)
    BY <2>2 DEF Told
  <2>. QED  BY <1>2, <2>1, <2>3 DEF Told
<1>4. PICK P : /\ OpenBlocks(text, n - 1, P) /\ Len(s.stack) = Len(P)
               /\ \A x \in 1..Len(P) : s.stack[x] = Templates!Line(text, P[x])
  BY DEF Stacked
<1>5. OpenBlocks(text, n, P)
  BY <1>1, <1>4, BlocksKept
<1>. QED  BY <1>2, <1>3, <1>4, <1>5 DEF Stacked

\* The piece after one that is text to the lexer and begins no action is text.
LEMMA StaysText ==
  ASSUME NEW text \in Seq(Templates!Pieces), NEW n \in 1..Len(text),
         Templates!Mode(text)[n] = "text", text[n] # "leftDelim"
  PROVE  Templates!Mode(text)[n + 1] = "text"
<1>1. n + 1 \in 2..(Len(text) + 1) /\ (n + 1) - 1 = n
  OBVIOUS
<1>2. ModeIs(text, n + 1, Templates!Mode(text))
  BY <1>1, Modality
<1>. QED  BY <1>1, <1>2 DEF ModeIs, Templates!Lex

-----------------------------------------------------------------------------
(* One lemma for each round of the loop *)

\* What a round starts from.
Round(text, n, s) ==
  /\ text \in Seq(Templates!Pieces) /\ Templates!Plain(text) /\ n \in 1..Len(text)
  /\ s \in TStates /\ ~s.returned
  /\ Passing(text, n, s) /\ Told(text, n, s) /\ Stacked(text, n, s)

\* A piece of an action that the loop passes over.
LEMMA LoopPasses ==
  ASSUME NEW text, NEW n, NEW s, Round(text, n, s), n < s.next
  PROVE  Looped(text, n + 1, Templates!Scan(text, s, n))
<1> DEFINE m == Templates!Mode(text)
<1>1. Templates!Scan(text, s, n) = s
  BY RoundSkips
<1>2. text \in Seq(Templates!Pieces) /\ n \in 1..Len(text) /\ s.next \in 1..(Len(text) + 1)
  BY DEF Round, Passing
<1>3. m[n] # "text"
  <2>1. n \in n..(s.next - 1)
    BY <1>2
  <2>. QED  BY <2>1 DEF Round, Passing
<1>4. text[n] # "nl" /\ n \notin Templates!Starts(text)
  <2>1. PlainAt(text, m, n)
    BY <1>2, PlainIs DEF Round
  <2>. QED  BY <1>2, <1>3, <2>1, StartIs DEF PlainAt
<1>5. Told(text, n + 1, s) /\ Stacked(text, n + 1, s)
  BY <1>2, <1>4, NothingBegins DEF Round
<1>6. Passing(text, n + 1, s)
  <2>1. s.line = Templates!Line(text, n + 1)
    BY <1>2, <1>4, LinesCount DEF Round, Passing
  <2>2. \A j \in (n + 1)..(s.next - 1) : j \in n..(s.next - 1)
    BY <1>2
  <2>3. n <= s.next /\ ~(s.next < n + 1)
    BY <1>2
  <2>. QED  BY <1>2, <2>1, <2>2, <2>3 DEF Round, Passing
<1>. QED  BY <1>1, <1>5, <1>6 DEF Looped, Round

\* A piece behind an orphan end, in its action: the loop finds nothing there.
LEMMA LoopAfterOrphan ==
  ASSUME NEW text, NEW n, NEW s, Round(text, n, s), ~(n < s.next), Templates!Mode(text)[n] # "text"
  PROVE  Looped(text, n + 1, Templates!Scan(text, s, n))
<1> DEFINE m == Templates!Mode(text)
<1>1. text \in Seq(Templates!Pieces) /\ n \in 1..Len(text) /\ s.next \in 1..(Len(text) + 1)
  BY DEF Round, Passing
<1>2. s.next < n
  <2>1. n # s.next
    BY DEF Round, Passing
  <2>. QED  BY <1>1, <2>1
<1>3. PICK i \in Ends(text) : i < n /\ \A j \in (i + 1)..n : m[j] # "text"
  BY <1>2 DEF Round, Passing, WithinEnd
<1>4. i \in 1..Len(text)
  BY <1>1, <1>3, SubsetsOfStarts
<1>5. text[n] \notin {"nl", "leftDelim"}
  <2>1. PlainAt(text, m, n)
    BY <1>1, PlainIs DEF Round
  <2>2. ~\E j \in (i + 1)..n : m[j] = "text"
    BY <1>3
  <2>3. i \in Templates!Actions(text, {"end"}) /\ i < n
    BY <1>3 DEF Ends
  <2>. QED  BY <2>1, <2>2, <2>3 DEF PlainAt
<1>6. Templates!Scan(text, s, n) = s
  BY <1>5, RoundSkips
<1>7. n \notin Templates!Starts(text)
  BY <1>1, <1>5, StartIs
<1>8. Told(text, n + 1, s) /\ Stacked(text, n + 1, s)
  BY <1>1, <1>7, NothingBegins DEF Round
<1>9. Passing(text, n + 1, s)
  <2>1. s.line = Templates!Line(text, n + 1)
    BY <1>1, <1>5, LinesCount DEF Round, Passing
  <2>2. \A j \in (n + 1)..(s.next - 1) : FALSE
    BY <1>1, <1>2
  <2>3. ~(n + 1 <= s.next)
    BY <1>1, <1>2
  <2>4. m[n + 1] # "text" => WithinEnd(text, n + 1)
    <3> SUFFICES ASSUME m[n + 1] # "text" PROVE WithinEnd(text, n + 1)
      OBVIOUS
    <3>1. \A j \in (i + 1)..(n + 1) : j = n + 1 \/ j \in (i + 1)..n
      BY <1>1, <1>4
    <3>2. \A j \in (i + 1)..(n + 1) : m[j] # "text"
      BY <1>3, <3>1
    <3>3. i < n + 1
      BY <1>1, <1>3, <1>4
    <3>. QED  BY <1>3, <3>2, <3>3 DEF WithinEnd
  <2>. QED  BY <1>1, <2>1, <2>2, <2>3, <2>4 DEF Passing
<1>. QED  BY <1>6, <1>8, <1>9 DEF Looped, Round

\* A piece of the text between actions.
LEMMA LoopInText ==
  ASSUME NEW text, NEW n, NEW s, Round(text, n, s), ~(n < s.next),
         Templates!Mode(text)[n] = "text", text[n] # "leftDelim"
  PROVE  Looped(text, n + 1, Templates!Scan(text, s, n))
<1> DEFINE m == Templates!Mode(text)
           t == Templates!Scan(text, s, n)
<1>1. /\ text \in Seq(Templates!Pieces) /\ n \in 1..Len(text) /\ s.next \in 1..(Len(text) + 1)
      /\ s.next <= n
  BY DEF Round, Passing
<1>2. Now(t, s.next, Templates!Line(text, n + 1), s.stack, s.found, FALSE)
  <2>1. s.line = Templates!Line(text, n) /\ Going(s, n) /\ s \in TStates /\ s.returned = FALSE
    BY DEF Round, Passing, Going, TStates
  <2>2. CASE text[n] = "nl"
    BY <1>1, <2>1, <2>2, RoundOfLine, LinesCount
  <2>3. CASE text[n] # "nl"
    <3>1. t = s
      BY <2>3, RoundSkips
    <3>2. s.line = Templates!Line(text, n + 1)
      BY <1>1, <2>1, <2>3, LinesCount
    <3>. QED  BY <2>1, <3>1, <3>2 DEF Now
  <2>. QED  BY <2>2, <2>3
<1> HIDE DEF t
<1>3. Told(text, n + 1, t) /\ Stacked(text, n + 1, t)
  <2>1. n \notin Templates!Starts(text)
    BY <1>1, StartIs
  <2>2. t.found = s.found /\ t.stack = s.stack
    BY <1>2 DEF Now
  <2>. QED  BY <1>1, <2>1, <2>2, NothingBegins DEF Round
<1>4. Passing(text, n + 1, t)
  <2>1. t.line = Templates!Line(text, n + 1) /\ t.next = s.next
    BY <1>2 DEF Now
  <2>2. m[n + 1] = "text"
    BY <1>1, StaysText
  <2>3. \A j \in (n + 1)..(t.next - 1) : FALSE
    BY <1>1, <2>1
  <2>4. ~(n + 1 <= t.next)
    BY <1>1, <2>1
  <2>. QED  BY <1>1, <2>1, <2>2, <2>3, <2>4 DEF Passing
<1>. QED  BY <1>2, <1>3, <1>4 DEF Looped, Now, t

\* An action without an end: no later action begins.
LEMMA LoopStops ==
  ASSUME NEW text, NEW n, NEW s, Round(text, n, s), ~(n < s.next), n \in Templates!Starts(text),
         Templates!ActionEnds(text, n + 1) = {}
  PROVE  Looped(text, n + 1, Templates!Scan(text, s, n))
<1> DEFINE m == Templates!Mode(text)
           t == Templates!Scan(text, s, n)
           mark == [rule |-> "unterminated", line |-> s.line]
<1>1. text \in Seq(Templates!Pieces) /\ n \in 1..Len(text) /\ text[n] = "leftDelim"
  BY StartIs DEF Round
<1>2. Now(t, s.next, s.line, s.stack, s.found \cup {mark}, TRUE)
  BY <1>1, RoundOfOpen DEF Round, Going
<1>3. \A j \in (n + 1)..(Len(text) + 1) : m[j] # "text"
  BY <1>1, ActionIs DEF Round
<1>4. \A i \in Templates!Starts(text) : i \in 1..n
  <2> SUFFICES ASSUME NEW i \in Templates!Starts(text), ~(i <= n) PROVE FALSE
    BY <1>1, SubsetsOfStarts
  <2>1. i \in 1..Len(text) /\ m[i] = "text"
    BY <1>1, StartIs
  <2>2. i \in (n + 1)..(Len(text) + 1)
    BY <1>1, <2>1
  <2>. QED  BY <1>3, <2>1, <2>2
<1>5. Templates!Open(text) = {n}
  <2>1. n \in Templates!Open(text)
    <3>1. \A j \in n..Len(text) : j + 1 \in (n + 1)..(Len(text) + 1)
      BY <1>1
    <3>. QED  BY <1>3, <3>1 DEF Templates!Open
  <2>2. ASSUME NEW o \in Templates!Open(text)
        PROVE  o = n
    <3>1. o >= n /\ o \in 1..n
      BY <1>1, <1>4, SubsetsOfStarts DEF Round, Told
    <3>. QED  BY <1>1, <3>1
  <2>. QED  BY <2>1, <2>2
<1>6. Templates!Orphans(text) \cap 1..(n - 1) = Templates!Orphans(text)
  <2> SUFFICES ASSUME NEW i \in Templates!Orphans(text) PROVE i \in 1..(n - 1)
    OBVIOUS
  <2>1. i \in Templates!Starts(text) /\ i # n
    BY <1>1, <1>5, SubsetsOfStarts
  <2>. QED  BY <1>1, <1>4, <2>1
<1>7. s.found = Templates!Findings(text, "orphan-end", Templates!Orphans(text))
  BY <1>6 DEF Round, Told
<1>8. {mark} = Templates!Findings(text, "unterminated", Templates!Open(text))
  <2>1. s.line = Templates!Line(text, n)
    BY DEF Round, Passing
  <2>. QED  BY <1>5, <2>1 DEF Templates!Findings
<1> HIDE DEF t, mark
<1>. QED  BY <1>2, <1>5, <1>7, <1>8 DEF Looped, Stopped, Now, t

-----------------------------------------------------------------------------
(* The rounds of an action that has its end, at e *)

Action(text, n, s, e) ==
  /\ Round(text, n, s) /\ ~(n < s.next) /\ n \in Templates!Starts(text)
  /\ Acts(text, s, n, e)

LEMMA ActionFacts ==
  ASSUME NEW text, NEW n, NEW s, NEW e, Action(text, n, s, e)
  PROVE  /\ text \in Seq(Templates!Pieces) /\ n \in 1..Len(text) /\ s.next \in 1..n
         /\ e \in (n + 1)..Len(text) /\ n < Len(text)
         /\ EndsAt(text, n, e)
         /\ n \notin Templates!Open(text)
         /\ s.line = Templates!Line(text, n) /\ s.line = Templates!Line(text, n + 1)
         /\ n \in Openers(text) <=> text[n + 1] \in Templates!blockOpeners
         /\ n \in Ends(text) <=> text[n + 1] = "end"
<1>1. /\ text \in Seq(Templates!Pieces) /\ n \in 1..Len(text) /\ s.next \in 1..(Len(text) + 1)
      /\ ~(n < s.next) /\ s.line = Templates!Line(text, n) /\ n \in Templates!Starts(text)
      /\ text[n] = "leftDelim"
  BY StartIs DEF Action, Round, Passing
<1>2. EndsAt(text, n, e)
  BY <1>1, ActionIs DEF Action, Round, Acts
<1>3. e \in (n + 1)..Len(text) /\ Templates!Mode(text)[e + 1] = "text"
  BY <1>2 DEF EndsAt
<1>4. n < Len(text) /\ e \in n..Len(text) /\ s.next \in 1..n
  BY <1>1, <1>3
<1>5. n \notin Templates!Open(text)
  BY <1>3, <1>4 DEF Templates!Open
<1>6. s.line = Templates!Line(text, n + 1)
  BY <1>1, LinesCount
<1>7. /\ n \in Openers(text) <=> text[n + 1] \in Templates!blockOpeners
      /\ n \in Ends(text) <=> text[n + 1] = "end"
  BY <1>1, <1>4, ActionsAre
<1>. QED  BY <1>1, <1>2, <1>3, <1>4, <1>5, <1>6, <1>7

\* The loop goes on behind the action.
LEMMA PassesAction ==
  ASSUME NEW text, NEW n, NEW s, NEW e, Action(text, n, s, e),
         NEW t, t.next = e + 1, t.line = s.line
  PROVE  Passing(text, n + 1, t)
<1>1. /\ text \in Seq(Templates!Pieces) /\ n \in 1..Len(text) /\ e \in (n + 1)..Len(text)
      /\ EndsAt(text, n, e) /\ s.line = Templates!Line(text, n + 1)
  BY ActionFacts
<1>2. /\ e + 1 \in 1..(Len(text) + 1) /\ (e + 1) - 1 = e /\ ~(e + 1 < n + 1)
  BY <1>1
<1>. QED  BY <1>1, <1>2 DEF Passing, EndsAt

\* Every action up to n has its end.
LEMMA OpensLater ==
  ASSUME NEW text, NEW n, NEW s, NEW e, Action(text, n, s, e)
  PROVE  \A o \in Templates!Open(text) : o >= n + 1
<1> SUFFICES ASSUME NEW o \in Templates!Open(text) PROVE o >= n + 1
  OBVIOUS
<1>1. text \in Seq(Templates!Pieces) /\ n \in 1..Len(text) /\ n \notin Templates!Open(text)
  BY ActionFacts
<1>2. o \in 1..Len(text) /\ o >= n
  BY <1>1, SubsetsOfStarts DEF Action, Round, Told
<1>. QED  BY <1>1, <1>2

\* When the action is not an orphan, nothing new is found.
LEMMA TellsNothing ==
  ASSUME NEW text, NEW n, NEW s, NEW e, Action(text, n, s, e), n \notin Templates!Orphans(text),
         NEW t, t.found = s.found
  PROVE  Told(text, n + 1, t)
<1>1. n \in Nat /\ (n + 1) - 1 = n
  BY ActionFacts
<1>2. Templates!Orphans(text) \cap 1..n = Templates!Orphans(text) \cap 1..(n - 1)
  BY <1>1
<1>3. s.found = Templates!Findings(text, "orphan-end", Templates!Orphans(text) \cap 1..(n - 1))
  BY DEF Action, Round, Told
<1>4. t.found = Templates!Findings(text, "orphan-end", Templates!Orphans(text) \cap 1..((n + 1) - 1))
  BY <1>1, <1>2, <1>3
<1>. QED  BY <1>4, OpensLater DEF Told

LEMMA LoopOpens ==
  ASSUME NEW text, NEW n, NEW s, NEW e, Action(text, n, s, e), n \in Openers(text)
  PROVE  Looped(text, n + 1, Templates!Scan(text, s, n))
<1> DEFINE t == Templates!Scan(text, s, n)
<1>1. /\ text \in Seq(Templates!Pieces) /\ n \in 1..Len(text)
      /\ s.line = Templates!Line(text, n) /\ text[n + 1] \in Templates!blockOpeners
  BY ActionFacts
<1>2. Now(t, e + 1, s.line, Append(s.stack, s.line), s.found, FALSE)
  BY <1>1, RoundOfOpener DEF Action
<1> HIDE DEF t
<1>3. n \notin Templates!Orphans(text)
  BY <1>1, ActionsAre, SubsetsOfStarts
<1>4. PICK P : /\ OpenBlocks(text, n - 1, P) /\ Len(s.stack) = Len(P)
               /\ \A x \in 1..Len(P) : s.stack[x] = Templates!Line(text, P[x])
  BY DEF Action, Round, Stacked
<1>5. OpenBlocks(text, n, Append(P, n))
  BY <1>1, <1>4, BlockOpened
<1>6. P \in Seq(Nat) /\ s.stack \in Seq(Nat) /\ s.line \in Nat /\ n \in Nat /\ (n + 1) - 1 = n
  BY <1>1, <1>4 DEF OpenBlocks, Action, Round, TStates
<1>7. /\ Len(Append(s.stack, s.line)) = Len(Append(P, n))
      /\ \A x \in 1..Len(Append(P, n)) : Append(s.stack, s.line)[x] = Templates!Line(text, Append(P, n)[x])
  <2>1. Len(Append(s.stack, s.line)) = Len(P) + 1 /\ Len(Append(P, n)) = Len(P) + 1
    BY <1>4, <1>6
  <2>2. /\ Append(s.stack, s.line)[Len(P) + 1] = s.line /\ Append(P, n)[Len(P) + 1] = n
        /\ \A x \in 1..Len(P) : Append(s.stack, s.line)[x] = s.stack[x] /\ Append(P, n)[x] = P[x]
    BY <1>4, <1>6
  <2>3. \A x \in 1..(Len(P) + 1) : x = Len(P) + 1 \/ x \in 1..Len(P)
    BY <1>6
  <2>. QED  BY <1>1, <1>4, <2>1, <2>2, <2>3
<1>8. t.stack = Append(s.stack, s.line)
  BY <1>2 DEF Now
<1>9. Stacked(text, n + 1, t)
  <2> DEFINE Q == Append(P, n)
  <2>1. /\ OpenBlocks(text, (n + 1) - 1, Q) /\ Len(t.stack) = Len(Q)
        /\ \A x \in 1..Len(Q) : t.stack[x] = Templates!Line(text, Q[x])
    BY <1>5, <1>6, <1>7, <1>8
  <2> HIDE DEF Q
  <2>. QED  BY <2>1 DEF Stacked
<1>10. Told(text, n + 1, t) /\ Passing(text, n + 1, t)
  BY <1>2, <1>3, TellsNothing, PassesAction DEF Now
<1>. QED  BY <1>2, <1>9, <1>10 DEF Looped, Now, t

LEMMA LoopCloses ==
  ASSUME NEW text, NEW n, NEW s, NEW e, Action(text, n, s, e), n \in Ends(text), s.stack # <<>>
  PROVE  Looped(text, n + 1, Templates!Scan(text, s, n))
<1> DEFINE t == Templates!Scan(text, s, n)
<1>1. text \in Seq(Templates!Pieces) /\ n \in 1..Len(text) /\ text[n + 1] = "end"
  BY ActionFacts
<1>2. Now(t, e + 1, s.line, Popped(s.stack), s.found, FALSE)
  BY <1>1, RoundOfEnd DEF Action
<1> HIDE DEF t
<1>4. PICK P : /\ OpenBlocks(text, n - 1, P) /\ Len(s.stack) = Len(P)
               /\ \A x \in 1..Len(P) : s.stack[x] = Templates!Line(text, P[x])
  BY DEF Action, Round, Stacked
<1>6. P \in Seq(Nat) /\ s.stack \in Seq(Nat) /\ (n + 1) - 1 = n /\ Len(s.stack) # 0 /\ Len(P) # 0
  BY <1>1, <1>4 DEF OpenBlocks, Action, Round, TStates
<1>5. OpenBlocks(text, n, Popped(P)) /\ n \notin Templates!Orphans(text)
  BY <1>1, <1>4, <1>6, BlockClosed DEF Popped
<1>7. /\ Len(Popped(s.stack)) = Len(Popped(P))
      /\ \A x \in 1..Len(Popped(P)) : Popped(s.stack)[x] = Templates!Line(text, Popped(P)[x])
  <2>1. /\ Len(Popped(P)) = Len(P) - 1 /\ \A x \in 1..(Len(P) - 1) : Popped(P)[x] = P[x]
    BY <1>6, PoppedIs
  <2>2. /\ Len(Popped(s.stack)) = Len(P) - 1
        /\ \A x \in 1..(Len(P) - 1) : Popped(s.stack)[x] = s.stack[x]
    BY <1>4, <1>6, PoppedIs
  <2>3. \A x \in 1..(Len(P) - 1) : x \in 1..Len(P)
    BY <1>6
  <2>. QED  BY <1>4, <2>1, <2>2, <2>3
<1>9. Stacked(text, n + 1, t)
  <2> DEFINE Q == Popped(P)
  <2>1. t.stack = Popped(s.stack)
    BY <1>2 DEF Now
  <2>2. /\ OpenBlocks(text, (n + 1) - 1, Q) /\ Len(t.stack) = Len(Q)
        /\ \A x \in 1..Len(Q) : t.stack[x] = Templates!Line(text, Q[x])
    BY <1>5, <1>6, <1>7, <2>1
  <2> HIDE DEF Q
  <2>. QED  BY <2>2 DEF Stacked
<1>10. Told(text, n + 1, t) /\ Passing(text, n + 1, t)
  BY <1>2, <1>5, TellsNothing, PassesAction DEF Now
<1>. QED  BY <1>2, <1>9, <1>10 DEF Looped, Now, t

LEMMA LoopOrphan ==
  ASSUME NEW text, NEW n, NEW s, NEW e, Action(text, n, s, e), n \in Ends(text), s.stack = <<>>
  PROVE  Looped(text, n + 1, Templates!Scan(text, s, n))
<1> DEFINE t == Templates!Scan(text, s, n)
           mark == [rule |-> "orphan-end", line |-> s.line]
<1>1. /\ text \in Seq(Templates!Pieces) /\ n \in 1..Len(text) /\ text[n + 1] = "end"
      /\ s.next \in 1..n /\ EndsAt(text, n, e) /\ e \in (n + 1)..Len(text)
      /\ s.line = Templates!Line(text, n) /\ s.line = Templates!Line(text, n + 1)
      /\ n \notin Templates!Open(text) /\ (n + 1) - 1 = n
  BY ActionFacts
<1>2. Now(t, s.next, s.line, s.stack, s.found \cup {mark}, FALSE)
  BY <1>1, RoundOfOrphan DEF Action
<1>4. PICK P : /\ OpenBlocks(text, n - 1, P) /\ Len(s.stack) = Len(P)
               /\ \A x \in 1..Len(P) : s.stack[x] = Templates!Line(text, P[x])
  BY DEF Action, Round, Stacked
<1>5. OpenBlocks(text, n, P) /\ n \in Templates!Orphans(text)
  <2>1. Len(P) = 0
    BY <1>4
  <2>. QED  BY <1>1, <1>4, <2>1, NothingToClose
<1>6. Stacked(text, n + 1, t)
  <2>1. t.stack = s.stack
    BY <1>2 DEF Now
  <2>. QED  BY <1>1, <1>4, <1>5, <2>1 DEF Stacked
<1>7. Told(text, n + 1, t)
  <2>1. Templates!Orphans(text) \cap 1..n = (Templates!Orphans(text) \cap 1..(n - 1)) \cup {n}
    BY <1>1, <1>5
  <2>2. s.found = Templates!Findings(text, "orphan-end", Templates!Orphans(text) \cap 1..(n - 1))
    BY DEF Action, Round, Told
  <2>3. s.found \cup {mark} = Templates!Findings(text, "orphan-end", Templates!Orphans(text) \cap 1..n)
    BY <1>1, <2>1, <2>2 DEF Templates!Findings
  <2> HIDE DEF mark, t
  <2>4. t.found = Templates!Findings(text, "orphan-end", Templates!Orphans(text) \cap 1..((n + 1) - 1))
    BY <1>1, <1>2, <2>3 DEF Now
  <2>. QED  BY <2>4, OpensLater DEF Told
<1> HIDE DEF t, mark
<1>8. Passing(text, n + 1, t)
  <2>1. t.next = s.next /\ t.line = s.line
    BY <1>2 DEF Now
  <2>2. WithinEnd(text, n + 1)
    <3>1. \A j \in (n + 1)..(n + 1) : Templates!Mode(text)[j] # "text"
      <4>1. n + 1 \in (n + 1)..e
        BY <1>1
      <4>. QED  BY <1>1, <4>1 DEF EndsAt
    <3>. QED  BY <1>1, <3>1 DEF WithinEnd
  <2>3. \A j \in (n + 1)..(s.next - 1) : FALSE
    BY <1>1
  <2>4. ~(n + 1 <= s.next) /\ s.next \in 1..(Len(text) + 1)
    BY <1>1
  <2>. QED  BY <1>1, <2>1, <2>2, <2>3, <2>4 DEF Passing
<1>. QED  BY <1>2, <1>6, <1>7, <1>8 DEF Looped, Now, t

LEMMA LoopOther ==
  ASSUME NEW text, NEW n, NEW s, NEW e, Action(text, n, s, e),
         n \notin Openers(text), n \notin Ends(text)
  PROVE  Looped(text, n + 1, Templates!Scan(text, s, n))
<1> DEFINE t == Templates!Scan(text, s, n)
<1>1. /\ text \in Seq(Templates!Pieces) /\ n \in 1..Len(text) /\ (n + 1) - 1 = n
      /\ text[n + 1] # "end" /\ text[n + 1] \notin Templates!blockOpeners
  BY ActionFacts
<1>2. Now(t, e + 1, s.line, s.stack, s.found, FALSE)
  BY <1>1, RoundOfOther DEF Action
<1> HIDE DEF t
<1>3. n \notin Templates!Orphans(text)
  BY <1>1, SubsetsOfStarts
<1>4. PICK P : /\ OpenBlocks(text, n - 1, P) /\ Len(s.stack) = Len(P)
               /\ \A x \in 1..Len(P) : s.stack[x] = Templates!Line(text, P[x])
  BY DEF Action, Round, Stacked
<1>5. OpenBlocks(text, n, P)
  BY <1>1, <1>4, BlocksKept
<1>6. Stacked(text, n + 1, t)
  <2>1. t.stack = s.stack
    BY <1>2 DEF Now
  <2>. QED  BY <1>1, <1>4, <1>5, <2>1 DEF Stacked
<1>7. Told(text, n + 1, t) /\ Passing(text, n + 1, t)
  BY <1>2, <1>3, TellsNothing, PassesAction DEF Now
<1>. QED  BY <1>2, <1>6, <1>7 DEF Looped, Now, t

\* So every round keeps what the loop holds.
LEMMA LoopStep ==
  ASSUME NEW text \in Seq(Templates!Pieces), Templates!Plain(text), NEW n \in 1..Len(text),
         NEW s, Looped(text, n, s)
  PROVE  Looped(text, n + 1, Templates!Scan(text, s, n))
<1>1. CASE s.returned
  <2>1. Templates!Scan(text, s, n) = s
    BY <1>1, RoundSkips
  <2>. QED  BY <1>1, <2>1 DEF Looped
<1>2. CASE ~s.returned
  <2>1. Round(text, n, s)
    BY <1>2 DEF Looped, Round
  <2>2. CASE n < s.next
    BY <2>1, <2>2, LoopPasses
  <2>3. CASE ~(n < s.next) /\ Templates!Mode(text)[n] # "text"
    BY <2>1, <2>3, LoopAfterOrphan
  <2>4. CASE ~(n < s.next) /\ Templates!Mode(text)[n] = "text" /\ text[n] # "leftDelim"
    BY <2>1, <2>4, LoopInText
  <2>5. CASE ~(n < s.next) /\ n \in Templates!Starts(text)
    <3>1. CASE Templates!ActionEnds(text, n + 1) = {}
      BY <2>1, <2>5, <3>1, LoopStops
    <3>2. CASE Templates!ActionEnds(text, n + 1) # {}
      <4> DEFINE E == Templates!ActionEnds(text, n + 1)
                 e == Templates!Min(E)
      <4>1. e \in Nat
        <5>1. E \in SUBSET Nat
          BY DEF Templates!ActionEnds
        <5> HIDE DEF E
        <5>2. E # {}
          BY <3>2 DEF E
        <5>. QED  BY <5>1, <5>2, Smallest
      <4>2. Action(text, n, s, e)
        <5>1. text[n] = "leftDelim"
          BY <2>5, StartIs
        <5>2. Going(s, n)
          BY <2>1, <2>5 DEF Round, Going
        <5>. QED  BY <2>1, <2>5, <3>2, <4>1, <5>1, <5>2 DEF Action, Acts
      <4> HIDE DEF E, e
      <4>3. CASE n \in Openers(text)
        BY <4>2, <4>3, LoopOpens
      <4>4. CASE n \in Ends(text) /\ s.stack = <<>>
        BY <4>2, <4>4, LoopOrphan
      <4>5. CASE n \in Ends(text) /\ s.stack # <<>>
        BY <4>2, <4>5, LoopCloses
      <4>6. CASE n \notin Openers(text) /\ n \notin Ends(text)
        BY <4>2, <4>6, LoopOther
      <4>. QED  BY <4>3, <4>4, <4>5, <4>6
    <3>. QED  BY <3>1, <3>2
  <2>. QED  BY <2>2, <2>3, <2>4, <2>5, StartIs
<1>. QED  BY <1>1, <1>2

\* What the scan of a plain text tells: the blocks without an end only when all
\* actions have one.
ScanTells(text) ==
  Templates!Findings(text, "orphan-end", Templates!Orphans(text))
    \cup IF Templates!Open(text) # {}
         THEN Templates!Findings(text, "unterminated", Templates!Open(text))
         ELSE Templates!Findings(text, "unclosed", Templates!Unclosed(text))

LEMMA TellsWhatIs ==
  ASSUME NEW text
  PROVE  /\ ScanTells(text) \subseteq Templates!Expected(text)
         /\ \A e \in Templates!Expected(text) \ ScanTells(text) :
              e.rule = "unclosed" /\ Templates!Open(text) # {}
<1>1. Templates!Findings(text, "unterminated", {}) = {}
  BY DEF Templates!Findings
<1>2. \A e \in Templates!Findings(text, "unclosed", Templates!Unclosed(text)) : e.rule = "unclosed"
  BY DEF Templates!Findings
<1>. QED  BY <1>1, <1>2 DEF ScanTells, Templates!Expected

LEMMA CheckFinds ==
  ASSUME NEW text \in Seq(Templates!Pieces), Templates!Plain(text)
  PROVE  Templates!checkFile(text) = ScanTells(text)
<1> DEFINE s == Templates!Scanning(text)
           L == Len(text)
           T == {n \in Nat : Looped(text, n, s[n - 1])}
<1>1. s[0] = Templates!Start /\ \A k \in 1..L : s[k] = Templates!Scan(text, s[k - 1], k)
  BY Rounds
<1>2. L \in Nat
  OBVIOUS
<1> HIDE DEF s
<1>3. Looped(text, 1, s[0])
  <2>1. Now(s[0], 1, 1, <<>>, {}, FALSE)
    <3>1. <<>> \in Seq(Nat) /\ {} \in SUBSET Marks
      OBVIOUS
    <3>. QED  BY <1>1, <3>1 DEF Templates!Start, Now, TStates
  <2>2. Passing(text, 1, s[0])
    <3>1. Templates!Line(text, 1) = 1
      <4>1. {j \in 1..(1 - 1) : text[j] = "nl"} = {}
        OBVIOUS
      <4>2. Templates!Cardinality({}) = 0
        BY SameCardinality, FS_EmptySet
      <4>. QED  BY <4>1, <4>2 DEF Templates!Line
    <3>2. Templates!Mode(text)[1] = "text"
      BY Modality
    <3>3. s[0].line = 1 /\ s[0].next = 1 /\ 1 \in 1..(Len(text) + 1) /\ \A j \in 1..(1 - 1) : FALSE
      BY <2>1 DEF Now
    <3>. QED  BY <3>1, <3>2, <3>3 DEF Passing
  <2>3. Told(text, 1, s[0])
    <3>1. \A o \in Templates!Open(text) : o >= 1
      BY SubsetsOfStarts
    <3>2. Templates!Orphans(text) \cap 1..(1 - 1) = {}
      OBVIOUS
    <3>. QED  BY <2>1, <3>1, <3>2 DEF Told, Now, Templates!Findings
  <2>4. Stacked(text, 1, s[0])
    <3> DEFINE P == <<>>
    <3>1. P \in Seq(Nat) /\ Len(P) = 0 /\ 1 - 1 = 0 /\ \A x \in 1..Len(P) : FALSE
      OBVIOUS
    <3>2. \A i \in Openers(text) : ~(i <= 0)
      BY SubsetsOfStarts
    <3>3. ASSUME NEW i \in 1..(0 + 1), NEW x \in 0..Len(P)
          PROVE  Net(text, i, 0) <= Len(P) - x
      <4>1. i = 0 + 1 /\ x = 0 /\ 0 \in Nat
        BY <3>1
      <4>2. Net(text, 0 + 1, 0) = 0
        BY <4>1, NetOfNone
      <4>. QED  BY <3>1, <4>1, <4>2
    <3> HIDE DEF P
    <3>4. OpenBlocks(text, 1 - 1, P)
      BY <3>1, <3>2, <3>3 DEF OpenBlocks
    <3>5. Len(s[0].stack) = Len(P)
      BY <2>1, <3>1 DEF Now
    <3>. QED  BY <3>1, <3>4, <3>5 DEF Stacked
  <2>. QED  BY <2>1, <2>2, <2>3, <2>4 DEF Looped, Now
<1>4. 1 \in T
  BY <1>3
<1>5. ASSUME NEW n \in 1..(L + 1), n \in T, n + 1 <= L + 1
      PROVE  n + 1 \in T
  <2>1. n \in 1..L /\ (n + 1) - 1 = n /\ n + 1 \in Nat
    BY <1>2, <1>5
  <2>2. Looped(text, n + 1, Templates!Scan(text, s[n - 1], n))
    BY <1>5, <2>1, LoopStep
  <2>. QED  BY <1>1, <2>1, <2>2
<1> HIDE DEF T
<1>6. 1..(L + 1) \subseteq T
  <2> DEFINE b == L + 1
  <2>1. 1 \in Nat /\ b \in Nat
    BY <1>2
  <2>2. \A n \in 1..b : n \in T /\ n + 1 <= b => n + 1 \in T
    BY <1>5
  <2> HIDE DEF b
  <2>3. 1..b \subseteq T
    BY <1>4, <2>1, <2>2, Along
  <2>. QED  BY <2>3 DEF b
<1>7. Looped(text, L + 1, s[L])
  <2>1. L + 1 \in T /\ (L + 1) - 1 = L
    BY <1>2, <1>6
  <2>. QED  BY <2>1 DEF T
<1>8. text # Templates!NoText
  <2>1. ASSUME text = Templates!NoText PROVE FALSE
    <3>1. Len(text) = 1 /\ text[1] = "unreadable"
      BY <2>1 DEF Templates!NoText
    <3>2. text[1] \in Templates!Pieces
      BY <3>1
    <3>. QED  BY <3>1, <3>2 DEF Templates!Pieces
  <2>. QED  BY <2>1
<1>9. CASE s[L].returned
  <2>1. Templates!checkFile(text) = s[L].found
    BY <1>8, <1>9 DEF Templates!checkFile, s, L
  <2>2. Stopped(text, s[L])
    BY <1>7, <1>9 DEF Looped
  <2>. QED  BY <2>1, <2>2 DEF Stopped, ScanTells
<1>10. CASE ~s[L].returned
  <2>1. Templates!checkFile(text)
          = s[L].found \cup {[rule |-> "unclosed", line |-> l] : l \in Templates!ToSet(s[L].stack)}
    BY <1>8, <1>10 DEF Templates!checkFile, s, L
  <2>2. Told(text, L + 1, s[L]) /\ Stacked(text, L + 1, s[L]) /\ s[L] \in TStates /\ (L + 1) - 1 = L
    BY <1>2, <1>7, <1>10 DEF Looped
  <2>3. Templates!Open(text) = {}
    <3> SUFFICES ASSUME NEW o \in Templates!Open(text) PROVE FALSE
      OBVIOUS
    <3>1. o >= L + 1 /\ o \in 1..L
      BY <2>2, SubsetsOfStarts DEF Told
    <3>. QED  BY <1>2, <3>1
  <2>4. s[L].found = Templates!Findings(text, "orphan-end", Templates!Orphans(text))
    <3>1. Templates!Orphans(text) \cap 1..L = Templates!Orphans(text)
      BY SubsetsOfStarts
    <3>. QED  BY <2>2, <3>1 DEF Told
  <2>5. PICK P : /\ OpenBlocks(text, L, P) /\ Len(s[L].stack) = Len(P)
                 /\ \A x \in 1..Len(P) : s[L].stack[x] = Templates!Line(text, P[x])
    BY <2>2 DEF Stacked
  <2>6. P \in Seq(Nat) /\ s[L].stack \in Seq(Nat)
    BY <2>2, <2>5 DEF OpenBlocks, TStates
  <2>7. ASSUME NEW x \in 1..Len(P)
        PROVE  P[x] \in Templates!Unclosed(text)
    <3>1. P[x] \in Openers(text) /\ \A j \in P[x]..L : Net(text, P[x], j) >= 1
      BY <2>5 DEF OpenBlocks
    <3>2. P[x] \in 1..L
      BY <3>1, SubsetsOfStarts
    <3>3. ASSUME NEW j \in Ends(text), P[x] < j
          PROVE  ~Templates!Balanced(text, P[x], j)
      <4>1. j \in 1..L /\ j \in P[x]..L
        BY <3>2, <3>3, SubsetsOfStarts
      <4>2. Net(text, P[x], j) >= 1 /\ j \in Nat /\ P[x] \in Nat /\ P[x] <= j /\ j # 0
        BY <3>1, <3>2, <4>1
      <4>3. Net(text, P[x], j) # 0
        BY <4>2
      <4>. QED  BY <4>2, <4>3, BalancedIs
    <3>. QED  BY <2>3, <3>1, <3>3 DEF Templates!Unclosed, Openers, Ends
  <2>8. ASSUME NEW i \in Templates!Unclosed(text)
        PROVE  \E x \in 1..Len(P) : P[x] = i
    <3> SUFFICES ASSUME \A x \in 1..Len(P) : P[x] # i PROVE FALSE
      OBVIOUS
    <3>1. i \in Openers(text) /\ i \in 1..L
      <4>1. i \in Openers(text)
        BY DEF Templates!Unclosed, Openers
      <4>. QED  BY <4>1, SubsetsOfStarts
    <3>2. i <= L
      BY <3>1
    <3>3. PICK j \in Ends(text) : i < j /\ j <= L /\ Net(text, i, j) = 0
      BY <2>5, <3>1, <3>2 DEF OpenBlocks
    <3>4. j \in 1..L
      BY SubsetsOfStarts
    <3>5. Templates!Balanced(text, i, j)
      BY <3>1, <3>3, <3>4, BalancedIs
    <3>. QED  BY <2>3, <3>3, <3>5 DEF Templates!Unclosed, Ends
  <2>9. {[rule |-> "unclosed", line |-> l] : l \in Templates!ToSet(s[L].stack)}
          = Templates!Findings(text, "unclosed", Templates!Unclosed(text))
    <3>1. Templates!ToSet(s[L].stack) = {Templates!Line(text, i) : i \in Templates!Unclosed(text)}
      <4>1. Templates!ToSet(s[L].stack) = {s[L].stack[x] : x \in 1..Len(P)}
        BY <2>5, <2>6 DEF Templates!ToSet
      <4>. QED  BY <2>5, <2>7, <2>8, <4>1
    <3>. QED  BY <3>1 DEF Templates!Findings
  <2>. QED  BY <2>1, <2>3, <2>4, <2>9 DEF ScanTells
<1>. QED  BY <1>9, <1>10

-----------------------------------------------------------------------------
\* The findings of a chart, file by file.
LEMMA FileFindings ==
  ASSUME NEW chart \in Charts, chart.walked, NEW f \in DOMAIN chart.files
  PROVE  /\ chart.files[f] # Templates!NoText /\ Templates!Plain(chart.files[f]) =>
              {[rule |-> v.rule, line |-> v.line] : v \in {w \in Templates!Violations(chart) : w.file = f}}
                = ScanTells(chart.files[f])
         /\ chart.files[f] = Templates!NoText => Templates!Violations(chart) # {}
<1> DEFINE text == chart.files[f]
           V == Templates!Violations(chart)
           Of(g) == {[file |-> g, rule |-> v.rule, line |-> v.line] : v \in Templates!checkFile(chart.files[g])}
<1>1. V = UNION {Of(g) : g \in DOMAIN chart.files}
  BY DEF Templates!Violations
<1>2. {w \in V : w.file = f} = Of(f)
  <2>1. ASSUME NEW g, NEW w \in Of(g)
        PROVE  w.file = g
    <3> DEFINE C == Templates!checkFile(chart.files[g])
    <3> HIDE DEF C
    <3>1. w \in {[file |-> g, rule |-> v.rule, line |-> v.line] : v \in C}
      BY Zenon DEF C
    <3>. QED  BY <3>1
  <2> HIDE DEF Of, V
  <2>. QED  BY <1>1, <2>1
<1>3. ASSUME text # Templates!NoText, Templates!Plain(text)
      PROVE  {[rule |-> v.rule, line |-> v.line] : v \in Of(f)} = ScanTells(text)
  <2>1. text \in Seq(Templates!Pieces)
    <3>1. chart.files \in Seq(Seq(Templates!Pieces) \cup {Templates!NoText})
      BY GitopsctlAssumption
    <3>2. text \in Seq(Templates!Pieces) \cup {Templates!NoText}
      BY <3>1
    <3>. QED  BY <1>3, <3>2
  <2>2. Templates!checkFile(text) = ScanTells(text)
    BY <1>3, <2>1, CheckFinds
  <2>3. \A v \in ScanTells(text) : v = [rule |-> v.rule, line |-> v.line]
    BY DEF ScanTells, Templates!Findings
  <2>4. Of(f) = {[file |-> f, rule |-> v.rule, line |-> v.line] : v \in ScanTells(text)}
    BY <2>2
  <2> DEFINE X == ScanTells(text)
  <2> HIDE DEF X
  <2>5. \A v \in X : v = [rule |-> v.rule, line |-> v.line]
    BY <2>3 DEF X
  <2> DEFINE Y == {[file |-> f, rule |-> v.rule, line |-> v.line] : v \in X}
  <2>6. ASSUME NEW w \in Y
        PROVE  [rule |-> w.rule, line |-> w.line] \in X
    <3>1. PICK v \in X : w = [file |-> f, rule |-> v.rule, line |-> v.line]
      OBVIOUS
    <3>2. w.rule = v.rule /\ w.line = v.line
      BY <3>1
    <3>. QED  BY <2>5, <3>2
  <2>7. ASSUME NEW v \in X
        PROVE  \E w \in Y : [rule |-> w.rule, line |-> w.line] = v
    <3> DEFINE w == [file |-> f, rule |-> v.rule, line |-> v.line]
    <3>1. w \in Y
      OBVIOUS
    <3>2. [rule |-> w.rule, line |-> w.line] = v
      BY <2>5
    <3> HIDE DEF w, Y
    <3>. QED  BY <3>1, <3>2
  <2> HIDE DEF Y
  <2>8. {[rule |-> w.rule, line |-> w.line] : w \in Y} = X
    BY <2>6, <2>7
  <2>. QED  BY <2>4, <2>8 DEF X, Y
<1>4. ASSUME text = Templates!NoText
      PROVE  V # {}
  <2>1. Templates!checkFile(text) = {[rule |-> "read", line |-> 0]}
    BY <1>4 DEF Templates!checkFile
  <2>2. Of(f) # {}
    BY <2>1
  <2> HIDE DEF Of, V
  <2>. QED  BY <1>1, <2>2
<1> HIDE DEF Of, V
<1>. QED  BY <1>2, <1>3, <1>4 DEF V

\* A finished lint of a chart has found its violations, and has told by its
\* exit code whether there are any.
Checked ==
  /\ cmd.words = <<"chart", "templates">> /\ phase = "start" /\ Parsed.outcome = "ok" /\ ~Refused
       => input \in Charts
  /\ cmd.words = <<"chart", "templates">> /\ Finished =>
       /\ input \in Charts /\ found = Templates!Violations(input)
       /\ code = "0" => found = {}

LEMMA ChartWords ==
  LET w == <<"chart", "templates">>
  IN  /\ w # <<"boot">> /\ w # <<"install">> /\ w # <<"validate", "litellm-config">>
      /\ w # <<"codegraph", "index">> /\ w # <<"mcp", "prewarm">> /\ w # <<"mcp", "verify">>
      /\ w # <<"deps", "status">> /\ w # <<"deps", "install">>
  OBVIOUS

LEMMA CheckedStep == Checked /\ Passed /\ [Next]_vars => Checked'
<1> SUFFICES ASSUME Checked, Passed, [Next]_vars
             PROVE  Checked'
  OBVIOUS
<1>1. CASE Usage \/ Help
  BY <1>1 DEF Usage, Help, Exits, Checked, Finished
<1>2. CASE ChartTemplates
  <2>1. /\ cmd.words = <<"chart", "templates">> /\ input \in Charts /\ input' = input
        /\ phase' = "exited"
    BY <1>2 DEF ChartTemplates, Verdict, Exits, Runs, Is, Checked
  <2>2. found' = Templates!Violations(input) /\ (code' = "0" => found' = {})
    BY <1>2 DEF ChartTemplates, Verdict, Exits
  <2>. QED  BY <2>1, <2>2 DEF Checked
<1>3. CASE LitellmConfig \/ ValidateManifest \/ Delegate \/ CodegraphIndex \/ DepsStatus
              \/ InstallDeps
  <2>1. cmd' = cmd /\ cmd.words # <<"chart", "templates">>
    BY <1>3, ChartWords DEF LitellmConfig, ValidateManifest, Delegate, CodegraphIndex, DepsStatus,
                            InstallDeps, Validates, Runs, Is
  <2>. QED  BY <2>1 DEF Checked
<1>4. CASE Install
  <2>1. cmd' = cmd /\ cmd.words = <<"install">>
    BY <1>4 DEF Passed, Install, OpenDest, Copy, Close, Chmod, InstallFails, Restart, installing,
                Runs, Is
  <2>. QED  BY <2>1, ChartWords DEF Checked
<1>5. CASE UNCHANGED vars
  BY <1>5 DEF vars, Checked, Finished, Parsed, Refused
<1>. QED  BY <1>1, <1>2, <1>3, <1>4, <1>5 DEF Next

\* The lint of the templates names the structural errors of every file, each at
\* its line, and nothing else, in charts of any number of files of any length
\* (templates.go:63-184), for the texts that Plain describes; only the open
\* blocks of a file with an action that has no end may be left out.
THEOREM TemplatesAreExact == Spec => []TemplatesExact
<1>1. Init => Checked
  <2> SUFFICES ASSUME Init PROVE Checked
    OBVIOUS
  <2>1. phase = "start"
    BY DEF Init
  <2>2. ASSUME cmd.words = <<"chart", "templates">>, Parsed.outcome = "ok", ~Refused
        PROVE  input \in Charts
    <3>1. Runs(<<"chart", "templates">>)
      BY <2>1, <2>2 DEF Runs, Is
    <3>2. ~Runs(<<"validate", "litellm-config">>) /\ ~Validates
      BY <2>2, ChartWords DEF Validates, Runs, Is
    <3>. QED  BY <3>1, <3>2 DEF Init
  <2>. QED  BY <2>1, <2>2 DEF Checked, Finished
<1>2. Checked => TemplatesExact
  <2> SUFFICES ASSUME Checked, cmd.words = <<"chart", "templates">>, Finished, input.walked
               PROVE  TemplatesExact
    BY DEF TemplatesExact
  <2>1. input \in Charts /\ found = Templates!Violations(input) /\ (code = "0" => found = {})
    BY DEF Checked
  <2>2. ASSUME NEW f \in DOMAIN input.files, input.files[f] # Templates!NoText,
               Templates!Plain(input.files[f])
        PROVE  LET told == {[rule |-> v.rule, line |-> v.line] : v \in {w \in found : w.file = f}}
               IN  /\ told \subseteq Templates!Expected(input.files[f])
                   /\ \A e \in Templates!Expected(input.files[f]) \ told :
                        e.rule = "unclosed" /\ Templates!Open(input.files[f]) # {}
    <3>1. {[rule |-> v.rule, line |-> v.line] : v \in {w \in found : w.file = f}}
            = ScanTells(input.files[f])
      BY <2>1, <2>2, FileFindings
    <3>. QED  BY <3>1, TellsWhatIs
  <2>3. \A f \in DOMAIN input.files : code = "0" => input.files[f] # Templates!NoText
    BY <2>1, FileFindings
  <2>. QED  BY <2>2, <2>3 DEF TemplatesExact
<1>. QED  BY <1>1, <1>2, CheckedStep, PassedInit, PassedStep, PTL DEF Spec
=============================================================================
