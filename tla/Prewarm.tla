------------------------------ MODULE Prewarm ------------------------------
(***************************************************************************)
(* `gitopsctl mcp prewarm` over the life of a volume (internal/mcp/        *)
(* prewarm.go): each boot materialises the npm servers concurrently under  *)
(* a semaphore, then the uv servers and the deno servers one by one, and   *)
(* reports whether any failed.  The caches and their markers survive from  *)
(* one boot to the next; the pins of the manifest may differ between       *)
(* boots; the pod may be killed at any step.                               *)
(***************************************************************************)
EXTENDS Integers, FiniteSets

CONSTANTS
  Npm, Uv, Deno,  \* the stdio servers by launcher
  Caches,         \* npm cache directories
  CacheOf,        \* NPMCacheFor: the cache of each npm server
  Specs,          \* package specs a manifest may pin
  NoSpec,         \* no (or an empty) marker file
  Parallel,       \* slots of the semaphore
  MaxBoots        \* bound on the number of boots

\* Each npm server has a cache of its own: rule 7 of the manifest's static
\* validation (validate.go:149-165).
ASSUME PrewarmAssumption ==
  /\ IsFiniteSet(Npm) /\ IsFiniteSet(Uv) /\ IsFiniteSet(Deno)
  /\ Npm \cap Uv = {} /\ Npm \cap Deno = {} /\ Uv \cap Deno = {}
  /\ CacheOf \in [Npm -> Caches]
  /\ \A s, t \in Npm : CacheOf[s] = CacheOf[t] => s = t
  /\ NoSpec \notin Specs
  /\ Parallel \in Nat \ {0} /\ MaxBoots \in Nat

Servers == Npm \cup Uv \cup Deno

\* What _npx holds: no directory, or the tree of one spec, whole or torn.
Absent      == [spec |-> NoSpec, whole |-> FALSE]
Whole(spec) == [spec |-> spec, whole |-> TRUE]
Torn(spec)  == [spec |-> spec, whole |-> FALSE]

VARIABLES
  marker,     \* .mcp-prewarm: the spec the cache is said to hold
  npx,        \* what its _npx directory holds
  graph,      \* per deno server, its dependency cache: "cold", "torn", "whole"
  pins,       \* the manifest of this boot: the spec of each npm server
  phase,      \* where Prewarm is; "off" before the boot and after a crash
  pc,         \* where the job of each server is
  ok,         \* what the job of each server returned
  collected,  \* the npm servers whose result was received from done
  failures,   \* count of failed jobs
  exit,       \* what Prewarm returned in this boot
  boots,      \* boots so far
  replaced    \* history: the caches whose marked tree was removed, or is being
              \* removed, for another spec that has not been installed since

disk == <<marker, npx, graph>>
vars == <<disk, pins, phase, pc, ok, collected, failures, exit, boots, replaced>>

Init ==
  /\ marker = [c \in Caches |-> NoSpec]
  /\ npx = [c \in Caches |-> Absent]
  /\ graph = [s \in Deno |-> "cold"]
  /\ pins \in [Npm -> Specs]
  /\ phase = "off"
  /\ pc = [s \in Servers |-> "queued"]
  /\ ok = [s \in Servers |-> "none"]
  /\ collected = {} /\ failures = 0 /\ exit = "none" /\ boots = 0
  /\ replaced = {}

\* A job holds a slot from the send on sem to the deferred receive, which
\* comes after its result was sent.
Holding == {s \in Npm : pc[s] \notin {"queued", "released"}}
Sent    == {s \in Npm : pc[s] \in {"sent", "released"}}
Running == {s \in Servers : pc[s] \in {"install", "cache", "reload"}}

-----------------------------------------------------------------------------
\* A boot, with whatever the manifest pins by then.  When the manifest cannot
\* be loaded, Prewarm returns at once ("skipped": its return value is 0 too).
Boot ==
  /\ phase = "off" /\ boots < MaxBoots
  /\ boots' = boots + 1
  /\ pins' \in [Npm -> Specs]
  /\ \/ phase' = "sweep" /\ exit' = "none"
     \/ phase' = "off" /\ exit' = "skipped"
  /\ pc' = [s \in Servers |-> "queued"]
  /\ ok' = [s \in Servers |-> "none"]
  /\ collected' = {} /\ failures' = 0
  /\ UNCHANGED <<disk, replaced>>

\* sweepOrphans, before the jobs and after them.
Sweep ==
  /\ \/ phase = "sweep" /\ phase' = "npm" /\ UNCHANGED exit
     \/ phase = "resweep" /\ phase' = "off"
        /\ exit' = IF failures > 0 THEN "1" ELSE "0"
  /\ UNCHANGED <<disk, pins, pc, ok, collected, failures, boots, replaced>>

-----------------------------------------------------------------------------
(* materialiseNPM *)

job(s, from, to) == phase # "off" /\ pc[s] = from /\ pc' = [pc EXCEPT ![s] = to]
frame == <<pins, phase, collected, failures, exit, boots>>

Acquire(s) ==
  /\ phase = "npm" /\ Cardinality(Holding) < Parallel
  /\ job(s, "queued", "check")
  /\ UNCHANGED <<disk, frame, ok, replaced>>

Return(s, from, result) ==
  /\ job(s, from, "sent")
  /\ ok' = [ok EXCEPT ![s] = result]

Warm(s) == marker[CacheOf[s]] = pins[s] /\ npx[CacheOf[s]] # Absent

CheckWarm(s) ==
  /\ \/ Warm(s) /\ Return(s, "check", "yes") /\ UNCHANGED replaced
     \/ /\ ~Warm(s) /\ job(s, "check", "remove") /\ UNCHANGED ok
        /\ replaced' = IF marker[CacheOf[s]] = pins[s] THEN replaced
                       ELSE replaced \cup {CacheOf[s]}
  /\ UNCHANGED <<disk, frame>>

\* RemoveAll goes through the tree file by file, and its error is ignored; then
\* MkdirAll, which may fail.
Remove(s) ==
  /\ \/ /\ npx[CacheOf[s]] # Absent
        /\ job(s, "remove", "remove")
        /\ npx' = [npx EXCEPT ![CacheOf[s]] = Torn(@.spec)]
        /\ UNCHANGED ok
     \/ /\ \E left \in {npx[CacheOf[s]], Absent} : npx' = [npx EXCEPT ![CacheOf[s]] = left]
        /\ \/ job(s, "remove", "install") /\ UNCHANGED ok
           \/ Return(s, "remove", "no")
  /\ UNCHANGED <<marker, graph, frame, replaced>>

\* npm fills _npx, and leaves whatever it got to when it fails or its group is
\* killed at the bound; at worst it had just finished.
NpmProgress(s) ==
  /\ job(s, "install", "install")
  /\ npx' = [npx EXCEPT ![CacheOf[s]] = Torn(pins[s])]
  /\ UNCHANGED <<marker, graph, frame, ok, replaced>>

NpmSucceeds(s) ==
  /\ job(s, "install", "mark")
  /\ npx' = [npx EXCEPT ![CacheOf[s]] = Whole(pins[s])]
  /\ UNCHANGED <<marker, graph, frame, ok, replaced>>

\* Mutant: the exit code is not looked at.
NpmFailsIgnored(s) ==
  /\ job(s, "install", "mark")
  /\ UNCHANGED <<disk, frame, ok, replaced>>

NpmFails(s) ==
  /\ Return(s, "install", "no")
  /\ \E left \in {npx[CacheOf[s]], Whole(pins[s])} : npx' = [npx EXCEPT ![CacheOf[s]] = left]
  /\ UNCHANGED <<marker, graph, frame, replaced>>

\* WriteFile truncates the marker and then writes it; either may fail, the
\* first also so that the old marker stays.
Mark(s) ==
  /\ \/ /\ job(s, "mark", "write") /\ UNCHANGED ok
        /\ marker' = [marker EXCEPT ![CacheOf[s]] = NoSpec]
     \/ Return(s, "mark", "no") /\ UNCHANGED marker
  /\ UNCHANGED <<npx, graph, frame, replaced>>

Write(s) ==
  /\ \/ /\ Return(s, "write", "yes")
        /\ marker' = [marker EXCEPT ![CacheOf[s]] = pins[s]]
        /\ replaced' = replaced \ {CacheOf[s]}
     \/ Return(s, "write", "no") /\ UNCHANGED <<marker, replaced>>
  /\ UNCHANGED <<npx, graph, frame>>

\* Mutant: a job that failed keeps its slot.
ReleaseIfOk(s) ==
  /\ ok[s] = "yes"
  /\ job(s, "sent", "released")
  /\ UNCHANGED <<disk, frame, ok, replaced>>

Release(s) ==
  /\ job(s, "sent", "released")
  /\ UNCHANGED <<disk, frame, ok, replaced>>

\* Prewarm receives one result per npm job, in the order they were sent.
Collect(s) ==
  /\ phase = "npm" /\ s \in Sent \ collected
  /\ collected' = collected \cup {s}
  /\ failures' = IF ok[s] = "yes" THEN failures ELSE failures + 1
  /\ UNCHANGED <<disk, pins, phase, pc, ok, exit, boots, replaced>>

\* Mutant: the loop is left one result early.
CollectedEarly == Cardinality(collected) + 1 >= Cardinality(Npm)
CollectedAll == collected = Npm

-----------------------------------------------------------------------------
(* materialiseUV and materialiseDeno, one server at a time *)

Finished(S) == \A s \in S : pc[s] = "done"
Idle        == Running \cap (Uv \cup Deno) = {}

NextStage ==
  /\ \/ phase = "npm" /\ CollectedAll /\ phase' = "uv"
     \/ phase = "uv" /\ Finished(Uv) /\ phase' = "deno"
     \/ phase = "deno" /\ Finished(Deno) /\ phase' = "resweep"
  /\ UNCHANGED <<disk, pins, pc, ok, collected, failures, exit, boots, replaced>>

StartSerial(s) ==
  /\ Idle
  /\ \/ phase = "uv" /\ s \in Uv /\ job(s, "queued", "install")
     \/ phase = "deno" /\ s \in Deno /\ job(s, "queued", "cache")
  /\ UNCHANGED <<disk, frame, ok, replaced>>

\* Mutant: the failures of the uv and deno jobs are logged but not counted.
DoneUncounted(s, from, result) ==
  /\ job(s, from, "done")
  /\ ok' = [ok EXCEPT ![s] = result]
  /\ UNCHANGED <<marker, npx, pins, phase, collected, failures, exit, boots, replaced>>

Done(s, from, result) ==
  /\ job(s, from, "done")
  /\ ok' = [ok EXCEPT ![s] = result]
  /\ failures' = IF result = "yes" THEN failures ELSE failures + 1
  /\ UNCHANGED <<marker, npx, pins, phase, collected, exit, boots, replaced>>

UvEnds(s) ==
  /\ s \in Uv
  /\ \E result \in {"yes", "no"} : Done(s, "install", result)
  /\ UNCHANGED graph

\* What deno has not had before, or replaces, is torn until it is done.
DenoProgress(s) ==
  /\ phase = "deno"
  /\ \/ pc[s] = "cache" /\ graph[s] = "cold"
     \/ pc[s] = "reload"
  /\ graph' = [graph EXCEPT ![s] = "torn"]
  /\ UNCHANGED <<marker, npx, frame, pc, ok, replaced>>

\* deno cache, which a poisoned cache makes fail.
DenoCaches(s) ==
  \/ /\ graph[s] # "torn" /\ Done(s, "cache", "yes")
     /\ graph' = [graph EXCEPT ![s] = "whole"]
  \/ /\ job(s, "cache", "reload")
     /\ UNCHANGED <<disk, frame, ok, replaced>>

\* Mutant: the second attempt's exit code is not looked at.
DenoReloadsIgnored(s) ==
  \/ Done(s, "reload", "yes") /\ graph' = [graph EXCEPT ![s] = "whole"]
  \/ Done(s, "reload", "yes") /\ UNCHANGED graph

\* deno cache --reload, which replaces whatever is there.
DenoReloads(s) ==
  \/ Done(s, "reload", "yes") /\ graph' = [graph EXCEPT ![s] = "whole"]
  \/ Done(s, "reload", "no") /\ UNCHANGED graph

-----------------------------------------------------------------------------
\* The pod is killed; its processes die with it.
Crash ==
  /\ phase # "off"
  /\ phase' = "off"
  /\ UNCHANGED <<disk, pins, pc, ok, collected, failures, exit, boots, replaced>>

NpmJob(s) ==
  \/ Acquire(s) \/ CheckWarm(s) \/ Remove(s) \/ NpmProgress(s) \/ NpmSucceeds(s)
  \/ NpmFails(s) \/ Mark(s) \/ Write(s) \/ Release(s) \/ Collect(s)

Next ==
  \/ Boot \/ Sweep \/ NextStage \/ Crash
  \/ \E s \in Npm : NpmJob(s)
  \/ \E s \in Uv \cup Deno : StartSerial(s)
  \/ \E s \in Uv : UvEnds(s)
  \/ \E s \in Deno : DenoProgress(s) \/ DenoCaches(s) \/ DenoReloads(s)

Spec == Init /\ [][Next]_vars

\* Every command ends: runBounded kills its group at the bound.  The manifest
\* and the kubelet owe nothing.
FairSpec ==
  /\ Spec
  /\ WF_vars(Sweep) /\ WF_vars(NextStage)
  /\ \A s \in Npm : WF_vars(NpmJob(s))
  /\ WF_vars(\E s \in Uv \cup Deno : StartSerial(s))
  /\ \A s \in Uv : WF_vars(UvEnds(s))
  /\ \A s \in Deno : WF_vars(DenoCaches(s) \/ DenoReloads(s))

-----------------------------------------------------------------------------
\* What the volume can hold.
DiskTypes ==
  /\ marker \in [Caches -> Specs \cup {NoSpec}]
  /\ npx \in [Caches -> [spec : Specs \cup {NoSpec}, whole : BOOLEAN]]
  /\ graph \in [Deno -> {"cold", "torn", "whole"}]
  /\ replaced \in SUBSET Caches

\* The manifest and the jobs of a boot.
JobTypes ==
  /\ pins \in [Npm -> Specs]
  /\ pc \in [Servers -> {"queued", "check", "remove", "install", "mark", "write",
                          "sent", "released", "cache", "reload", "done"}]
  /\ ok \in [Servers -> {"none", "yes", "no"}]

\* A marker tells the truth across crashes, failed installs and pin changes:
\* the cache holds the marked spec whole, unless the installation of another
\* spec has begun over it and not been completed (prewarm.go:137-165).
MarkerSound ==
  \A c \in Caches :
    marker[c] # NoSpec /\ c \notin replaced => npx[c] = Whole(marker[c])

\* A server reported as materialised is: its npm cache holds the spec pinned
\* now, or its deno graph is whole.  The exception is a cache whose marked tree
\* an unfinished installation has replaced (prewarm.go:137-210).
ReportTrue ==
  /\ \A s \in Npm : ok[s] = "yes" =>
       npx[CacheOf[s]] = Whole(pins[s]) \/ CacheOf[s] \in replaced
  /\ \A s \in Deno : ok[s] = "yes" => graph[s] = "whole"

\* The sweep kills leftovers of other boots and never a job of this one: no job
\* is under way while it runs ("sweep BEFORE materialising so we never touch
\* our own children", prewarm.go:317-322 and 353).
SweepSparesOwn == phase \in {"sweep", "resweep"} => Running = {}

\* Prewarm returns 0 exactly when every server of the manifest was reported as
\* materialised: no result is lost in the channel or counted twice
\* (prewarm.go:326-362).
ExitCountsAll ==
  /\ exit = "0" => \A s \in Servers : ok[s] = "yes"
  /\ exit = "1" => \E s \in Servers : ok[s] = "no"

\* A boot's pre-warm never hangs: it ends, or the pod is killed.
PrewarmEnds == phase = "sweep" ~> phase = "off"

\* "Prewarm materialises the npx/uvx package caches at boot [...].  Returns 1
\* when packages failed to materialise" (prewarm.go:273-274): after a 0 every
\* npm cache holds the spec pinned now.
ZeroMeansWarm ==
  exit = "0" => \A s \in Npm : npx[CacheOf[s]] = Whole(pins[s])

-----------------------------------------------------------------------------
(***************************************************************************)
(* The inductive invariant the proofs use.                                 *)
(***************************************************************************)

\* An npm job past its check works on a tree no marker vouches for; past its
\* installation, on the whole tree of its own pin.
NpmJobsSound ==
  \A s \in Npm :
    /\ pc[s] \in {"remove", "install", "mark"} =>
         CacheOf[s] \in replaced \/ marker[CacheOf[s]] = NoSpec
    /\ pc[s] \in {"mark", "write"} => npx[CacheOf[s]] = Whole(pins[s])
    /\ pc[s] = "write" => marker[CacheOf[s]] = NoSpec
    /\ ok[s] = "yes" => pc[s] \in {"sent", "released"}

\* A deno job has its result only at its end.
DenoJobsSound == \A s \in Deno : ok[s] = "yes" => pc[s] = "done"

\* What the caches hold and the jobs say of them.
Sound == DiskTypes /\ JobTypes /\ MarkerSound /\ ReportTrue /\ NpmJobsSound /\ DenoJobsSound

\* The jobs whose result Prewarm has counted.
Counted == collected \cup {s \in Uv \cup Deno : pc[s] = "done"}

\* The count of failures against the results of the jobs.
Accounts ==
  /\ failures \in Nat
  /\ failures = 0 => \A s \in Counted : ok[s] = "yes"
  /\ failures > 0 => \E s \in Counted : ok[s] = "no"
  /\ collected \subseteq Sent
  /\ \A s \in Sent \cup Counted : ok[s] \in {"yes", "no"}

\* The stages of a boot come one after the other.
Stages ==
  /\ phase = "sweep" => \A s \in Servers : pc[s] = "queued"
  /\ phase \in {"uv", "deno", "resweep"} => collected = Npm
  /\ phase \in {"deno", "resweep"} => Finished(Uv)
  /\ phase = "resweep" => Finished(Deno)
  /\ exit \in {"0", "1"} => phase = "off"

Inv == Sound /\ Accounts /\ Stages /\ ExitCountsAll
=============================================================================
