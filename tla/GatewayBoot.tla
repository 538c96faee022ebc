---------------------------- MODULE GatewayBoot ----------------------------
(***************************************************************************)
(* `gitopsctl boot` over the life of the gateway's volume                  *)
(* (internal/boot/boot.go): mise and its shims, the direct downloads, the  *)
(* MCP pre-warm (seen from outside; Prewarm has the inside), the codegraph *)
(* indexes, the ownership walks and the handover to hermes.  Downloads and *)
(* indexes run concurrently under slots.  The pod may be killed at any     *)
(* step, and another release of gitopsctl may run the next boot.           *)
(***************************************************************************)
EXTENDS Integers, FiniteSets

CONSTANTS
  Tarballs,   \* tools extracted from a release tarball into binDir
  Pinned,     \* those of them whose URL names a release; doppler's does not
  Deno,       \* deno: a zip, a directory of its own, a link in binDir
  Reach,      \* agent-reach: installed by uv
  Shimmed,    \* the tools among these that mise ships too
  Repos,      \* git repositories under reposDir
  Trees,      \* the other walked trees
  Cache,      \* the tree among them that holds codegraph's npm cache
  Releases,   \* releases a gitopsctl may pin
  Slots,      \* downloadWorkers and codegraphWorkers
  MaxBoots    \* bound on the number of boots

ASSUME BootAssumption ==
  /\ Deno \notin Tarballs /\ Reach \notin Tarballs /\ Deno # Reach
  /\ Shimmed \subseteq Tarballs /\ Pinned \subseteq Tarballs
  /\ IsFiniteSet(Tarballs) /\ IsFiniteSet(Repos)
  /\ Repos \cap Trees = {} /\ Cache \in Trees
  /\ Releases \subseteq Nat
  /\ Slots \in Nat \ {0} /\ MaxBoots \in Nat

Tools == Tarballs \cup {Deno, Reach}

VARIABLES
  \* on the volume
  bin,      \* what each tool's file holds; of deno the one in its directory
  link,     \* whether binDir has deno's link
  denoDir,  \* whether the volume has home/.deno/bin, which nothing creates
  shims,    \* the shims mise has made
  index,    \* per repository, .codegraph: "none", "partial", "built", or
            \* "interrupted": a first index an earlier boot left partial
  root,     \* the repositories and trees with root-owned files
  \* of this boot
  phase,    \* the stage Run is in; "off" before a boot and after a crash
  release,  \* the release this gitopsctl pins
  job,      \* where the link and the download of each tool are
  worker,   \* where the npx of each repository is
  stray,    \* repositories whose indexer outlived its npx
  walked,   \* trees and repositories whose walk is over
  boots,    \* boots so far
  \* history, of this boot; the first two until its pre-warm ends
  fate,     \* what the download of each tool came to: "none" (so far, or got
            \* it), "found", "failed", "lacked"
  missed,   \* tools whose os.Remove or os.Symlink failed
  overran,  \* repositories whose npx was killed in this boot
  report    \* what this boot logged of each repository: "none", "ok", "failed"

fetches == <<bin, link, job, fate, missed>>
indexes == <<index, worker, stray, overran, report>>
fixed   == <<denoDir, release, boots>>
vars    == <<fetches, indexes, fixed, phase, shims, root, walked>>

None      == [kind |-> "none", of |-> 0]
Shim      == [kind |-> "shim", of |-> 0]
Torn      == [kind |-> "torn", of |-> 0]
Whole(of) == [kind |-> "whole", of |-> of]

Init ==
  /\ bin = [t \in Tools |-> None] /\ link = FALSE /\ shims = {}
  /\ denoDir \in BOOLEAN
  /\ index = [r \in Repos |-> "none"] /\ root = {}
  /\ phase = "off" /\ release \in Releases /\ boots = 0
  /\ job = [t \in Tools |-> "queued"] /\ worker = [r \in Repos |-> "queued"]
  /\ stray = {} /\ walked = {}
  /\ fate = [t \in Tools |-> "none"] /\ missed = {} /\ overran = {}
  /\ report = [r \in Repos |-> "none"]

\* The file mode is all that executable() looks at.
Executable(t) == bin[t] # None

Fetching == {t \in Tools : job[t] \in {"get", "copy", "link", "symlink", "hung"}}
Indexing == {r \in Repos : worker[r] \in {"install", "index"}}

-----------------------------------------------------------------------------
(* Boots, crashes and stages *)

Boot ==
  /\ phase = "off" /\ boots < MaxBoots
  /\ boots' = boots + 1 /\ phase' = "mise"
  /\ release' \in Releases
  /\ UNCHANGED <<fetches, indexes, denoDir, shims, root, walked>>

\* The pod is killed, before the handover or after it, or the exec fails; no
\* process of the container is left.
Crash ==
  /\ phase # "off" /\ phase' = "off"
  /\ job' = [t \in Tools |-> "queued"] /\ worker' = [r \in Repos |-> "queued"]
  /\ fate' = [t \in Tools |-> "none"] /\ missed' = {}
  /\ stray' = {} /\ walked' = {} /\ overran' = {}
  /\ report' = [r \in Repos |-> "none"]
  /\ index' = [r \in Repos |-> IF index[r] = "partial" THEN "interrupted" ELSE index[r]]
  /\ UNCHANGED <<bin, link, fixed, shims, root>>

Go(from, to) == phase = from /\ phase' = to

\* Mutant: the downloads are started and not waited for.
FetchesStarted == \A t \in Tools : job[t] # "queued"
FetchesDone    == \A t \in Tools : job[t] = "done"

\* Mutant: the walks are started and not waited for.
WalksStarted == phase = "chown"
WalksDone    == walked = Trees \cup Repos

\* A stage gives way to the next one when its goroutines are done.
NextStage ==
  /\ \/ Go("link", "fetch") /\ \A t \in shims : job[t] = "linked"
     \/ Go("fetch", "prewarm") /\ FetchesDone
     \/ Go("index", "chown") /\ \A r \in Repos : worker[r] = "done"
     \/ Go("index", "chown") /\ \A r \in Repos : worker[r] = "queued"
        \* the manifest, the server, npx or reposDir is missing
     \/ Go("chown", "hermes") /\ WalksDone
  /\ UNCHANGED <<fetches, indexes, fixed, shims, root, walked>>

-----------------------------------------------------------------------------
(* mise, its shims, and the direct downloads *)

\* installMise and mise install, whatever they get done; both may wait for ever
\* for an answer.
Mise ==
  /\ \/ Go("mise", "link") /\ \E done \in SUBSET Shimmed : shims' = shims \cup done
     \/ Go("mise", "hung") /\ UNCHANGED shims
  /\ root' = root \cup Trees
  /\ UNCHANGED <<fetches, indexes, fixed, walked>>

fetchFrame == <<indexes, fixed, phase, shims, root, walked>>
At(stage, t, from, to) == phase = stage /\ job[t] = from /\ job' = [job EXCEPT ![t] = to]

Fate(t, what) == fate' = [fate EXCEPT ![t] = what]

\* os.Remove, whose error nobody looks at.
Remove(t) ==
  \/ bin' = [bin EXCEPT ![t] = None] /\ UNCHANGED missed
  \/ bin[t] # None /\ UNCHANGED bin /\ missed' = missed \cup {t}

\* linkShims replaces what binDir has under the name of a shim, in two steps.
Unlink(t) ==
  /\ t \in shims /\ \A u \in shims : job[u] # "unlinked"
  /\ At("link", t, "queued", "unlinked")
  /\ Remove(t)
  /\ UNCHANGED <<link, fate, fetchFrame>>

\* A symlink is not made over what is there.
Relink(t) ==
  /\ At("link", t, "unlinked", "linked")
  /\ \/ bin[t] = None /\ bin' = [bin EXCEPT ![t] = Shim] /\ UNCHANGED missed
     \/ UNCHANGED bin /\ missed' = missed \cup {t}
  /\ UNCHANGED <<link, fate, fetchFrame>>

\* Where the URL names no release, it is whatever is current.
Pin(t) == IF t \in Pinned \cup {Deno} THEN release ELSE 0

\* Where a download that has its file goes: deno's has its link to make.
After(t) == IF t = Deno THEN "link" ELSE "done"

\* agent-reach is run, so that a torn one does not pass.
Present(t) == IF t = Reach THEN bin[t] \notin {None, Torn} ELSE Executable(t)

\* Mutant: the link of deno is made only after a download.
FetchUnlinked(t) ==
  /\ Cardinality(Fetching) < Slots
  /\ \E from \in {"queued", "linked"} :
       At("fetch", t, from, IF Present(t) THEN "done" ELSE "get")
  /\ Fate(t, IF Present(t) THEN "found" ELSE "none")
  /\ UNCHANGED <<bin, link, missed, fetchFrame>>

\* A slot, and the check whether there is anything to do.
Fetch(t) ==
  /\ Cardinality(Fetching) < Slots
  /\ \E from \in {"queued", "linked"} :
       At("fetch", t, from, IF Present(t) THEN After(t) ELSE "get")
  /\ Fate(t, IF Present(t) THEN "found" ELSE "none")
  /\ UNCHANGED <<bin, link, missed, fetchFrame>>

\* http.Get and the archive, of the zip the whole of it, of a tarball up to the
\* tool's entry, if it has one: without it nothing is made and nothing fails.
\* The file is executable from the start.  There is no deadline.
Get(t) ==
  /\ \/ /\ t = Deno => denoDir
        /\ At("fetch", t, "get", "copy")
        /\ bin' = [bin EXCEPT ![t] = Torn]
        /\ UNCHANGED fate
     \/ /\ t = Deno /\ ~denoDir
        /\ At("fetch", t, "get", After(t))
        /\ UNCHANGED <<bin, fate>>
     \/ /\ \/ Fate(t, "failed")
           \/ t # Reach /\ Fate(t, "lacked")
        /\ At("fetch", t, "get", After(t))
        /\ UNCHANGED bin
     \/ At("fetch", t, "get", "hung") /\ UNCHANGED <<bin, fate>>
  /\ UNCHANGED <<link, missed, fetchFrame>>

\* io.Copy: all of it, or what had come when the connection broke, which may
\* also be after this entry.  Deno is copied from the zip that has come.
Copy(t) ==
  /\ \/ /\ At("fetch", t, "copy", After(t))
        /\ bin' = [bin EXCEPT ![t] = Whole(Pin(t))]
        /\ fate' = fate \/ Fate(t, "failed")
     \/ At("fetch", t, "copy", After(t)) /\ Fate(t, "failed") /\ UNCHANGED bin
     \/ t # Deno /\ At("fetch", t, "copy", "hung") /\ UNCHANGED <<bin, fate>>
  /\ UNCHANGED <<link, missed, fetchFrame>>

\* The link is made anew, in two steps, to a deno that is executable; a link
\* that could not be removed is the old one, to the same file.
Link ==
  /\ \/ ~Executable(Deno) /\ At("fetch", Deno, "link", "done") /\ UNCHANGED <<link, missed>>
     \/ /\ Executable(Deno) /\ At("fetch", Deno, "link", "symlink")
        /\ link' \in {FALSE, link} /\ UNCHANGED missed
     \/ At("fetch", Deno, "symlink", "done") /\ link' = TRUE /\ UNCHANGED missed
     \/ /\ At("fetch", Deno, "symlink", "done") /\ UNCHANGED link
        /\ missed' = missed \cup {Deno}
  /\ UNCHANGED <<bin, fate, fetchFrame>>

-----------------------------------------------------------------------------
(* The pre-warm and the codegraph indexes *)

\* What Prewarm makes of the caches is its module's affair; Run does not look at
\* its report.
PrewarmEnds ==
  /\ Go("prewarm", "index")
  /\ root' = root \cup Trees
  /\ fate' = [t \in Tools |-> "none"] /\ missed' = {}
  /\ UNCHANGED <<bin, link, job, indexes, fixed, shims, walked>>

indexFrame == <<fetches, fixed, phase, shims, walked>>
Step(r, from, to) ==
  phase = "index" /\ worker[r] = from /\ worker' = [worker EXCEPT ![r] = to]
Log(r, result) == report' = [report EXCEPT ![r] = result]

\* A slot, and npx, which installs codegraph first when its cache has it not.
StartIndex(r) ==
  /\ Cardinality(Indexing) < Slots
  /\ \E to \in {"install", "index"} : Step(r, "queued", to)
  /\ UNCHANGED <<index, stray, overran, report, root, indexFrame>>

Install(r) ==
  /\ root' = root \cup {Cache}
  /\ \/ Step(r, "install", "index") /\ UNCHANGED report
     \/ Step(r, "install", "done") /\ Log(r, "failed")
  /\ UNCHANGED <<index, stray, overran, indexFrame>>

\* codegraph init makes the directory first.
Write(r) ==
  /\ phase = "index" /\ worker[r] = "index"
  /\ index' = [index EXCEPT ![r] = IF @ = "none" THEN "partial" ELSE @]
  /\ root' = root \cup {r}
  /\ UNCHANGED <<worker, stray, overran, report, indexFrame>>

\* Mutant: the error of the command is not looked at.
EndIndexIgnored(r) ==
  /\ root' = root \cup {r}
  /\ Step(r, "index", "done") /\ Log(r, "ok")
  /\ \/ index' = [index EXCEPT ![r] = "built"]
     \/ UNCHANGED index
  /\ UNCHANGED <<stray, overran, indexFrame>>

\* init builds the index or fails; sync catches up what it finds, and what it
\* makes of an index that was never completed is codegraph's affair.
EndIndex(r) ==
  /\ root' = root \cup {r}
  /\ \/ /\ Step(r, "index", "done") /\ Log(r, "ok")
        /\ \/ index' = [index EXCEPT ![r] = "built"]
           \/ index[r] = "interrupted" /\ UNCHANGED index
     \/ Step(r, "index", "done") /\ Log(r, "failed") /\ UNCHANGED index
  /\ UNCHANGED <<stray, overran, indexFrame>>

\* Mutant: the deadline is over when the installation is.
DeadlineOfInstall(r) ==
  /\ Step(r, "install", "done")
  /\ Log(r, "failed") /\ overran' = overran \cup {r}
  /\ UNCHANGED <<stray, index, root, indexFrame>>

\* The deadline kills npx and nothing else: an installation dies with it, the
\* indexer it had started lives on.
Deadline(r) ==
  /\ \/ Step(r, "install", "done") /\ UNCHANGED stray
     \/ Step(r, "index", "done") /\ stray' = stray \cup {r}
  /\ Log(r, "failed") /\ overran' = overran \cup {r}
  /\ UNCHANGED <<index, root, indexFrame>>

\* What is left of a killed npx goes on, next to the walks and under hermes.
Stray(r) ==
  /\ phase # "off" /\ r \in stray
  /\ \/ index' = [index EXCEPT ![r] = "built"]
     \/ index' = [index EXCEPT ![r] = IF @ = "none" THEN "partial" ELSE @]
  /\ stray' \in {stray, stray \ {r}}
  /\ root' = root \cup {r}
  /\ UNCHANGED <<worker, overran, report, indexFrame>>

-----------------------------------------------------------------------------
\* chownTree: the walks run concurrently.
Walk(x) ==
  /\ phase = "chown" /\ x \notin walked
  /\ walked' = walked \cup {x}
  /\ root' = root \ {x}
  /\ UNCHANGED <<fetches, indexes, fixed, phase, shims>>

FetchJob(t) == Unlink(t) \/ Relink(t) \/ Fetch(t) \/ Get(t) \/ Copy(t)
Npx(r) == StartIndex(r) \/ Install(r) \/ Write(r) \/ EndIndex(r) \/ Stray(r)

Next ==
  \/ Boot \/ Crash \/ NextStage \/ Mise \/ PrewarmEnds \/ Link
  \/ \E t \in Tools : FetchJob(t)
  \/ \E r \in Repos : Npx(r) \/ Deadline(r)
  \/ \E x \in Trees \cup Repos : Walk(x)

Spec == Init /\ [][Next]_vars

\* Prewarm ends (its run shows it); downloads end or hang; npx owes nothing, but
\* a slot is taken and its deadline comes.
FairSpec ==
  /\ Spec
  /\ WF_vars(NextStage) /\ WF_vars(Mise) /\ WF_vars(Link) /\ WF_vars(PrewarmEnds)
  /\ \A t \in Tools : WF_vars(FetchJob(t))
  /\ \A r \in Repos : WF_vars(StartIndex(r)) /\ WF_vars(Deadline(r))
  /\ \A x \in Trees \cup Repos : WF_vars(Walk(x))

-----------------------------------------------------------------------------
\* Every variable keeps its type, and no more than Slots downloads or npx run
\* at a time.
TypeOK ==
  /\ bin \in [Tools -> {None, Shim, Torn} \cup {Whole(of) : of \in Releases \cup {0}}]
  /\ link \in BOOLEAN /\ denoDir \in BOOLEAN /\ shims \subseteq Shimmed
  /\ index \in [Repos -> {"none", "partial", "interrupted", "built"}]
  /\ root \subseteq Trees \cup Repos
  /\ phase \in {"off", "mise", "hung", "link", "fetch", "prewarm", "index", "chown", "hermes"}
  /\ release \in Releases /\ boots \in 0..MaxBoots
  /\ job \in [Tools -> {"queued", "unlinked", "linked", "get", "copy", "hung", "link",
                    "symlink", "done"}]
  /\ worker \in [Repos -> {"queued", "install", "index", "done"}]
  /\ report \in [Repos -> {"none", "ok", "failed"}]
  /\ stray \subseteq overran /\ overran \subseteq Repos
  /\ walked \subseteq Trees \cup Repos
  /\ fate \in [Tools -> {"none", "found", "failed", "lacked"}] /\ missed \subseteq Tools
  /\ Cardinality(Fetching) <= Slots /\ Cardinality(Indexing) <= Slots

\* What became of each tool, all downloads over: one that was found, or whose
\* archive lacked it, is as it was; one that is neither, and did not fail, is
\* there, whole and of the release the URL names, if it names one.  Deno alone
\* may be missing without any of these, on a volume that has not its directory
\* (boot.go:118-156, 195-261).
BootProvides ==
  phase = "prewarm" =>
    \A t \in Tools :
      /\ fate[t] = "found" => Present(t)
      /\ fate[t] = "lacked" => bin[t] = None
      /\ fate[t] = "none" => bin[t] = Whole(Pin(t)) \/ (t = Deno /\ ~denoDir)

\* What an interrupted boot left of the path a later one puts right, before it
\* goes on: the shim of what mise ships is under its name, whatever was
\* downloaded there or had been removed, and a deno that is there has its link,
\* also when the boot that downloaded it was killed before it made one.  The
\* exception are the names at which a call of this boot failed, which it does
\* not notice; the link to deno leads to a file even then (boot.go:101-116,
\* 219-248).
PathRepaired ==
  phase = "prewarm" =>
    /\ \A t \in shims \ missed : bin[t] = Shim
    /\ Deno \notin missed => (Executable(Deno) => link)
    /\ link => Executable(Deno)

\* At the handover, and as long as the gateway runs, it owns what was walked;
\* the exception are the repositories whose npx had to be killed
\* (boot.go:374-424).
OwnedButForStrays == phase = "hermes" => root \subseteq overran

\* A repository logged as indexed is, unless an earlier boot left its first index
\* unfinished (boot.go:316-369).
IndexReportTrue ==
  \A r \in Repos : report[r] = "ok" => index[r] \in {"built", "interrupted"}

\* Only mise and the downloads can keep a boot from handing over: "a registry
\* hang cannot block handover" once they are through (boot.go:280).
HandsOver ==
  phase = "mise" ~>
    phase \in {"hermes", "hung", "off"} \/ \E t \in Tools : job[t] = "hung"

\* "directDownloads covers tools absent from the mise registry, keeping the
\* exact pinned releases" (boot.go:167-168).
ExactReleases ==
  phase = "hermes" =>
    \A t \in Pinned : Executable(t) /\ bin[t] # Shim => bin[t] = Whole(release)
=============================================================================
