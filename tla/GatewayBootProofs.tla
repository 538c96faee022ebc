-------------------------- MODULE GatewayBootProofs --------------------------
(***************************************************************************)
(* Proofs about GatewayBoot, for every set of tools, repositories and      *)
(* trees, number of slots and of boots: types and slots, what the          *)
(* downloads leave behind, who owns what at the handover, and what the     *)
(* codegraph stage reports.  The invariant has one part per stage, and     *)
(* each part is kept by the steps of the others because they leave its     *)
(* variables alone.                                                        *)
(***************************************************************************)
EXTENDS GatewayBoot, FiniteSetTheorems, TLAPS

Files == {None, Shim, Torn} \cup {Whole(of) : of \in Releases \cup {0}}

Types ==
  /\ bin \in [Tools -> Files]
  /\ link \in BOOLEAN /\ denoDir \in BOOLEAN /\ shims \subseteq Shimmed
  /\ index \in [Repos -> {"none", "partial", "interrupted", "built"}]
  /\ root \subseteq Trees \cup Repos
  /\ phase \in {"off", "mise", "hung", "link", "fetch", "prewarm", "index", "chown", "hermes"}
  /\ release \in Releases /\ boots \in 0..MaxBoots
  /\ job \in [Tools -> {"queued", "unlinked", "linked", "get", "copy", "hung", "link",
                        "symlink", "done"}]
  /\ worker \in [Repos -> {"queued", "install", "index", "done"}]
  /\ report \in [Repos -> {"none", "ok", "failed"}]
  /\ stray \subseteq overran /\ overran \subseteq Repos
  /\ walked \subseteq Trees \cup Repos
  /\ fate \in [Tools -> {"none", "found", "failed", "lacked"}] /\ missed \subseteq Tools

\* A download that is over, or has only its link to make.
Settled(t) == job[t] \in {"link", "symlink", "done"}

\* What a tool is while the downloads run: a shim that could be linked stays,
\* what is downloaded was neither found nor has failed yet, what is settled is
\* what its fate says, and deno's link is the last thing made.
Sound(t) ==
  /\ t \in shims \ missed => bin[t] = Shim /\ job[t] \in {"linked", "done"}
  /\ job[t] \in {"get", "copy"} => fate[t] = "none"
  /\ job[t] = "get" /\ t # Reach => bin[t] = None
  /\ Settled(t) =>
       /\ fate[t] = "found" => Present(t)
       /\ fate[t] = "lacked" => bin[t] = None
       /\ fate[t] = "none" => bin[t] = Whole(Pin(t)) \/ (t = Deno /\ ~denoDir)
  /\ t = Deno /\ job[t] = "symlink" => Executable(Deno)
  /\ t = Deno /\ job[t] = "done" /\ Executable(Deno) => link \/ Deno \in missed

\* The jobs of linkShims and of the downloads, stage by stage; deno's file never
\* goes.
Downloads ==
  /\ phase \in {"off", "mise", "hung"} => \A t \in Tools : job[t] = "queued"
  /\ phase = "link" => \A t \in Tools : job[t] \in {"queued", "unlinked", "linked"}
  /\ phase \in {"prewarm", "index", "chown", "hermes"} => FetchesDone
  /\ \A t \in Tools : job[t] = "unlinked" => t \in shims
  /\ phase = "link" => \A t \in Tools : job[t] = "linked" => bin[t] = Shim \/ t \in missed
  /\ phase \in {"fetch", "prewarm"} => \A t \in Tools : Sound(t)
  /\ link => Executable(Deno)

\* The index stage: before it nobody runs, has overrun or is reported.
Indexes ==
  /\ phase \in {"off", "mise", "hung", "link", "fetch", "prewarm"} =>
       /\ stray = {} /\ overran = {}
       /\ \A r \in Repos : worker[r] = "queued" /\ report[r] = "none"
  /\ phase \in {"chown", "hermes"} => \A r \in Repos : worker[r] \in {"queued", "done"}
  /\ \A r \in Repos : report[r] = "ok" => index[r] \in {"built", "interrupted"}

\* The walks: what has been walked belongs to the gateway, but for the
\* repositories whose npx was killed.
Ownership ==
  /\ phase \notin {"chown", "hermes"} => walked = {}
  /\ phase = "hermes" => WalksDone
  /\ phase \in {"chown", "hermes"} => root \cap walked \subseteq overran

Inv == Types /\ Downloads /\ Indexes /\ Ownership

-----------------------------------------------------------------------------
(* Types *)

\* Nothing has happened before the first boot.
LEMMA InitInv == Init => Inv
<1>. SUFFICES ASSUME Init PROVE Inv
  OBVIOUS
<1>1. Types
  <2>1. bin \in [Tools -> Files]
    BY DEF Init, Files
  <2>2. boots \in 0..MaxBoots
    BY BootAssumption DEF Init
  <2>. QED  BY <2>1, <2>2 DEF Init, Types
<1>2. Downloads
  BY DEF Init, Downloads, FetchesDone, Tools
<1>3. Indexes /\ Ownership
  BY DEF Init, Indexes, Ownership
<1>. QED  BY <1>1, <1>2, <1>3 DEF Inv

\* A job of the downloads touches its tool and its slot, and nothing else.

LEMMA DownloadTypes ==
  ASSUME Types, NEW t \in Tools, FetchJob(t) \/ Link
  PROVE  Types'
<1>1. /\ UNCHANGED <<indexes, fixed, phase, shims, root, walked>>
      /\ Deno \in Tools /\ release \in Releases
  BY DEF FetchJob, Unlink, Relink, Fetch, Get, Copy, Link, fetchFrame, Types, Tools
<1>2. bin' \in [Tools -> Files]
  <2>1. /\ None \in Files /\ Shim \in Files /\ Torn \in Files /\ Whole(Pin(t)) \in Files
    BY <1>1 DEF Files, Pin
  <2>2. bin' = bin \/ \E file \in Files : bin' = [bin EXCEPT ![t] = file]
    BY <2>1 DEF FetchJob, Unlink, Remove, Relink, Fetch, Get, Copy, Link
  <2>. QED  BY <2>2 DEF Types
<1>3. job' \in [Tools -> {"queued", "unlinked", "linked", "get", "copy", "hung", "link",
                          "symlink", "done"}]
  <2>1. \E to \in {"unlinked", "linked", "get", "copy", "hung", "link", "symlink", "done"},
           u \in Tools : job' = [job EXCEPT ![u] = to]
    BY <1>1 DEF FetchJob, Unlink, Relink, Fetch, Get, Copy, Link, At, After
  <2>. QED  BY <2>1 DEF Types
<1>4. link' \in BOOLEAN /\ missed' \subseteq Tools
  BY <1>1 DEF FetchJob, Unlink, Remove, Relink, Fetch, Get, Copy, Link, Types
<1>5. fate' \in [Tools -> {"none", "found", "failed", "lacked"}]
  <2>1. fate' = fate \/ \E what \in {"none", "found", "failed", "lacked"} :
                          fate' = [fate EXCEPT ![t] = what]
    BY DEF FetchJob, Unlink, Relink, Fetch, Get, Copy, Link, Fate
  <2>. QED  BY <2>1 DEF Types
<1>. QED  BY <1>1, <1>2, <1>3, <1>4, <1>5 DEF Types, indexes, fixed

\* An npx touches its repository's index and the files it and its cache own.
LEMMA NpxTypes ==
  ASSUME Types, NEW r \in Repos, Npx(r) \/ Deadline(r)
  PROVE  Types'
<1>1. UNCHANGED <<fetches, fixed, phase, shims, walked>>
  BY DEF Npx, StartIndex, Install, Write, EndIndex, Stray, Deadline, indexFrame
<1>2. worker' \in [Repos -> {"queued", "install", "index", "done"}]
  <2>1. worker' = worker
        \/ \E to \in {"install", "index", "done"} : worker' = [worker EXCEPT ![r] = to]
    BY DEF Npx, StartIndex, Install, Write, EndIndex, Stray, Deadline, Step
  <2>. QED  BY <2>1 DEF Types
<1>3. index' \in [Repos -> {"none", "partial", "interrupted", "built"}]
  <2>1. index[r] \in {"none", "partial", "interrupted", "built"}
    BY DEF Types
  <2>2. index' = index
        \/ \E to \in {"none", "partial", "interrupted", "built"} : index' = [index EXCEPT ![r] = to]
    BY <2>1 DEF Npx, StartIndex, Install, Write, EndIndex, Stray, Deadline
  <2>. QED  BY <2>2 DEF Types
<1>4. report' \in [Repos -> {"none", "ok", "failed"}]
  BY DEF Npx, StartIndex, Install, Write, EndIndex, Stray, Deadline, Log, Types
<1>5. /\ root' \subseteq Trees \cup Repos
      /\ stray' \subseteq overran' /\ overran' \subseteq Repos
  BY BootAssumption DEF Npx, StartIndex, Install, Write, EndIndex, Stray, Deadline, Types
<1>. QED  BY <1>1, <1>2, <1>3, <1>4, <1>5 DEF Types, fetches, fixed

\* Every step keeps the types.
LEMMA TypesStep == Types /\ [Next]_vars => Types'
<1>. SUFFICES ASSUME Types, [Next]_vars PROVE Types'
  OBVIOUS
<1>1. CASE Boot
  BY <1>1, BootAssumption DEF Boot, Types, fetches, indexes
<1>2. CASE Crash
  BY <1>2 DEF Crash, Types, fixed
<1>3. CASE NextStage
  BY <1>3 DEF NextStage, Go, Types, fetches, indexes, fixed
<1>4. CASE Mise
  BY <1>4 DEF Mise, Go, Types, fetches, indexes, fixed
<1>5. CASE PrewarmEnds
  BY <1>5 DEF PrewarmEnds, Go, Types, indexes, fixed
<1>6. CASE Link \/ \E t \in Tools : FetchJob(t)
  BY <1>6, DownloadTypes DEF Tools
<1>7. CASE \E r \in Repos : Npx(r) \/ Deadline(r)
  BY <1>7, NpxTypes
<1>8. CASE \E x \in Trees \cup Repos : Walk(x)
  BY <1>8 DEF Walk, Types, fetches, indexes, fixed
<1>9. CASE UNCHANGED vars
  BY <1>9 DEF vars, Types, fetches, indexes, fixed
<1>. QED  BY <1>1, <1>2, <1>3, <1>4, <1>5, <1>6, <1>7, <1>8, <1>9 DEF Next

-----------------------------------------------------------------------------
(* The downloads *)

\* A step of another stage leaves the downloads as they are.
downloads == <<bin, link, job, fate, missed, denoDir, shims, phase, release>>

LEMMA DownloadsApart == Downloads /\ UNCHANGED downloads => Downloads'
BY DEF Downloads, Sound, Present, downloads, FetchesDone, Settled, Executable, Pin

\* A step of linkShims.
LEMMA LinkShims ==
  ASSUME Types, Downloads, NEW t \in Tools, Unlink(t) \/ Relink(t)
  PROVE  Downloads'
<1>1. /\ UNCHANGED <<link, fate, denoDir, phase, shims, release>> /\ phase = "link"
      /\ t \in shims /\ t # Deno /\ missed \subseteq missed'
  BY BootAssumption
     DEF Unlink, Remove, Relink, At, fetchFrame, fixed, Types, Downloads
<1>2. \A u \in Tools \ {t} : bin'[u] = bin[u] /\ job'[u] = job[u]
  BY DEF Unlink, Remove, Relink, At, Types
<1>3. /\ job'[t] \in {"unlinked", "linked"}
      /\ job'[t] = "linked" => bin'[t] = Shim \/ t \in missed'
  BY DEF Unlink, Relink, At, Types
<1>. QED
  BY <1>1, <1>2, <1>3 DEF Downloads, Executable, Tools

\* A step of a download, or of deno's link, that keeps its own tool sound and
\* leaves the others alone.
LEMMA OneDownload ==
  ASSUME Types, Downloads, phase = "fetch", NEW t \in Tools,
         UNCHANGED <<denoDir, phase, shims, release>>,
         \A u \in Tools \ {t} :
           /\ bin'[u] = bin[u] /\ job'[u] = job[u] /\ fate'[u] = fate[u]
           /\ u \in missed' <=> u \in missed,
         link' = link \/ t = Deno,
         job'[t] # "unlinked", Sound(t)', link' => Executable(Deno)'
  PROVE  Downloads'
<1>1. ASSUME NEW u \in Tools \ {t} PROVE Sound(u)'
  <2>1. Sound(u)
    BY DEF Downloads
  <2>2. Present(u)' <=> Present(u)
    BY <1>1 DEF Present, Executable
  <2>3. (Settled(u)' <=> Settled(u)) /\ Pin(u)' = Pin(u)
    BY <1>1 DEF Settled, Pin
  <2>4. u = Deno => (Executable(Deno)' <=> Executable(Deno)) /\ link' = link
                    /\ (Deno \in missed' <=> Deno \in missed)
    BY <1>1 DEF Executable
  <2>. QED  BY <2>1, <2>2, <2>3, <2>4 DEF Sound
<1>2. \A u \in Tools : Sound(u)'
  BY <1>1
<1>. QED  BY <1>2 DEF Downloads

\* One step of one tool's download.
LEMMA DownloadsJob ==
  ASSUME Types, Downloads, NEW t \in Tools, Fetch(t) \/ Get(t) \/ Copy(t)
  PROVE  Downloads'
<1>1. /\ UNCHANGED <<link, missed, denoDir, phase, shims, release>> /\ phase = "fetch"
      /\ shims \subseteq Tools /\ Deno \notin shims /\ Reach \notin shims
      /\ Sound(t) /\ (link => Executable(Deno))
  BY BootAssumption
     DEF Fetch, Get, Copy, At, fetchFrame, fixed, Types, Tools, Downloads
<1>2. /\ DOMAIN bin = Tools /\ DOMAIN job = Tools /\ DOMAIN fate = Tools
      /\ \A u \in Tools \ {t} :
           /\ bin'[u] = bin[u] /\ job'[u] = job[u] /\ fate'[u] = fate[u]
           /\ u \in missed' <=> u \in missed
  BY DEF Fetch, Get, Copy, At, Fate, Types
<1>3. Pin(t)' = Pin(t)
  BY <1>1 DEF Pin
<1>4. Sound(t)' /\ job'[t] # "unlinked" /\ (bin[t] # None => bin'[t] # None)
  <2>1. CASE Fetch(t)
    <3>1. bin' = bin /\ (Present(t)' <=> Present(t)) /\ (Executable(t)' <=> Executable(t))
      BY <2>1 DEF Fetch, Present, Executable
    <3>2. CASE Present(t)
      <4>1. job'[t] = After(t) /\ fate'[t] = "found"
        BY <1>2, <2>1, <3>2 DEF Fetch, At, Fate
      <4>. QED  BY <1>1, <3>1, <3>2, <4>1 DEF After, Sound, Settled
    <3>3. CASE ~Present(t)
      <4>1. job'[t] = "get" /\ fate'[t] = "none"
        BY <1>2, <2>1, <3>3 DEF Fetch, At, Fate
      <4>2. t \notin shims \ missed /\ (t # Reach => bin[t] = None)
        BY <1>1, <3>3 DEF Sound, Present, Executable, None, Shim
      <4>. QED  BY <1>1, <3>1, <4>1, <4>2 DEF Sound, Settled
    <3>. QED  BY <3>2, <3>3
  <2>2. CASE Get(t)
    <3>1. t \notin shims \ missed /\ fate[t] = "none" /\ (t # Reach => bin[t] = None)
      BY <1>1, <2>2 DEF Get, At, Sound
    <3>2. \/ /\ job'[t] = "copy" /\ bin'[t] = Torn /\ fate'[t] = "none"
          \/ /\ t = Deno /\ ~denoDir /\ job'[t] = After(t) /\ bin'[t] = bin[t]
             /\ fate'[t] = "none"
          \/ /\ job'[t] = After(t) /\ bin'[t] = bin[t]
             /\ fate'[t] = "failed" \/ (t # Reach /\ fate'[t] = "lacked")
          \/ job'[t] = "hung" /\ bin'[t] = bin[t]
      BY <1>2, <2>2, <3>1 DEF Get, At, Fate
    <3>. QED  BY <1>1, <3>1, <3>2 DEF After, Sound, Settled, None, Torn
  <2>3. CASE Copy(t)
    <3>1. t \notin shims \ missed /\ fate[t] = "none"
      BY <1>1, <2>3 DEF Copy, At, Sound
    <3>2. \/ /\ job'[t] = After(t) /\ bin'[t] = Whole(Pin(t))
             /\ fate'[t] \in {"none", "failed"}
          \/ job'[t] = After(t) /\ bin'[t] = bin[t] /\ fate'[t] = "failed"
          \/ job'[t] = "hung" /\ bin'[t] = bin[t]
      BY <1>2, <2>3, <3>1 DEF Copy, At, Fate
    <3>. QED  BY <1>1, <1>3, <3>1, <3>2 DEF After, Sound, Settled, None, Whole
  <2>. QED  BY <2>1, <2>2, <2>3
<1>5. link' => Executable(Deno)'
  BY <1>1, <1>2, <1>4 DEF Executable, Tools
<1>. QED  BY <1>1, <1>2, <1>4, <1>5, OneDownload

\* The link of deno is made, or cannot be, after its file.
LEMMA DownloadsLink ==
  ASSUME Types, Downloads, Link
  PROVE  Downloads'
<1>1. /\ UNCHANGED <<bin, fate, denoDir, phase, shims, release>> /\ phase = "fetch"
      /\ Deno \in Tools /\ Deno \notin shims /\ Sound(Deno) /\ (link => Executable(Deno))
  BY BootAssumption DEF Link, At, fetchFrame, fixed, Types, Tools, Downloads
<1>2. \A u \in Tools \ {Deno} :
        /\ bin'[u] = bin[u] /\ job'[u] = job[u] /\ fate'[u] = fate[u]
        /\ u \in missed' <=> u \in missed
  BY <1>1 DEF Link, At, Types
<1>3. /\ job[Deno] \in {"link", "symlink"} /\ job'[Deno] \in {"symlink", "done"}
      /\ job'[Deno] = "symlink" => Executable(Deno)
      /\ job'[Deno] = "done" /\ Executable(Deno) => link' \/ Deno \in missed'
      /\ link' => Executable(Deno)
  <2>1. CASE ~Executable(Deno) /\ At("fetch", Deno, "link", "done") /\ UNCHANGED link
    BY <1>1, <2>1 DEF At, Types
  <2>2. CASE /\ Executable(Deno) /\ At("fetch", Deno, "link", "symlink")
             /\ link' \in {FALSE, link}
    BY <1>1, <2>2 DEF At, Types
  <2>3. CASE At("fetch", Deno, "symlink", "done") /\ (link' \/ Deno \in missed')
    <3>1. Executable(Deno)
      BY <1>1, <2>3 DEF At, Sound
    <3>. QED  BY <1>1, <2>3, <3>1 DEF At, Types
  <2>. QED  BY <2>1, <2>2, <2>3 DEF Link
<1>4. Executable(Deno)' <=> Executable(Deno)
  BY <1>1 DEF Executable
<1>5. /\ Present(Deno)' <=> Present(Deno)
      /\ Settled(Deno) /\ Settled(Deno)' /\ Pin(Deno)' = Pin(Deno)
  BY <1>1, <1>3 DEF Present, Executable, Settled, Pin
<1>6. Sound(Deno)'
  BY <1>1, <1>3, <1>4, <1>5 DEF Sound
<1>. QED  BY <1>1, <1>2, <1>3, <1>4, <1>6, OneDownload

\* Every step keeps the downloads' part of the invariant.
LEMMA DownloadsStep == Types /\ Downloads /\ [Next]_vars => Downloads'
<1>. SUFFICES ASSUME Types, Downloads, [Next]_vars PROVE Downloads'
  OBVIOUS
<1>0. Deno \in Tools
  BY DEF Tools
<1>1. CASE Boot
  BY <1>1 DEF Boot, fetches, Downloads, Executable
<1>2. CASE Crash
  BY <1>0, <1>2 DEF Crash, fixed, Downloads, Executable
<1>3. CASE NextStage
  <2>1. UNCHANGED <<bin, link, job, fate, missed, denoDir, shims, release>>
    BY <1>3 DEF NextStage, fetches, fixed
  <2>2. /\ FetchesDone' = FetchesDone /\ Executable(Deno)' = Executable(Deno)
        /\ \A t \in Tools : Sound(t)' <=> Sound(t)
    BY <2>1 DEF FetchesDone, Sound, Present, Executable, Settled, Pin
  <2>3. CASE Go("link", "fetch") /\ \A t \in shims : job[t] = "linked"
    <3>1. shims \subseteq Tools
      BY BootAssumption DEF Types, Tools
    <3>2. \A t \in Tools : job[t] \in {"queued", "linked"}
      BY <2>3 DEF Go, Downloads
    <3>3. \A t \in Tools : Sound(t)
      BY <2>3, <3>1, <3>2 DEF Go, Downloads, Sound, Settled
    <3>. QED  BY <2>1, <2>2, <2>3, <3>3 DEF Go, Downloads
  <2>4. CASE Go("fetch", "prewarm") /\ FetchesDone
    BY <2>1, <2>2, <2>4 DEF Go, Downloads
  <2>5. CASE Go("index", "chown") \/ Go("chown", "hermes")
    BY <2>1, <2>2, <2>5 DEF Go, Downloads
  <2>. QED  BY <1>3, <2>3, <2>4, <2>5 DEF NextStage
<1>4. CASE Mise
  <2>1. UNCHANGED <<bin, link, job, denoDir, release>> /\ shims \subseteq shims'
        /\ phase = "mise" /\ phase' \in {"link", "hung"}
        /\ \A t \in Tools : job[t] = "queued"
    BY <1>4 DEF Mise, Go, fetches, fixed, Downloads
  <2>. QED  BY <2>1 DEF Downloads, Executable
<1>5. CASE PrewarmEnds
  <2>1. /\ UNCHANGED <<bin, link, job, denoDir, shims, release>>
        /\ phase = "prewarm" /\ phase' = "index"
    BY <1>5 DEF PrewarmEnds, Go, fixed
  <2>. QED  BY <2>1 DEF Downloads, FetchesDone, Executable
<1>6. CASE Link
  BY <1>6, DownloadsLink
<1>7. CASE \E t \in Tools : FetchJob(t)
  BY <1>7, LinkShims, DownloadsJob DEF FetchJob
<1>8. CASE \E r \in Repos : Npx(r) \/ Deadline(r)
  BY <1>8, DownloadsApart
     DEF Npx, StartIndex, Install, Write, EndIndex, Stray, Deadline, indexFrame, fetches,
         fixed, downloads
<1>9. CASE (\E x \in Trees \cup Repos : Walk(x)) \/ UNCHANGED vars
  BY <1>9, DownloadsApart DEF Walk, vars, fetches, fixed, downloads
<1>. QED  BY <1>1, <1>2, <1>3, <1>4, <1>5, <1>6, <1>7, <1>8, <1>9 DEF Next

-----------------------------------------------------------------------------
(* The indexes and the walks *)

\* A step of another stage leaves the indexes as they are.
indexed == <<indexes, phase>>

LEMMA IndexesApart == Indexes /\ UNCHANGED indexed => Indexes'
BY DEF Indexes, indexed, indexes

\* One step of the npx of one repository.
LEMMA IndexesJob ==
  ASSUME Types, Indexes, NEW r \in Repos, Npx(r) \/ Deadline(r)
  PROVE  Indexes'
<1>1. UNCHANGED phase
  BY DEF Npx, StartIndex, Install, Write, EndIndex, Stray, Deadline, indexFrame
<1>2. \A q \in Repos \ {r} :
        worker'[q] = worker[q] /\ report'[q] = report[q] /\ index'[q] = index[q]
  BY DEF Npx, StartIndex, Install, Write, EndIndex, Stray, Deadline, Step, Log, Types
<1>3. index[r] \in {"built", "interrupted"} => index'[r] \in {"built", "interrupted"}
  BY DEF Npx, StartIndex, Install, Write, EndIndex, Stray, Deadline, Types
<1>4. report'[r] = report[r] \/ (report'[r] = "ok" => index'[r] \in {"built", "interrupted"})
  BY DEF Npx, StartIndex, Install, Write, EndIndex, Stray, Deadline, Log, Types
<1>5. \A q \in Repos : report'[q] = "ok" => index'[q] \in {"built", "interrupted"}
  BY <1>1, <1>2, <1>3, <1>4 DEF Indexes
<1>6. CASE phase = "index"
  BY <1>1, <1>5, <1>6 DEF Indexes
<1>7. CASE phase # "index"
  <2>1. Stray(r)
    BY <1>7 DEF Npx, StartIndex, Install, Write, EndIndex, Deadline, Step
  <2>2. UNCHANGED <<worker, overran, report>> /\ stray # {}
    BY <2>1 DEF Stray
  <2>. QED  BY <1>1, <1>5, <2>2 DEF Indexes
<1>. QED  BY <1>6, <1>7

\* Every step keeps the indexes' part of the invariant.
LEMMA IndexesStep == Types /\ Indexes /\ [Next]_vars => Indexes'
<1>. SUFFICES ASSUME Types, Indexes, [Next]_vars PROVE Indexes'
  OBVIOUS
<1>1. CASE Boot
  BY <1>1 DEF Boot, indexes, Indexes
<1>2. CASE Crash
  BY <1>2 DEF Crash, Indexes
<1>3. CASE NextStage
  BY <1>3 DEF NextStage, Go, indexes, Indexes
<1>4. CASE Mise
  BY <1>4 DEF Mise, Go, indexes, Indexes
<1>5. CASE PrewarmEnds
  BY <1>5 DEF PrewarmEnds, Go, indexes, Indexes
<1>6. CASE Link \/ \E t \in Tools : FetchJob(t)
  BY <1>6, IndexesApart
     DEF FetchJob, Unlink, Relink, Fetch, Get, Copy, Link, fetchFrame, indexed
<1>7. CASE \E r \in Repos : Npx(r) \/ Deadline(r)
  BY <1>7, IndexesJob
<1>8. CASE (\E x \in Trees \cup Repos : Walk(x)) \/ UNCHANGED vars
  BY <1>8, IndexesApart DEF Walk, vars, indexed
<1>. QED  BY <1>1, <1>2, <1>3, <1>4, <1>5, <1>6, <1>7, <1>8 DEF Next

\* Only the walks, and the indexers that outlived their npx, touch what is
\* owned once the walks have begun.
LEMMA OwnershipStep == Types /\ Ownership /\ [Next]_vars => Ownership'
<1>. SUFFICES ASSUME Types, Ownership, [Next]_vars PROVE Ownership'
  OBVIOUS
<1>1. CASE Boot \/ Crash \/ Mise \/ PrewarmEnds
  BY <1>1 DEF Boot, Crash, Mise, PrewarmEnds, Go, indexes, Ownership
<1>2. CASE NextStage
  <2>1. UNCHANGED <<root, walked, overran>>
    BY <1>2 DEF NextStage, indexes
  <2>. QED  BY <1>2, <2>1 DEF NextStage, Go, WalksDone, Ownership
<1>3. CASE Link \/ \E t \in Tools : FetchJob(t)
  BY <1>3
     DEF FetchJob, Unlink, Relink, Fetch, Get, Copy, Link, fetchFrame, indexes, WalksDone,
         Ownership
<1>4. ASSUME NEW r \in Repos, Npx(r) \/ Deadline(r)
      PROVE  Ownership'
  <2>1. UNCHANGED <<phase, walked>> /\ (phase # "index" => Stray(r))
    BY <1>4
       DEF Npx, StartIndex, Install, Write, EndIndex, Stray, Deadline, indexFrame, Step
  <2>2. CASE phase = "index"
    BY <2>1, <2>2 DEF Ownership
  <2>3. CASE phase # "index"
    BY <2>1, <2>3 DEF Stray, Types, WalksDone, Ownership
  <2>. QED  BY <2>2, <2>3
<1>5. ASSUME NEW x \in Trees \cup Repos, Walk(x)
      PROVE  Ownership'
  BY <1>5 DEF Walk, indexes, WalksDone, Ownership
<1>6. CASE UNCHANGED vars
  BY <1>6 DEF vars, indexes, WalksDone, Ownership
<1>. QED  BY <1>1, <1>2, <1>3, <1>4, <1>5, <1>6 DEF Next

-----------------------------------------------------------------------------
(* The slots *)

SlotsHeld == Cardinality(Fetching) <= Slots /\ Cardinality(Indexing) <= Slots

\* A set that shrinks, or gains one element below the bound, stays in it.
LEMMA OneMoreFits ==
  ASSUME NEW S, IsFiniteSet(S), NEW T, NEW x,
         \/ T \subseteq S /\ Cardinality(S) <= Slots
         \/ T \subseteq S \cup {x} /\ Cardinality(S) < Slots
  PROVE  Cardinality(T) <= Slots
<1>1. /\ IsFiniteSet(S \cup {x}) /\ Cardinality(S) \in Nat
      /\ Cardinality(S \cup {x}) <= Cardinality(S) + 1
      /\ Cardinality(S \cup {x}) \in Nat
  BY FS_AddElement, FS_CardinalityType
<1>2. CASE T \subseteq S /\ Cardinality(S) <= Slots
  BY <1>1, <1>2, FS_Subset, FS_CardinalityType, BootAssumption
<1>3. CASE T \subseteq S \cup {x} /\ Cardinality(S) < Slots
  <2>1. Cardinality(T) <= Cardinality(S \cup {x}) /\ Cardinality(T) \in Nat
    BY <1>1, <1>3, FS_Subset, FS_CardinalityType
  <2>. QED  BY <1>1, <1>3, <2>1, BootAssumption
<1>. QED  BY <1>2, <1>3

\* A download or an npx begins below the bound, and every other step only ends
\* some of them.
LEMMA SlotsStep == Types /\ SlotsHeld /\ [Next]_vars => SlotsHeld'
<1>. SUFFICES ASSUME Types, SlotsHeld, [Next]_vars PROVE SlotsHeld'
  OBVIOUS
<1>1. /\ IsFiniteSet(Fetching) /\ IsFiniteSet(Indexing)
      /\ Cardinality(Fetching) <= Slots /\ Cardinality(Indexing) <= Slots
  <2>1. IsFiniteSet(Tarballs \cup {Deno} \cup {Reach})
    BY FS_AddElement, BootAssumption
  <2>2. Fetching \subseteq Tarballs \cup {Deno} \cup {Reach} /\ Indexing \subseteq Repos
    BY DEF Fetching, Indexing, Tools
  <2>. QED  BY <2>1, <2>2, FS_Subset, BootAssumption DEF SlotsHeld
<1>2. CASE \E t \in Tools : Fetch(t)
  <2>1. PICK t \in Tools : Fetch(t)
    BY <1>2
  <2>2. Fetching' \subseteq Fetching \cup {t} /\ Cardinality(Fetching) < Slots
        /\ Indexing' = Indexing
    BY <2>1 DEF Fetch, At, Fetching, Indexing, fetchFrame, indexes, Types
  <2>. QED  BY <1>1, <2>2, OneMoreFits DEF SlotsHeld
<1>3. CASE \E r \in Repos : StartIndex(r)
  <2>1. PICK r \in Repos : StartIndex(r)
    BY <1>3
  <2>2. Indexing' \subseteq Indexing \cup {r} /\ Cardinality(Indexing) < Slots
        /\ Fetching' = Fetching
    BY <2>1 DEF StartIndex, Step, Indexing, Fetching, indexFrame, fetches, Types
  <2>. QED  BY <1>1, <2>2, OneMoreFits DEF SlotsHeld
<1>4. CASE \/ Boot \/ Crash \/ NextStage \/ Mise \/ PrewarmEnds \/ Link
           \/ \E t \in Tools : Unlink(t) \/ Relink(t) \/ Get(t) \/ Copy(t)
           \/ \E r \in Repos : Install(r) \/ Write(r) \/ EndIndex(r) \/ Stray(r) \/ Deadline(r)
           \/ (\E x \in Trees \cup Repos : Walk(x)) \/ UNCHANGED vars
  <2>1. Fetching' \subseteq Fetching
    <3>1. CASE Link \/ \E t \in Tools : Get(t) \/ Copy(t)
      BY <3>1 DEF Link, Get, Copy, At, After, Fetching, Types
    <3>2. CASE \E t \in Tools : Unlink(t) \/ Relink(t)
      BY <3>2 DEF Unlink, Relink, At, Fetching, Types
    <3>3. CASE Crash
      BY <3>3 DEF Crash, Fetching
    <3>4. CASE UNCHANGED job
      BY <3>4 DEF Fetching
    <3>5. \/ UNCHANGED job \/ Link \/ Crash
          \/ \E t \in Tools : Unlink(t) \/ Relink(t) \/ Get(t) \/ Copy(t)
      BY <1>4
         DEF Boot, NextStage, Mise, PrewarmEnds, Install, Write, EndIndex, Stray, Deadline,
             Walk, vars, fetches, indexFrame
    <3>. QED  BY <3>1, <3>2, <3>3, <3>4, <3>5
  <2>2. Indexing' \subseteq Indexing
    BY <1>4
       DEF Boot, Crash, NextStage, Mise, PrewarmEnds, Link, Unlink, Relink, Get,
           Copy, Install, Write, EndIndex, Stray, Deadline, Walk, vars, indexes, fetchFrame,
           indexFrame, fetches, Step, Indexing, Types
  <2>. QED  BY <1>1, <2>1, <2>2, OneMoreFits DEF SlotsHeld
<1>. QED  BY <1>2, <1>3, <1>4 DEF Next, FetchJob, Npx

-----------------------------------------------------------------------------
\* Inv is an invariant.
THEOREM Invariance == Spec => []Inv
<1>1. Inv /\ [Next]_vars => Inv'
  BY TypesStep, DownloadsStep, IndexesStep, OwnershipStep DEF Inv
<1>. QED  BY <1>1, InitInv, PTL DEF Spec

\* Every variable keeps its type, and no more than Slots downloads or npx run
\* at a time (boot.go:184, 352).
THEOREM TypeCorrect == Spec => []TypeOK
<1>1. Init => SlotsHeld
  <2>1. ASSUME Init PROVE Fetching = {} /\ Indexing = {}
    BY <2>1 DEF Init, Fetching, Indexing
  <2>. QED  BY <2>1, FS_EmptySet, BootAssumption DEF SlotsHeld
<1>2. Inv => Types
  BY DEF Inv
<1>3. Types /\ SlotsHeld => TypeOK
  BY DEF Types, SlotsHeld, TypeOK, Files
<1>. QED  BY <1>1, <1>2, <1>3, SlotsStep, Invariance, PTL DEF Spec

\* After the downloads each tool is what its fate in this boot says, and one
\* that was neither found nor failed nor lacked is there, whole and of the
\* release its URL names (boot.go:118-156, 195-261).
THEOREM DownloadsProvide == Spec => []BootProvides
<1>1. Inv => BootProvides
  BY DEF Inv, Downloads, Sound, FetchesDone, Settled, BootProvides
<1>. QED  BY <1>1, Invariance, PTL

\* After the downloads mise's shims are under their names and deno has its link,
\* whatever interrupted boots had left, unless a call of this boot failed there
\* (boot.go:101-116, 219-248).
THEOREM PathIsRepaired == Spec => []PathRepaired
<1>1. Inv => PathRepaired
  <2>. SUFFICES ASSUME Inv, phase = "prewarm" PROVE PathRepaired
    BY DEF PathRepaired
  <2>1. /\ shims \subseteq Tools /\ Deno \in Tools /\ FetchesDone
        /\ \A t \in Tools : Sound(t)
        /\ link => Executable(Deno)
    BY BootAssumption DEF Inv, Types, Downloads, Tools
  <2>. QED  BY <2>1 DEF PathRepaired, Sound, FetchesDone
<1>. QED  BY <1>1, Invariance, PTL

\* The running gateway owns what was walked, but for the repositories whose
\* npx had to be killed (boot.go:374-424).
THEOREM OwnedAtHandover == Spec => []OwnedButForStrays
<1>1. Inv => OwnedButForStrays
  BY DEF Inv, Types, Ownership, WalksDone, OwnedButForStrays
<1>. QED  BY <1>1, Invariance, PTL

\* A repository logged as indexed is, unless an earlier boot left its first index
\* unfinished (boot.go:316-369).
THEOREM ReportsAreTrue == Spec => []IndexReportTrue
<1>1. Inv => IndexReportTrue
  BY DEF Inv, Indexes, IndexReportTrue
<1>. QED  BY <1>1, Invariance, PTL
=============================================================================
