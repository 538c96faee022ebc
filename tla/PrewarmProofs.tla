--------------------------- MODULE PrewarmProofs ---------------------------
(***************************************************************************)
(* Prewarm for every set of servers, caches and specs, number of slots and *)
(* number of boots: what a marker and a report are worth.                  *)
(***************************************************************************)
EXTENDS Prewarm, TLAPS

\* The initial state satisfies the invariant.
LEMMA InitSound == Init => Sound
BY PrewarmAssumption
   DEF Init, Sound, DiskTypes, JobTypes, MarkerSound, ReportTrue, NpmJobsSound,
       DenoJobsSound, Absent, Servers

\* A boot forgets the jobs of the one before.
LEMMA BootStep == Sound /\ Boot => Sound'
BY DEF Sound, Boot, disk, DiskTypes, JobTypes, MarkerSound, ReportTrue, NpmJobsSound,
       DenoJobsSound, Servers

\* What the invariant is about.
observed == <<disk, pins, pc, ok, replaced>>

LEMMA Unobserved == Sound /\ UNCHANGED observed => Sound'
BY DEF Sound, observed, disk, DiskTypes, JobTypes, MarkerSound, ReportTrue, NpmJobsSound,
       DenoJobsSound, Whole

-----------------------------------------------------------------------------
(* A step of one npm job *)

\* It keeps the types.
LEMMA NpmTypes ==
  ASSUME Sound, NEW s \in Npm, NpmJob(s)
  PROVE  DiskTypes' /\ JobTypes'
<1> DEFINE Trees == [spec : Specs \cup {NoSpec}, whole : BOOLEAN]
<1>1. /\ npx \in [Caches -> Trees]
      /\ CacheOf[s] \in Caches /\ pins[s] \in Specs /\ npx[CacheOf[s]] \in Trees
  BY PrewarmAssumption DEF Sound, DiskTypes, JobTypes
<1>2. /\ Absent \in Trees /\ Whole(pins[s]) \in Trees /\ Torn(pins[s]) \in Trees
      /\ Torn(npx[CacheOf[s]].spec) \in Trees
  BY <1>1 DEF Absent, Whole, Torn
<1>3. npx' = npx \/ \E left \in Trees : npx' = [npx EXCEPT ![CacheOf[s]] = left]
  BY <1>1, <1>2
     DEF NpmJob, Acquire, CheckWarm, Remove, NpmProgress, NpmSucceeds, NpmFails, Mark,
         Write, Release, Collect, disk
<1>4. npx' \in [Caches -> Trees]
  BY <1>1, <1>3
<1>5. /\ marker' \in [Caches -> Specs \cup {NoSpec}]
      /\ graph' = graph /\ pins' = pins
      /\ replaced' \in SUBSET Caches
  BY <1>1
     DEF Sound, DiskTypes, JobTypes, frame, disk, NpmJob, Acquire, CheckWarm, Remove,
         NpmProgress, NpmSucceeds, NpmFails, Mark, Write, Release, Collect
<1>6. /\ pc' = pc \/ \E to \in {"check", "remove", "install", "mark", "write", "sent",
                                "released"} : pc' = [pc EXCEPT ![s] = to]
      /\ ok' = ok \/ \E result \in {"yes", "no"} : ok' = [ok EXCEPT ![s] = result]
  BY DEF NpmJob, Acquire, CheckWarm, Remove, NpmProgress, NpmSucceeds, NpmFails, Mark,
         Write, Release, Collect, Return, job
<1>. QED
  BY <1>4, <1>5, <1>6 DEF Sound, DiskTypes, JobTypes

\* It leaves the other caches and the other jobs alone.
LEMMA NpmLocal ==
  ASSUME Sound, NEW s \in Npm, NpmJob(s)
  PROVE  /\ \A c \in Caches \ {CacheOf[s]} :
              marker'[c] = marker[c] /\ npx'[c] = npx[c]
              /\ (c \in replaced' <=> c \in replaced)
         /\ \A t \in Servers \ {s} : pc'[t] = pc[t] /\ ok'[t] = ok[t]
         /\ graph' = graph /\ pins' = pins
<1>1. /\ npx' = npx \/ \E left : npx' = [npx EXCEPT ![CacheOf[s]] = left]
      /\ marker' = marker \/ \E spec : marker' = [marker EXCEPT ![CacheOf[s]] = spec]
      /\ pc' = pc \/ \E to : pc' = [pc EXCEPT ![s] = to]
      /\ ok' = ok \/ \E result : ok' = [ok EXCEPT ![s] = result]
      /\ graph' = graph /\ pins' = pins
  BY ZenonT(60) DEF NpmJob, Acquire, CheckWarm, Remove, NpmProgress, NpmSucceeds, NpmFails,
         Mark, Write, Release, Collect, Return, job, disk, frame
<1>2. \A c \in Caches \ {CacheOf[s]} : c \in replaced' <=> c \in replaced
  BY DEF NpmJob, Acquire, CheckWarm, Remove, NpmProgress, NpmSucceeds, NpmFails, Mark,
         Write, Release, Collect
<1>. QED
  BY <1>1, <1>2 DEF Sound, DiskTypes, JobTypes

\* The part of the invariant that is about one npm job and its cache.
OwnSound(s) ==
  LET c == CacheOf[s] IN
    /\ marker[c] # NoSpec /\ c \notin replaced => npx[c] = Whole(marker[c])
    /\ ok[s] = "yes" => npx[c] = Whole(pins[s]) \/ c \in replaced
    /\ pc[s] \in {"remove", "install", "mark"} => c \in replaced \/ marker[c] = NoSpec
    /\ pc[s] \in {"mark", "write"} => npx[c] = Whole(pins[s])
    /\ pc[s] = "write" => marker[c] = NoSpec
    /\ ok[s] = "yes" => pc[s] \in {"sent", "released"}

LEMMA NpmOwn ==
  ASSUME Sound, NEW s \in Npm, NpmJob(s)
  PROVE  OwnSound(s)'
<1>1. /\ OwnSound(s)
      /\ CacheOf[s] \in Caches /\ s \in Servers /\ pins[s] \in Specs
      /\ marker \in [Caches -> Specs \cup {NoSpec}]
      /\ DOMAIN npx = Caches /\ DOMAIN pc = Servers /\ DOMAIN ok = Servers
      /\ NoSpec \notin Specs
  BY PrewarmAssumption
     DEF Sound, DiskTypes, JobTypes, Servers, MarkerSound, ReportTrue, NpmJobsSound, OwnSound
<1> USE DEF job, frame, disk, OwnSound
<1>2. CASE Acquire(s)
  BY <1>1, <1>2 DEF Acquire
<1>3. CASE CheckWarm(s)
  <2>1. CASE Warm(s) /\ Return(s, "check", "yes") /\ UNCHANGED replaced
    BY <1>1, <1>3, <2>1 DEF CheckWarm, Warm, Return
  \* A marker of this very pin over no tree: only a replaced one.
  <2>2. CASE /\ ~Warm(s) /\ job(s, "check", "remove") /\ UNCHANGED ok
             /\ replaced' = IF marker[CacheOf[s]] = pins[s] THEN replaced
                            ELSE replaced \cup {CacheOf[s]}
    <3>1. CASE marker[CacheOf[s]] = pins[s]
      <4>1. npx[CacheOf[s]] = Absent
        BY <2>2, <3>1 DEF Warm
      <4>2. CacheOf[s] \in replaced
        BY <1>1, <4>1, <3>1 DEF Absent, Whole
      <4>. QED
        BY <1>1, <1>3, <2>2, <3>1, <4>2 DEF CheckWarm
    <3>2. CASE marker[CacheOf[s]] # pins[s]
      BY <1>1, <1>3, <2>2, <3>2 DEF CheckWarm
    <3>. QED
      BY <3>1, <3>2
  <2>. QED
    BY <1>3, <2>1, <2>2 DEF CheckWarm
<1>4. CASE Remove(s)
  BY <1>1, <1>4 DEF Remove, Return
<1>5. CASE NpmProgress(s)
  BY <1>1, <1>5 DEF NpmProgress
<1>6. CASE NpmSucceeds(s)
  BY <1>1, <1>6 DEF NpmSucceeds
<1>7. CASE NpmFails(s)
  BY <1>1, <1>7 DEF NpmFails, Return
<1>8. CASE Mark(s)
  BY <1>1, <1>8 DEF Mark, Return
<1>9. CASE Write(s)
  BY <1>1, <1>9 DEF Write, Return
<1>10. CASE Release(s)
  BY <1>1, <1>10 DEF Release
<1>11. CASE Collect(s)
  BY <1>1, <1>11 DEF Collect
<1>. QED
  BY <1>2, <1>3, <1>4, <1>5, <1>6, <1>7, <1>8, <1>9, <1>10, <1>11 DEF NpmJob

LEMMA NpmStep ==
  ASSUME Sound, NEW s \in Npm, NpmJob(s)
  PROVE  Sound'
<1>1. DiskTypes' /\ JobTypes'
  BY NpmTypes
<1>2. /\ \A c \in Caches \ {CacheOf[s]} :
           marker'[c] = marker[c] /\ npx'[c] = npx[c]
           /\ (c \in replaced' <=> c \in replaced)
      /\ \A t \in Servers \ {s} : pc'[t] = pc[t] /\ ok'[t] = ok[t]
      /\ graph' = graph /\ pins' = pins
  BY NpmLocal
<1>3. OwnSound(s)'
  BY NpmOwn
<1>4. \A t \in Npm \ {s} : CacheOf[t] \in Caches \ {CacheOf[s]} /\ t \in Servers \ {s}
  BY PrewarmAssumption DEF Servers
<1>5. \A t \in Deno : t \in Servers \ {s}
  BY PrewarmAssumption DEF Servers
<1>6. MarkerSound'
  BY <1>2, <1>3 DEF Sound, MarkerSound, OwnSound, Whole
<1>7. ReportTrue'
  <2>1. \A t \in Npm \ {s} : ok'[t] = "yes" =>
          npx'[CacheOf[t]] = Whole(pins'[t]) \/ CacheOf[t] \in replaced'
    BY <1>2, <1>4 DEF Sound, ReportTrue
  <2>2. \A t \in Deno : ok'[t] = "yes" => graph'[t] = "whole"
    BY <1>2, <1>5 DEF Sound, ReportTrue
  <2>. QED
    BY <2>1, <2>2, <1>3 DEF ReportTrue, OwnSound, Whole
<1>8. NpmJobsSound'
  <2>1. \A t \in Npm \ {s} :
          /\ pc'[t] \in {"remove", "install", "mark"} =>
               CacheOf[t] \in replaced' \/ marker'[CacheOf[t]] = NoSpec
          /\ pc'[t] \in {"mark", "write"} => npx'[CacheOf[t]] = Whole(pins'[t])
          /\ pc'[t] = "write" => marker'[CacheOf[t]] = NoSpec
          /\ ok'[t] = "yes" => pc'[t] \in {"sent", "released"}
    BY <1>2, <1>4 DEF Sound, NpmJobsSound
  <2>. QED
    BY <2>1, <1>3 DEF NpmJobsSound, OwnSound, Whole
<1>9. DenoJobsSound'
  BY <1>2, <1>5 DEF Sound, DenoJobsSound
<1>. QED
  BY <1>1, <1>6, <1>7, <1>8, <1>9 DEF Sound

-----------------------------------------------------------------------------
(* The uv and deno jobs, and the boots *)

\* A step that touches no npm job, no npm cache and no graph but its own.
LEMMA SerialStep ==
  ASSUME Sound, NEW s \in Uv \cup Deno,
         StartSerial(s) \/ (s \in Uv /\ UvEnds(s))
           \/ (s \in Deno /\ (DenoProgress(s) \/ DenoCaches(s) \/ DenoReloads(s)))
  PROVE  Sound'
<1>1. s \in Servers /\ s \notin Npm /\ (s \in Deno => s \notin Uv)
  BY PrewarmAssumption DEF Servers
<1>2. UNCHANGED <<marker, npx, replaced, pins>>
  BY DEF StartSerial, UvEnds, DenoProgress, DenoCaches, DenoReloads, Done, disk, frame
<1>3. /\ pc' \in [Servers -> {"queued", "check", "remove", "install", "mark", "write",
                              "sent", "released", "cache", "reload", "done"}]
      /\ ok' \in [Servers -> {"none", "yes", "no"}]
      /\ \A t \in Servers \ {s} : pc'[t] = pc[t] /\ ok'[t] = ok[t]
  BY <1>1
     DEF Sound, JobTypes, StartSerial, UvEnds, DenoProgress, DenoCaches, DenoReloads, Done,
         job, disk, frame
<1>4. /\ graph' \in [Deno -> {"cold", "torn", "whole"}]
      /\ \A t \in Deno \ {s} : graph'[t] = graph[t]
  BY <1>1
     DEF Sound, DiskTypes, StartSerial, UvEnds, DenoProgress, DenoCaches, DenoReloads, disk
<1>5. DiskTypes' /\ JobTypes'
  BY <1>2, <1>3, <1>4 DEF Sound, DiskTypes, JobTypes
<1>6. \A t \in Npm : t \in Servers \ {s}
  BY <1>1 DEF Servers
<1>7. MarkerSound' /\ NpmJobsSound'
  BY <1>2, <1>3, <1>6 DEF Sound, MarkerSound, NpmJobsSound, Whole
<1>8. s \in Deno /\ ok'[s] = "yes" => graph'[s] = "whole" /\ pc'[s] = "done"
  BY <1>1
     DEF Sound, DiskTypes, JobTypes, ReportTrue, DenoJobsSound, Servers, StartSerial,
         DenoProgress, DenoCaches, DenoReloads, Done, job, disk, frame
<1>9. \A t \in Deno \ {s} : t \in Servers \ {s}
  BY DEF Servers
<1>10. ReportTrue' /\ DenoJobsSound'
  BY <1>2, <1>3, <1>4, <1>6, <1>8, <1>9 DEF Sound, ReportTrue, DenoJobsSound, Whole
<1>. QED
  BY <1>5, <1>7, <1>10 DEF Sound

LEMMA SoundStep == Sound /\ [Next]_vars => Sound'
<1> SUFFICES ASSUME Sound, [Next]_vars PROVE Sound'
  OBVIOUS
<1>1. CASE Boot
  BY <1>1, BootStep
<1>2. CASE Sweep \/ NextStage \/ Crash
  BY <1>2, Unobserved DEF Sweep, NextStage, Crash, observed
<1>3. ASSUME NEW s \in Npm, NpmJob(s) PROVE Sound'
  BY <1>3, NpmStep
<1>4. ASSUME NEW s \in Uv \cup Deno, StartSerial(s) PROVE Sound'
  BY <1>4, SerialStep
<1>5. ASSUME NEW s \in Uv, UvEnds(s) PROVE Sound'
  BY <1>5, SerialStep
<1>6. ASSUME NEW s \in Deno, DenoProgress(s) \/ DenoCaches(s) \/ DenoReloads(s) PROVE Sound'
  BY <1>6, SerialStep
<1>7. CASE UNCHANGED vars
  BY <1>7, Unobserved DEF vars, observed
<1>. QED
  BY <1>1, <1>2, <1>3, <1>4, <1>5, <1>6, <1>7 DEF Next

-----------------------------------------------------------------------------
(* What Prewarm counts and returns *)

Books == Accounts /\ Stages /\ ExitCountsAll

LEMMA InitBooks == Init => Books
BY DEF Init, Books, Accounts, Stages, ExitCountsAll, Counted, Sent, Servers

LEMMA BootBooks ==
  ASSUME Inv, Boot
  PROVE  Books'
<1>1. /\ \A s \in Servers : pc'[s] = "queued"
      /\ collected' = {} /\ failures' = 0
      /\ phase' \in {"sweep", "off"} /\ exit' \in {"none", "skipped"}
  BY DEF Boot
<1>2. Counted' = {} /\ Sent' = {}
  BY <1>1 DEF Counted, Sent, Servers
<1>. QED
  BY <1>1, <1>2 DEF Books, Accounts, Stages, ExitCountsAll

\* A job of the npm stage never changes a result once it is sent.
LEMMA NpmBooks ==
  ASSUME Inv, NEW s \in Npm, NpmJob(s)
  PROVE  Books'
<1>1. /\ s \in Servers /\ s \notin Uv \cup Deno
      /\ pc \in [Servers -> {"queued", "check", "remove", "install", "mark", "write",
                             "sent", "released", "cache", "reload", "done"}]
      /\ ok \in [Servers -> {"none", "yes", "no"}]
      /\ Accounts /\ Stages /\ ExitCountsAll
      /\ Npm \subseteq Servers /\ Uv \subseteq Servers /\ Deno \subseteq Servers
  BY PrewarmAssumption DEF Inv, Sound, JobTypes, Servers
<1>2. CASE Collect(s)
  <2>1. /\ phase = "npm" /\ s \in Sent /\ s \notin collected
        /\ collected' = collected \cup {s}
        /\ UNCHANGED <<phase, pc, ok, exit>>
        /\ failures' = IF ok[s] = "yes" THEN failures ELSE failures + 1
    BY <1>2 DEF Collect
  <2>2. Counted' = Counted \cup {s} /\ Sent' = Sent
    BY <2>1 DEF Counted, Sent
  <2>3. ok[s] \in {"yes", "no"}
    BY <1>1, <2>1 DEF Accounts
  <2>4. Accounts'
    BY <1>1, <2>1, <2>2, <2>3 DEF Accounts
  <2>5. Stages' /\ ExitCountsAll'
    BY <1>1, <2>1 DEF Stages, ExitCountsAll
  <2>. QED
    BY <2>4, <2>5 DEF Books
<1>3. CASE ~Collect(s)
  <2>1. /\ UNCHANGED <<phase, collected, failures, exit>>
        /\ phase # "off"
        /\ phase = "npm" \/ pc[s] # "queued"
        /\ \E to \in {"check", "remove", "install", "mark", "write", "sent", "released"} :
             pc' = [pc EXCEPT ![s] = to]
    BY <1>3 DEF NpmJob, Acquire, CheckWarm, Remove, NpmProgress, NpmSucceeds, NpmFails,
                Mark, Write, Release, Return, job, frame
  <2>2. CASE pc[s] \in {"sent", "released"}
    <3>1. ok' = ok /\ pc' = [pc EXCEPT ![s] = "released"]
      BY <1>3, <2>2
         DEF NpmJob, Acquire, CheckWarm, Remove, NpmProgress, NpmSucceeds, NpmFails,
             Mark, Write, Release, Return, job
    <3>2. Counted' = Counted /\ Sent' = Sent
      BY <1>1, <2>1, <2>2, <3>1 DEF Counted, Sent
    <3>3. Accounts' /\ ExitCountsAll'
      BY <1>1, <2>1, <3>1, <3>2 DEF Accounts, ExitCountsAll
    <3>4. Stages'
      BY <1>1, <2>1, <2>2, <3>1 DEF Stages, Finished
    <3>. QED
      BY <3>3, <3>4 DEF Books
  <2>3. CASE pc[s] \notin {"sent", "released"}
    <3>1. \/ ok' = ok /\ pc'[s] \notin {"sent", "released"}
          \/ \E result \in {"yes", "no"} : ok' = [ok EXCEPT ![s] = result] /\ pc'[s] = "sent"
      BY <1>1, <1>3, <2>3
         DEF NpmJob, Acquire, CheckWarm, Remove, NpmProgress, NpmSucceeds, NpmFails,
             Mark, Write, Release, Return, job
    <3>2. \A t \in Servers \ {s} : pc'[t] = pc[t] /\ ok'[t] = ok[t]
      BY <1>1, <2>1, <3>1
    <3>3. /\ Counted' = Counted /\ s \notin Counted
          /\ Sent' = Sent \/ (Sent' = Sent \cup {s} /\ ok'[s] \in {"yes", "no"})
      BY <1>1, <2>1, <2>3, <3>1, <3>2 DEF Counted, Sent, Accounts
    <3>4. Counted \subseteq Servers \ {s} /\ Sent \subseteq Servers \ {s}
      BY <1>1, <2>3, <3>3 DEF Counted, Sent, Accounts
    <3>5. Accounts'
      BY <1>1, <2>1, <3>2, <3>3, <3>4 DEF Accounts
    <3>6. Stages' /\ ExitCountsAll'
      BY <1>1, <2>1, <3>2 DEF Stages, ExitCountsAll, Finished
    <3>. QED
      BY <3>5, <3>6 DEF Books
  <2>. QED
    BY <2>2, <2>3
<1>. QED
  BY <1>2, <1>3

\* A uv or deno job is counted as it ends.
LEMMA SerialBooks ==
  ASSUME Inv, NEW s \in Uv \cup Deno,
         StartSerial(s) \/ (s \in Uv /\ UvEnds(s))
           \/ (s \in Deno /\ (DenoProgress(s) \/ DenoCaches(s) \/ DenoReloads(s)))
  PROVE  Books'
<1>1. /\ s \in Servers /\ s \notin Npm
      /\ pc \in [Servers -> {"queued", "check", "remove", "install", "mark", "write",
                             "sent", "released", "cache", "reload", "done"}]
      /\ ok \in [Servers -> {"none", "yes", "no"}]
      /\ Accounts /\ Stages /\ ExitCountsAll
      /\ Npm \subseteq Servers /\ Uv \subseteq Servers /\ Deno \subseteq Servers
  BY PrewarmAssumption DEF Inv, Sound, JobTypes, Servers
<1>2. /\ UNCHANGED <<phase, collected, exit>>
      /\ phase # "off" /\ pc[s] # "done"
      /\ phase \in {"uv", "deno"} \/ pc[s] # "queued"
  BY DEF StartSerial, UvEnds, DenoProgress, DenoCaches, DenoReloads, Done, job, disk, frame
<1>3. \A t \in Servers \ {s} : pc'[t] = pc[t] /\ ok'[t] = ok[t]
  BY <1>1 DEF StartSerial, UvEnds, DenoProgress, DenoCaches, DenoReloads, Done, job, frame
<1>4. \/ ok' = ok /\ pc'[s] # "done" /\ failures' = failures
      \/ /\ pc'[s] = "done" /\ ok'[s] \in {"yes", "no"}
         /\ failures' = IF ok'[s] = "yes" THEN failures ELSE failures + 1
  BY <1>1, <1>2
     DEF StartSerial, UvEnds, DenoProgress, DenoCaches, DenoReloads, Done, job, frame
<1>5. /\ Sent' = Sent
      /\ Counted' = IF pc'[s] = "done" THEN Counted \cup {s} ELSE Counted
  BY <1>1, <1>2, <1>3 DEF Sent, Counted
<1>6. Counted \subseteq Servers \ {s} /\ Sent \subseteq Servers \ {s}
  BY <1>1, <1>2 DEF Counted, Sent, Accounts
<1>7. Accounts'
  BY <1>1, <1>2, <1>3, <1>4, <1>5, <1>6 DEF Accounts
<1>8. Stages' /\ ExitCountsAll'
  BY <1>1, <1>2, <1>3, <1>4 DEF Stages, ExitCountsAll, Finished
<1>. QED
  BY <1>7, <1>8 DEF Books

\* The last sweep finds every job counted.
LEMMA PhaseBooks ==
  ASSUME Inv, Sweep \/ NextStage \/ Crash \/ UNCHANGED vars
  PROVE  Books'
<1>1. Accounts'
  BY DEF Inv, Accounts, Counted, Sent, Sweep, NextStage, Crash, vars
<1>2. CASE Sweep
  <2>1. CASE phase = "sweep" /\ phase' = "npm" /\ UNCHANGED exit
    BY <1>1, <1>2, <2>1 DEF Inv, Books, Stages, ExitCountsAll, Finished, Sweep
  <2>2. CASE /\ phase = "resweep" /\ phase' = "off"
             /\ exit' = IF failures > 0 THEN "1" ELSE "0"
    <3>1. Counted = Servers
      BY <2>2 DEF Inv, Stages, Finished, Counted, Servers
    <3>2. Stages'
      BY <2>2 DEF Stages
    <3>3. ExitCountsAll'
      BY <1>2, <2>2, <3>1 DEF Inv, Accounts, ExitCountsAll, Sweep
    <3>. QED
      BY <1>1, <3>2, <3>3 DEF Books
  <2>. QED
    BY <1>1, <1>2, <2>1, <2>2 DEF Sweep, Books, Inv, Stages, ExitCountsAll
<1>3. CASE NextStage
  BY <1>1, <1>3 DEF Inv, Books, Stages, ExitCountsAll, Finished, NextStage, CollectedAll
<1>4. CASE Crash \/ UNCHANGED vars
  BY <1>1, <1>4 DEF Inv, Books, Stages, ExitCountsAll, Finished, Crash, vars
<1>. QED
  BY <1>2, <1>3, <1>4

LEMMA StepInv == Inv /\ [Next]_vars => Inv'
<1> SUFFICES ASSUME Inv, [Next]_vars PROVE Books'
  BY SoundStep DEF Inv, Books
<1>1. CASE Boot
  BY <1>1, BootBooks
<1>2. CASE Sweep \/ NextStage \/ Crash \/ UNCHANGED vars
  BY <1>2, PhaseBooks
<1>3. ASSUME NEW s \in Npm, NpmJob(s) PROVE Books'
  BY <1>3, NpmBooks
<1>4. ASSUME NEW s \in Uv \cup Deno, StartSerial(s) PROVE Books'
  BY <1>4, SerialBooks
<1>5. ASSUME NEW s \in Uv, UvEnds(s) PROVE Books'
  BY <1>5, SerialBooks
<1>6. ASSUME NEW s \in Deno, DenoProgress(s) \/ DenoCaches(s) \/ DenoReloads(s) PROVE Books'
  BY <1>6, SerialBooks
<1>. QED
  BY <1>1, <1>2, <1>3, <1>4, <1>5, <1>6 DEF Next

\* The invariant holds throughout every life of a volume, whatever the pins of
\* each boot and wherever the pod is killed.
THEOREM Invariance == Spec => []Inv
<1>1. Init => Inv
  BY InitSound, InitBooks DEF Inv, Books
<1>. QED
  BY <1>1, StepInv, PTL DEF Spec

\* A marker never vouches for a tree that is absent, torn or of another spec,
\* except one whose replacement has begun and not been completed
\* (prewarm.go:137-165).
THEOREM MarkersAreSound == Spec => []MarkerSound
<1>1. Inv => MarkerSound
  BY DEF Inv, Sound
<1>. QED
  BY <1>1, Invariance, PTL

\* A server reported as materialised is, with the same exception
\* (prewarm.go:137-210).
THEOREM ReportsAreTrue == Spec => []ReportTrue
<1>1. Inv => ReportTrue
  BY DEF Inv, Sound
<1>. QED
  BY <1>1, Invariance, PTL

\* Prewarm's exit code accounts for every server of the manifest
\* (prewarm.go:326-362).
THEOREM ExitCodeIsRight == Spec => []ExitCountsAll
<1>1. Inv => ExitCountsAll
  BY DEF Inv
<1>. QED
  BY <1>1, Invariance, PTL

\* Neither sweep of a boot meets a job of that boot (prewarm.go:317-322, 353).
THEOREM SweepsAreSafe == Spec => []SweepSparesOwn
<1>1. Inv => SweepSparesOwn
  <2>1. ASSUME Stages, Accounts, phase \in {"sweep", "resweep"} PROVE Running = {}
    BY <2>1 DEF Stages, Accounts, Finished, Sent, Running, Servers
  <2>. QED
    BY <2>1 DEF Inv, SweepSparesOwn
<1>. QED
  BY <1>1, Invariance, PTL
=============================================================================
