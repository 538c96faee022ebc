# Formal model of the GitOps repository

The repository deploys a home Kubernetes cluster with Argo CD. Most of it is
declarative (Helm charts, ApplicationSets, values). Its own *running* code is
small and concentrated: the Go command line `gitopsctl`, which certifies the MCP
servers of the `openagent` gateway, warms their package caches and boots the
gateway pod; the Python hooks the gateway calls; the responses proxy in front of
LiteLLM; and a few workflows that move pins. The modules here model that code.

## Inventory

Paths are relative to `src/`; `mcp/` and `boot/` stand for
`.useful-scripts/gitopsctl/internal/mcp/` and `.../internal/boot/`.

| component | state it keeps | operations | what is hard | correct when |
|---|---|---|---|---|
| stdio session (`mcp/stdio.go`) | child process group, message channel of 64, eof and stderr signals, request ids | start, scan stdout, send, read with deadline, list tools, call a tool, close | two goroutines and a process group; select over three ready events; descendants that keep the pipes; server requests with clashing ids | every answer is matched to its request, none is lost at end of file, the deadline ends it, nothing is left running |
| HTTP session (`mcp/http.go`) | session id, cursor | POST, parse body, open, list tools, probe | timeout per POST, endless cursors, SSE events in any number | as above, over POSTs |
| manifest (`mcp/manifest.go`) | none | select, expand, baseline and child environment | the order of a range over a Go map | a placeholder resolves or is diagnosed |
| verify runner (`mcp/verify.go`) | failures so far | one server after the other: placeholders, handshake with a retry, tools, probe | a failure at any of four stages; transient faults | exit 0 is evidence about every enabled server |
| pre-warm (`mcp/prewarm.go`) | npm caches and markers, deno cache (on the volume); semaphore, result channel | sweep, materialise npm/uv/deno, count | crashes between any two steps; boots with other pins; bounded concurrency | a server reported warm is warm |
| boot (`boot/boot.go`) | binaries, indexes, ownership on the volume | mise, shims, downloads, pre-warm, codegraph, chown, exec | interrupted boots, partial files, hanging downloads | hands over with a usable volume |
| system dependencies (`boot/deps.go`) | apt caches | update, install | - | stops at the first failure |
| command line (`cmd/gitopsctl/main.go`) | the installed binary | dispatch, flags, install | flags after a path; an init container killed while it writes | exit codes mean what they say; an installed binary is whole |
| lints (`mcp/validate.go`, `internal/chart/templates.go`, `internal/litellm/values.go`) | none | one pass over a manifest, a template or the values | scanners with small automata; rules other commands rely on | agree with the language they lint; what passes is safe |
| claude-health hook (`services/helm/openagent/hooks/claude-health/handler.py`) | last check, logged kinds | classify, throttle, alert | concurrent sessions around awaits | alerts on positive evidence only, and does alert |
| session-link hook (`services/helm/openagent/templates/hooks.yaml`) | set of seen sessions, cap 500 | post a link once | the cap; failed posts | one link per session |
| responses proxy (`services/helm/openagent/templates/responses-proxy-configmap.yaml`) | per request: open item, buffer, items | merge messages, translate stream, retry, fall back | chunk boundaries, interleaved deltas, early ends | what the client is told is what the upstream said |
| pin bump (`.github/workflows/gitopsctl-pin-bump.yaml`) | the pin on main | require image, move, rebase, push | runs of two merges overlap | the pin follows main |
| staging and preview sets (`apps/argocd-appset/templates/preview.yml`) | applications generated | two generators poll | independent polling | one claimant of the host |
| the rest | charts, subcharts, storage GC gates, other ApplicationSets, CI workflows | rendering | - | - |

How they interact: the manifest is rendered once into a ConfigMap
(`templates/hooks.yaml`), which three parties read: the boot's pre-warm, the
PostSync preflight Job and the drift CronJob. Both Jobs run the verify runner,
which opens one session per attempt. The static validation runs in CI and
guarantees what the others take for granted (pins, one npm cache per server;
`CleanMeansSafe`).
The boot runs the pre-warm in its own process and then replaces itself with the
gateway, which calls the hooks and, through LiteLLM, the proxies.

The hazards of this code, each at its line, are in `PROJECT.json` under
`hazards`, with the properties that watch them.

## Modules

| module | models | role |
|---|---|---|
| `McpAttempt` | what a handshake or a probe promises over either transport | abstract specification |
| `McpStdio` | `mcp/stdio.go` | detailed specification, refines `McpAttempt` |
| `McpHttp` | `mcp/http.go` | detailed specification, refines `McpAttempt` |
| `ChildEnv` | `Expand`, `BaselineEnv`, `ChildEnv` of `mcp/manifest.go` | operators |
| `McpVerify` | `mcp/verify.go` | the run over a manifest, on top of `ChildEnv`; an attempt is kept as its outcome |
| `Prewarm` | `mcp/prewarm.go` | the caches of a volume over several boots |
| `GatewayBoot` | `boot/boot.go` | the boot sequence over a volume, with `Prewarm` seen from outside |
| `Gitopsctl` | `cmd/gitopsctl/main.go`, `boot/deps.go` | the command line; runs the three lints |
| `ManifestPolicy` | `mcp/validate.go`, `PackageSpec`, `NPMCacheFor` | operators: the rules, and what a manifest is relied on for |
| `TemplateBalance` | `internal/chart/templates.go` | operators: the scan, and a reference reading |
| `LitellmPolicy` | `internal/litellm/values.go` | operators: the scan, and a reference reading |
| `ResponsesProxy` | `templates/responses-proxy-configmap.yaml` | a conversation through the proxy |
| `ClaudeHealth` | `hooks/claude-health/handler.py` | the hook under concurrent sessions, with a clock |
| `McpStdioProofs`, `McpHttpProofs`, `McpVerifyProofs`, `PrewarmProofs`, `GatewayBootProofs`, `GitopsctlProofs`, `ResponsesProxyProofs`, `ClaudeHealthProofs` | - | theorems about the modules they are named for |
| `MC...` | - | instances for TLC |

Definitions whose comment starts with *Mutant:* are not part of a specification.
Each is the definition that follows it with a plausible mistake, kept to show
that the property named beside it in `PROJECT.json` notices.

### McpAttempt

Four variables: the mode, whether `initialize` was answered, what the last answer
said, and the outcome. `Answer` takes one answer and judges it (an error fails; the
answer to `initialize` and a page with a cursor leave the attempt open; anything
else passes); `GiveUp` fails an open attempt. A settled outcome never changes.

### McpStdio

`pc` is the control point of the calling goroutine through `openStdio`,
`listToolsStdio` or `callToolStdio`, `Read` and `Close`:

| `pc` | code |
|---|---|
| `start` | `NewStdio` |
| `send`, `notify` | `Send` of a request, of `notifications/initialized` |
| `top`, `select`, `flush` | head of the loop of `Read`, its `select`, the wait for stderr |
| `term`, `grace`, `reap` | `Close`: SIGTERM, half a second, SIGKILL, wait |
| `done` | the attempt has returned |

`scanner`, `held`, `pipe` and `channel` are `scanStdout`, the line in its hand,
the kernel's pipe and the Go channel; `live` and `holders` are the processes of
the group and those that have its pipes. A line is a banner, a notification, a
request of the server or a reply; a reply carries, for the properties only, the
number of the request it answers. The server may write any of them at any time,
answer a request late, twice or out of order, spawn descendants that inherit the
pipes, close stdout and exit. Time is one event, `DeadlinePasses`; the code's
sleeps and secondary timeouts may end at any moment.

Abstracted: the content of tools (McpVerify has it), the stderr ring, the
diagnostics. A write is atomic and does not block, which holds for requests
smaller than a pipe buffer.

### McpHttp

`step` is the POST the client is at, `waiting` whether it is in `client.Do`, and
`onWay`, `reply` are the network: a POST that was given up may still reach the
server, and its response is then read by nobody. `Break` is the timer of the POST
or an error of the transport; for the initialized notification it is ignored, as
the code does. A body is a sequence of events (the answer, a notification,
something that is no JSON), and `ParseBody` takes the last event that parses.
The server may be strict (it refuses what lacks its session, or comes before it
was told initialized) or not; it may refuse anything, and answer with any body in
which a request is answered at most once. Histories: what the server said, what
went wrong, and whether a message was taken in place of an answer (`masked`).
Left out: headers and URL (their resolution is in `McpVerify`) and the content of
the tool lists.

### ChildEnv and McpVerify

`ChildEnv` gives the *set* of results one call may return, over the orders in
which Go may range over the declared entries. A value is one of five kinds
(unset, the placeholder text, a secret, a default, a literal); a template is a
literal or one reference. `McpVerify` has the loop of `Execute` as a phase per
stage, and a history `calls` of what was attempted with which environment and
which outcome. Every attempt computes its own environment, as in the code. What
servers answer is nondeterministic; a server reached over HTTP may also give
cursors for ever (`PagesOn`), and the run stays in the phase `paging`.

### Prewarm

Persistent: `marker`, `npx` (no directory, or the tree of a spec, whole or
torn), `graph` (deno). Of one boot: the pins of its manifest, the control point
of every job, the result channel (`Sent` minus `collected`), the failures. The
semaphore is `Holding`. `Crash` ends a boot at any step; the startup probe of
the pod kills a boot after about 20 minutes, so this does happen. The history
`replaced` names the caches whose marked tree gave way to an installation that
has not been completed. A marker is written by `os.WriteFile`, which may fail
before it truncates the old one or after (`Mark`, `Write`). Assumed of npm: exit code 0 means that the tree is
whole. Assumed of the manifest: a cache per npm server, which rule 7 of
`mcp/validate.go` enforces in CI.

### GatewayBoot

`phase` is the stage of `Run`: `mise`, `link` (shims), `fetch` (downloads),
`prewarm`, `index` (codegraph), `chown` (walks), `hermes` (after the handover);
`off` between containers and `hung` when mise waits for ever. On the volume:
what each binary is (nothing, a shim, torn, whole of a release; of release 0 where
the URL names none, as doppler's does: `Pinned`), deno's link and
whether its directory exists, the index of each
repository (`interrupted` is a first index an earlier boot left unfinished), and
the set `root` of trees and repositories with root-owned files.
`job` and `worker` are the goroutines of the downloads and of the indexes; a slot
is held from the start of the work to its end, and the check for an executable is
taken together with the slot, since no other goroutine touches that file.
`stray` holds the repositories whose indexer outlived its `npx`:
`exec.CommandContext` kills one process. `Crash` ends a container with all its
processes. The boot drops the errors of `os.Remove` and `os.Symlink`, so each of
these calls may fail and leave things as they are (`Remove`, `Relink`, `Link`), and
an archive without the wanted entry is no error (`Get`). Histories of a boot say
which: `fate` is what the download of each tool came to, `missed` the tools at
which a call failed; the code keeps neither. Whether `npx` has to install
codegraph first is left open (`StartIndex`): what the pre-warm left in the cache,
and what concurrent installations make of it, is for npm to say. Assumed of
codegraph: `init` makes its directory first and succeeds only with a complete
index; nothing is assumed of a `sync` over an incomplete one. Left out: the
codegraph cache, the environment, the yt-dlp configuration, the paddle-ocr script.

### Gitopsctl and the lints

A command line is the words of the command and a sequence of arguments, each a
word, a flag, a flag with its value, or the terminator. `Parse` is what Go's
`flag` package does with them; `manifestFlagFirst` reorders them for
`codegraph index`. A command ends with an exit code; what `boot`, `mcp prewarm`
and `mcp verify` do besides is in their modules. `install` is step by step, each
step may fail, and a container that was killed or failed is started again.

*TemplateBalance.* A text is a sequence of pieces; delimiters have the names of
Go's lexer, and quotes, backslashes and line ends are pieces of their own.
`Scanning` is the state of the code's loop after each piece, a recursive function;
it includes that an orphan `end` does not jump behind its action. `Expected` is
what should be found, "every structural error" (`templates.go:84-85`): the lexer of
`text/template` says where actions are, and
blocks are matched by counting. The two agree on texts that are `Plain`, but for
one case: an action without an end ends the scan at once (`templates.go:107-112`),
so the blocks that are open there are not named, and one pass does not name all of
them. Outside `Plain` they do not agree: line ends inside an action are not counted, so later findings carry a
line that is too small; a quote or a `}}` in a comment is taken for one of an
action; a backslash hides the next character in raw strings too; and a `{{` in a
string behind an orphan `end` is read as an action, because the scan goes on
inside the one of the orphan (`templates.go:126`). Trim markers and
punctuation are taken off by `actionKeyword` and are not modelled (the punctuation
its comment mentions is not taken off by the code), nor is the walk of the
directories but for its failure.

*LitellmPolicy.* A line is what `parseKeyLine` gets out of it; the text behind the
colon is a scalar, the keys of a one-line flow mapping, and a comment, an anchor or
a tag that is no value to YAML. `Expected` reads the
lines as a YAML tree: a cache key is at fault when its parent is the
`litellm_params` of a model. On lines that are a `Document` the scan differs from it
in these cases, each named in `CacheKeysFound`:

- behind a `litellm_params:` with a comment, an anchor or a tag the block is never
  opened, because the text behind the colon is not empty (`values.go:80-85`): what is
  under it is not looked at (`Unopened`);
- `flowCacheKeys` searches the text: it does not see `{"cache": true}`
  (`PassedOver`), and takes `{no_cache: 1}`, a key of an inner mapping or a comment
  with `cache:` for one (`Lookalike`);
- `cache:` with its mapping on the lines below is passed over (`values.go:67`),
  though a cache key "must never appear" (`values.go:26`).

The model blamed is the one the entry names *before* its parameters (`NameBefore`): an
entry that names it after them is reported under the name of the entry before, one
with a `model_name` inside another of its mappings under that, and one whose name
is empty as "?". Not modelled:
more than one blank after a dash, and texts that go on on further lines, which the
scan reads as lines of keys or not at all (flow mappings over several lines, block
scalars).

*ManifestPolicy.* An entry is a record of what the rules look at. `Violations` are
the rules, `Safe` is what the pre-warm (`Prewarm`'s `CacheOf`), `Select` and the
drift run take for granted. Two gaps are in the definitions: an entry with a
command and a url is no stdio server to the rules, yet the pre-warm installs it
(exception in `Safe`); and a tag or a range passes for an exact version
(`Pinned`).

### ResponsesProxy

`history` is the conversation as Codex keeps it: every request translates all of
it into chat messages (`buildChatBody`; `Merging` is its merge loop, a recursive
function of the rounds, which puts a text before a call behind its own), is tried
on the
models of `Plan` until one answers, and the answer becomes items, which Codex adds
together with the results of its calls. The answer is a JSON body or a stream of
deltas: LiteLLM may send any delta at any time, alternate calls, repeat ids, omit
them, stop anywhere (`EndOfStream`, with or without `[DONE]`) or break off
(`BreakOfStream`). A line the proxy passes over without a word is a `Skip`: no data,
no JSON, an error chunk, the last line when it breaks off, an empty delta. An event
names its item by nothing but its id, since the proxy sends 0 for every index:
`"fc_"` and the id of the call, or a text of its own, unique in the conversation.
`Reading` is what one who reads the events has of the items, by their ids. Texts and arguments are sequences of numbered pieces, so that
a lost, doubled or misplaced piece shows. Left out: the health check, the chat
passthrough, the filter of tools, models and usage, and items other than the text,
the calls and the results Codex sends.

Three things the code does are exceptions of the properties: deltas of calls that
alternate are mixed up (`Orderly`); the id of a call that is named again after another
one opens a second item under the same id (`ComesBack`), both of which are completed
and kept; and an answer with several calls at once
becomes several messages in a row, so that not every result follows its call
(`ToolResultsAdjacent`).

### ClaudeHealth

The gateway calls the hook on `agent:start`, in one event loop: a handler runs
alone until it awaits. An action is what lies between two awaits
(`Start`, `Read`, `Posted`); `clock` is `time.monotonic()`, which counts from the
boot of the node and not of the process, and no call is awaited past its timeout
(`Tick`). A reading of `/health` is a failure of one of three sorts, or a body with
the outcome, its freshness and what the auth probe says. `Restart` starts the
process anew, on its node or on one that has just come up. `probes` and `last` are
histories. The window is the exception of `SkipsAreCovered`: `_last_check` starts at
0, so while the node has been up for less than a window sessions are throttled by a
check that never was. Left out: the wording of alerts, events other than those of
Discord sessions (the hook returns at once).

## Runs

The types of the variables of `McpHttp`, `McpVerify`, `Prewarm`, `GatewayBoot` and
`ClaudeHealth` are proved as parts of the inductive invariants and are not run; those
of `McpStdio`, with the bound on its channel, are both.

| run | instance and bounds | shows |
|---|---|---|
| `stdio` | leader and one descendant, channel of 1, 3 lines, cursors up to request 3; 0.74 M states | all properties of `McpStdio`, and that it implements `McpAttempt` |
| `stdio_leak` | the same | a failed opening leaves the child running (finding) |
| `verify` | every manifest of two servers out of eight kinds of entry, both modes, every process environment; 0.29 M states | all properties of `McpVerify` |
| `verify_order` | the same | a chained declaration resolves by luck (finding) |
| `prewarm` | two npm servers, one slot, one uv and one deno server, two specs, three boots; 0.83 M states | all properties of `Prewarm` |
| `prewarm_rollback` | the same | a torn cache is reported warm (finding) |
| `boot` | a tarball mise ships too and whose URL names no release, deno, agent-reach, one repository, two slots, two boots of two releases; 0.40 M states | all properties of `GatewayBoot` |
| `boot_releases` | the tarball is not shipped by mise and its URL names the release, two repositories | a torn or old binary is kept (finding) |
| `http` | one session id, bodies of up to two events; 15,012 states | all properties of `McpHttp`, and that it implements `McpAttempt` |
| `lints` | command lines of up to three flags and paths, texts of up to four fragments, values of up to five lines, manifests of four servers; 93,862 states | the properties of `Gitopsctl` and the lints |
| `health` | three sessions, timeouts of 1 and 2 in a window of 4, clock up to 9; 196,057 states | all properties of `ClaudeHealth` |
| `responses` | one retry, two fallbacks, two calls in an answer, three requests, three lines shared by the turns; 1.74 M states | all properties of `ResponsesProxy` |

Why the bounds are enough. *stdio*: a channel of one slot makes the scanner
block, which 64 slots do only after 64 lines; three lines are the least with
which a stale reply, a repeated one and the awaited one can be in flight
together; request 3 is the second page, so a cursor is followed and a stale page
can meet the next; one descendant is enough to have the leader and the pipe part
company. What does not depend on these numbers is proved. *verify*: two servers
show that one's failure neither hides nor touches the other; the eight entries
are the kinds in `values.yaml` (plain, secret under its own name, secret under
another, extended `PATH`, chain,
HTTP header, parked, not selected). *prewarm*: install, interrupted upgrade and
return need three boots and two specs; jobs share only the slots, the channel
and the counter, and two jobs for one slot queue. *boot*: the
first boot leaves what an interrupted one leaves, the second meets it, with the pins
of another release; three
downloads queue for two slots; the properties speak of one repository at a time,
and what several have in common, the slots and the walks, is proved for any number of
them. *http*: two events
are the least in which one follows the answer, or junk does; nothing bounds the
walk, as only the last answer is kept. *lints*: four fragments are two blocks
nested, crossed with a string, a comment or a line end; the
first entry of a list, the second and a key beside them fit in five lines; a
manifest has both duplicates and two servers that may share a cache. *responses*:
a text, the start of a call and a piece of it, or two calls and a piece; a third
turn sees the items of two answers. *health*: two probes
and a session between them fit in two windows of one process, and a restart opens
more; the timeouts differ and together stay below the window, as 5 s and 10 s do
below 300 s.

Deadlock is not checked: each of these programs ends, and the pre-warm's boots
and the gateway's are bounded by `MaxBoots`.

### Fairness

- `McpStdio`: weak fairness of the client, of the scanner and of the waiter (the
  Go scheduler runs a goroutine that can run), and of the exit of a process that
  was sent SIGKILL. No fairness of the server and none of the deadline: a
  property that needs the deadline says so in its left-hand side.
- `McpHttp`: weak fairness of the client, whose timer fires for every POST it
  waits for. None of the server. `EndsUnlessCursors` names the one behaviour that
  does not end: pages with a cursor for ever.
- `McpVerify`: weak fairness of the loop. That an attempt ends is `DeadlineEndsIt` for
  stdio servers; over HTTP it is `EndsUnlessCursors`, whose exception is `PagesOn`
  here, and nothing takes the run out of it: `RunEnds` names it as the only run that
  does not end.
- `Prewarm`: weak fairness of every step of a boot, and of the end of each
  command, which `runBounded` kills. None of boots or crashes.
- `GatewayBoot`: weak fairness of the stages, of the downloads (which may end by
  hanging), of the walks, of the start of an `npx` and of its deadline; none of
  what `npx` does. That a pre-warm ends is the result of `prewarm`.

## Proofs

`McpStdioProofs` proves, for every set of processes, channel capacity, number of
lines and of pages, from the named assumption of `McpStdio` alone:

- `TypeCorrect`, `AnswersAreInOrder`, `BufferedRepliesCount`, `PassIsEarned`,
  `ClosedIsKilled`: the invariants of the run;
- `Refinement`: the connection implements `McpAttempt`.

All rest on `Invariance`, `Spec => []Inv`. None of the properties is inductive
by itself. `AnswersInOrder` needs that every reply still in flight was produced
for a request that was sent and carries its id (`LinesAreHonest`), and that ids
are injective (`RpcIdInjective`; this is where `ProbeId` must differ from 1 and 0).
`BufferedReplyCounts` needs that a scanner that is done has nothing in hand and
left nothing in the pipe (`ScannerState`). `VerdictEarned` needs what is known at
each control point about the number of answers (`ClientState`) and that all
answers so far let the attempt go on (`AnswersSoFar`). The step is proved once
for the client's actions and once for the others, with a lemma for the frame
conditions of each group; `AcceptStep` is the only place where an answer is taken.

`PrewarmProofs` proves, for every set of servers, caches and specs, every number
of slots and of boots, from `PrewarmAssumption` (finite sets of servers, a cache
of its own for each npm server):

- `MarkersAreSound`, `ReportsAreTrue`: what a marker and a report are worth,
  wherever the pod was killed and whatever each boot pinned;
- `ExitCodeIsRight`: the exit code accounts for every server;
- `SweepsAreSafe`: no sweep meets a job of its own boot.

They rest on `Spec => []Inv`, in two halves. `Sound` ties the disk to the jobs:
`MarkerSound` is not inductive because a job writes a marker on the strength of
an earlier installation, so `NpmJobsSound` adds that a job about to write stands
on the whole tree of its pin, and that a job that removes or installs works under
an empty marker or a replaced one. `NpmLocal` (a step touches one cache and one
job) reduces the step to the job that takes it, `NpmOwn`. `Accounts` and `Stages`
tie the count to the results: no failure means that every counted job said yes,
and the last sweep finds every job counted.

`McpHttpProofs` proves, for every set of sessions and of bodies, from
`McpHttpAssumption` (a request is answered once in a body):

- `TypeCorrect`, `PassIsEarned`, `FailureIsJust`;
- `Refinement`: the attempt implements `McpAttempt`.

They rest on `Spec => []Inv`. `JustFailure` needs that every POST on its way
carries the session the server issued (`Delivery`), because that is what a strict
server compares; and that a response about to fail the attempt, or a request
before the server was told initialized, is already accounted for (`Blame`).
`PassEarned` needs that no error has been taken so far (`AnswersSoFar`).

`McpVerifyProofs` proves, for every number of servers and of attempts, every set of
tools and every manifest, from `McpVerifyAssumption`:

- `ExitIsEarned`: exit code 0 is evidence about every selected server;
- `OneFaultIsAbsorbed`: a failed handshake is final only after `verifyAttempts`;
- `JudgedInTurn`: the servers are judged one after the other, each for good;
- `LiteralsNeedChains`: a placeholder reaches a server as text only through a name
  its own entry declares, in whatever order Go ranges over the declared names.

They rest on `Spec => []Inv`. `ExitEarned` speaks only of the end, so `Loop` says what
the loop has done so far (what is left was not touched, what is not left was
judged), `Progress` what the log of the server at hand holds in each phase, and
`Evidence` what a verdict is worth once it is given. A step either judges
(`JudgeStep`) or proceeds (`ProceedStep`); `CurrentIsLeast` is the only use of order.
The last theorem adds `Checked` (a server is tried only after some order resolved
all its placeholders) and the lemma `OnlyChainsLeaveText`, by induction over the
order of the names: text is left behind only where a reference was looked up before
its name was set (`LeftBehind`), and since another order resolved it the entry
declares that name itself.

`GatewayBootProofs` proves, for every set of tools, repositories and trees, every
number of slots and of boots, from `BootAssumption`:

- `TypeCorrect`, with the bound on downloads and npx at a time;
- `DownloadsProvide`, `PathIsRepaired`: what the downloads leave behind, wherever
  earlier boots were interrupted;
- `OwnedAtHandover`, `ReportsAreTrue`: the walks and the indexes.

The invariant has a part per stage (`Downloads`, `Indexes`, `Ownership`), and a step of
one stage leaves the variables of the others alone. That a download has
come to what its `fate` says is kept from the first download on (`Sound`). Two facts are
not in any property: deno's file never goes once it is there, so a link that
exists leads somewhere and a download found present still goes through the making
of the link; and what is walked stays owned because only an indexer that outlived
its npx writes after the walks began.

`GitopsctlProofs` proves, for every set of names, entries, command lines and texts:

- `PassedIsSafe`: a manifest the validation passes is `Safe`. The lemma
  `CleanIsSafe` is about the rules alone; two servers in one cache would have the
  same private cache, hence the same name (`ManifestPolicyAssumption`);
- `InstallIsWhole`: the invariant says what the file holds at each step of `install`;
- `FlagsInAnyOrder`: a line of any length is read as if its flags came first. Each
  unit of the line (a path, a flag with its value) moves `Sorting` and `Parsing` by
  one lemma, `ReadAll` is the induction over the units; `GitopsctlAssumption` says
  only what such a line is made of;
- `CacheKeysAreFound`: the lint of the values against the tree, for documents of any
  length. The scan's state after n lines is `Walked`: inside a block exactly when
  one is open in the tree (`Opens`), found what is expected so far, named after the
  last name. That the keys of a mapping are as far in as its first (`Siblings`,
  `FirstChild`) is why one remembered depth suffices to tell the direct keys. The
  exceptions are those of the property, listed under *LitellmPolicy*;
- `TemplatesAreExact`: the lint of the templates against the lexer, for charts of any
  number of files of any length. `ActionIs`: in a plain text `findActionEnd` and
  the lexer see the same end, piece by piece (`Alike`). `OpenBlocks`: the stack holds
  the openers from which on the balance has been positive, and no other opener is
  still open, so the stack and the counting agree; this holds up to the action without
  an end at which the scan returns. The loop invariant `Looped`
  adds where the lexer is while the loop passes over an action, or goes on within
  the action of an orphan.

`ResponsesProxyProofs` proves, for any number of retries, any fallbacks, any deltas
and conversations of any length, from `ResponsesProxyAssumption`:

- `RecoveryOrder`: the invariant `Recovery` adds that while an attempt is awaited
  all before it failed with a status, and that a model is left to ask;
- `StreamsAreFaithful`: `Turning` says of every step of a stream that a reader has open
  just the two items of the proxy's state, with what they hold, and done those that
  are done (`Streaming`, `Good`); that what was announced is the text or a call that
  was named, and twice only a call that came back (`Announced`, `Back`); and, while the deltas are in order (`Tidy`, which is `Orderly` said of
  any three deltas), that the closed items are the calls before the current one
  (`Fits`);
- `ResultsFollowCalls`: `Talking` says that in a conversation whose answers make one
  call at a time every call has its result next, or behind one text (`Answered`),
  and `Merged` is the loop invariant of `buildChatBody` over such a conversation.

`ClaudeHealthProofs` proves, for any number of sessions, from
`ClaudeHealthAssumption` (the two timeouts together are shorter than the window):

- `ChecksAreApart`: two probes of a process are a window apart, and a check is over,
  with its alert, before the next begins;
- `AlertsAreEarned`: what was alerted is what was known of the credential;
- `SkipsHaveCover`: a session that is skipped has a probe in its window, or came
  within a window of the boot of its node.

The second half (`OneCheckAtATime`) needs that what is awaited times out within both
timeouts of the claim of the window (`Timely`): whoever finds the window open finds
nobody waiting.

What the lints, the flags, the environments and the streams compute is recursive
over a sequence, and the provers have no induction over data whose predicate is a
parameter. The recursion is therefore written as recursive functions, and the
induction is first-order: a set of naturals has a least element (`Least`), so a
set with 0 and every successor has them all (`Induction`); a function that follows
a step function along a sequence exists (`FoldExists`), so the recursively defined
one has its equations. Each loop then has an invariant of its own, and the set of
the lengths at which it holds is the set of the induction. These lemmas are stated
in each module that needs them.

Only model-checked: the liveness properties (`DeadlineEndsIt`, `ExitIsNoticed`,
`ClosedIsReaped`, `EndsUnlessCursors`, `RunEnds`, `PrewarmEnds`, `HandsOver`), which
need fairness. Every other property of a passing run has a theorem.

## Findings

1. A failed opening leaks the child (`mcp/stdio.go:297-310`): `stdio_leak`.
2. A declared fallback depends on map order (`mcp/manifest.go:188`): `verify_order`.
3. A marker survives the removal of its tree (`mcp/prewarm.go:148`): `prewarm_rollback`.
4. A torn or old binary is never replaced (`boot/boot.go:145`): `boot_releases`.

The passing runs state the corresponding properties with the exception named
(`ClosedMeansKilled` for opened connections, `LiteralNeedsChain`, `MarkerSound`
and `ReportTrue` up to `replaced`, `BootProvides` up to what was found, lacked or
failed), so that they show these are the only gaps.
More gaps are exceptions of passing properties without a run of their own:

- a volume without `home/.deno/bin` never gets deno, and an archive without the wanted
  entry leaves no file and is no failure (`boot/boot.go:138-143`, `BootProvides`); a
  shim or deno's link that cannot be replaced stays as it is, and the boot goes on
  (`boot/boot.go:113-114`, `246-247`, `PathRepaired`); an indexer
  that outlives its deadline leaves root-owned files behind the walks
  (`OwnedButForStrays`); an index an interrupted boot left is only synced
  (`IndexReportTrue`);
- an open block before an action without an end is not reported
  (`templates.go:107-112`, `TemplatesExact`), nor are the cache keys behind a
  `litellm_params` with a comment, quoted, or with a mapping below them
  (`CacheKeysFound`);
- an HTTP server with endless cursors keeps a verify run from ending (`RunEnds`);
- two items of a streamed answer may have one id (`responses-proxy-configmap.yaml:242`,
  `StreamFaithful`), and an answer that is cut off by an error chunk is told as a
  completed one (no property says otherwise);
- for a window after the node has booted the health hook probes nothing
  (`handler.py:77`, `SkipsAreCovered`);
- a request of the server whose id coincides is read as the response
  (`mcp/stdio.go:166`, `AnswersInOrder`); over HTTP a message that follows the answer
  in its body is read in its place (`mcp/http.go:74`, `PassEarned`), and a server
  that returns cursors for ever is walked for ever (`EndsUnlessCursors`);
- what is said of the lints and of the proxy under their modules above.

## Plan

1. `McpStdio`, `McpAttempt`, `ChildEnv`, `McpVerify`, `Prewarm`, `GatewayBoot`,
   and the proofs of the first and of `Prewarm`. Done.
2. `McpHttp`, `Gitopsctl` with the lints, `ResponsesProxy`, and proofs of their
   safety. Done.
3. Proofs of the safety of `McpVerify` and `GatewayBoot`. Done.
4. `ClaudeHealth`: the hook with concurrent sessions, the window and restarts. Done.
   The session-link hook is left out.
5. Proofs of what is recursive: the environments, the flags, the two text lints, the
   streams and the messages of the proxy. Done.
6. `PinBump`: two bumps racing on main; the pin names an existing image and
   never moves back.

Not modelled: the pin bump, until then (what serialises two bumps is Git and GitHub,
not code of this repository); `DenoSpec` (string
parsing) and the `/proc` scan of the orphan sweep; charts and other templates
(what they mean is decided by Helm, Kubernetes and Argo CD), the storage GC script
(not in the repository), the session-link hook (one set that is emptied at its cap,
after which links are posted again: `hooks.yaml:64`), the read guard hook and the
stateless lints in Python and shell.
