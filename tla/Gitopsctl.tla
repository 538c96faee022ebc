----------------------------- MODULE Gitopsctl -----------------------------
(***************************************************************************)
(* The command line of gitopsctl (cmd/gitopsctl/main.go): the dispatch on  *)
(* the words of the command, its flags, the three lints, the installation  *)
(* of the binary and of the system dependencies (boot/deps.go).  What      *)
(* `boot`, `mcp prewarm`, `mcp verify` and the indexer do is in            *)
(* GatewayBoot, Prewarm and McpVerify; here they are an exit code.         *)
(***************************************************************************)
EXTENDS ManifestPolicy, SequencesExt

CONSTANTS
  Lines,        \* command lines: [words, args], and the units that args is made of
  Charts, ValuesFiles, Manifests   \* what the lints may read

\* An argument is a word, a flag, a flag with its value ("--f=v"), or the
\* terminator "--".  A line of `codegraph index` may be put together from a
\* path, and from the flag in either of its forms.
Args   == [kind : {"word", "flag", "flag=", "--"}, name : STRING, value : STRING]
Paths  == {u \in Seq(Args) : Len(u) = 1 /\ u[1].kind = "word"}
Givens == {u \in Seq(Args) : /\ u # <<>> /\ u[1].name = "manifest"
                             /\ \/ Len(u) = 1 /\ u[1].kind = "flag="
                                \/ Len(u) = 2 /\ u[1].kind = "flag"}

Templates == INSTANCE TemplateBalance
Litellm   == INSTANCE LitellmPolicy

ASSUME GitopsctlAssumption ==
  /\ \A servers \in Manifests : DOMAIN servers \subseteq Names
  /\ \A c \in Charts : c.walked => c.files \in Seq(Seq(Templates!Pieces) \cup {Templates!NoText})
  /\ ValuesFiles \subseteq Seq(Litellm!KeyLines)
  /\ \A l \in Lines : l.words = <<"codegraph", "index">> /\ l.units # <<>> =>
       l.units \in Seq(Paths \cup Givens) /\ l.args = FlattenSeq(l.units)

VARIABLES
  cmd,      \* the command line: the words of the command, and the rest
  input,    \* what a lint is given
  phase,    \* "start", a step of install, "exited" or "helped"
  code,     \* the exit code, "none" before
  found,    \* what a lint has found
  target,   \* codegraph index: the manifest and the path it was run with
  dest,     \* the file at DEST: what it holds, and whether it is executable
  deps      \* which of the probed dependencies are installed

vars == <<cmd, input, phase, code, found, target, dest, deps>>

-----------------------------------------------------------------------------
(* The flags of a command.                                                  *)

\* flag.Parse: flags up to the first word or the terminator.
ParseStep(flags, s, a) ==
  IF s.outcome # "ok" THEN s
  ELSE IF s.pending # "none" THEN
    [s EXCEPT !.set = [@ EXCEPT ![s.pending] = a.value], !.pending = "none"]
  ELSE IF s.ended THEN [s EXCEPT !.rest = Append(@, a.value)]
  ELSE CASE a.kind = "--" -> [s EXCEPT !.ended = TRUE]
         [] a.kind = "word" -> [s EXCEPT !.ended = TRUE, !.rest = <<a.value>>]
         [] a.kind = "flag" /\ a.name \in flags -> [s EXCEPT !.pending = a.name]
         [] a.kind = "flag=" /\ a.name \in flags ->
              [s EXCEPT !.set = [@ EXCEPT ![a.name] = a.value]]
         [] OTHER -> [s EXCEPT !.outcome = IF a.name = "h" THEN "help" ELSE "bad"]

\* What it holds after each of the arguments.
Parsing(args, flags) ==
  LET s[i \in 0..Len(args)] ==
        IF i = 0 THEN [outcome |-> "ok", pending |-> "none", ended |-> FALSE, rest |-> <<>>,
                       set |-> [f \in flags |-> "default"]]
        ELSE ParseStep(flags, s[i - 1], args[i])
  IN s

Parse(args, flags) ==
  LET s == Parsing(args, flags)[Len(args)]
  IN IF s.pending = "none" THEN s ELSE [s EXCEPT !.outcome = "bad"]

IsManifest(a) == a.kind \in {"flag", "flag="} /\ a.name = "manifest"

\* Mutant: the value of the flag stays where it was.
manifestFlagAlone(args) ==
  SelectSeq(args, IsManifest) \o SelectSeq(args, LAMBDA a : ~IsManifest(a))

\* manifestFlagFirst: every --manifest, with the argument after it if it has
\* its value there, goes before everything else.
SortStep(s, a) ==
  IF s.awaited \/ IsManifest(a)
  THEN [s EXCEPT !.flags = Append(@, a), !.awaited = ~@ /\ a.kind = "flag"]
  ELSE [s EXCEPT !.rest = Append(@, a)]
Sorting(args) ==
  LET s[i \in 0..Len(args)] ==
        IF i = 0 THEN [flags |-> <<>>, rest |-> <<>>, awaited |-> FALSE]
        ELSE SortStep(s[i - 1], args[i])
  IN s
manifestFlagFirst(args) ==
  LET s == Sorting(args)[Len(args)] IN s.flags \o s.rest

Commands == {<<"boot">>, <<"install">>, <<"codegraph", "index">>, <<"chart", "templates">>,
             <<"validate", "litellm-config">>, <<"mcp", "prewarm">>, <<"mcp", "verify">>}
Flags == [w \in Commands |->
  CASE w = <<"install">> -> {}
    [] w \in {<<"boot">>, <<"codegraph", "index">>} -> {"manifest"}
    [] w = <<"chart", "templates">> -> {"dir"}
    [] w = <<"validate", "litellm-config">> -> {"values"}
    [] w = <<"mcp", "prewarm">> -> {"manifest", "parallel"}
    [] w = <<"mcp", "verify">> -> {"manifest", "mode", "only"}]
DepsCommands == {<<"deps", "status">>, <<"deps", "install">>}

Parsed ==
  LET args == IF cmd.words = <<"codegraph", "index">>
              THEN manifestFlagFirst(cmd.args) ELSE cmd.args
  IN Parse(args, Flags[cmd.words])

Is(words) == phase = "start" /\ cmd.words = words

\* What the commands themselves refuse: a wrong number of arguments, an
\* unknown mode.
Refused ==
  CASE cmd.words \in {<<"install">>, <<"codegraph", "index">>} -> Len(Parsed.rest) # 1
    [] cmd.words \in {<<"chart", "templates">>, <<"validate", "litellm-config">>} ->
         Parsed.rest # <<>>
    [] cmd.words = <<"mcp", "verify">> ->
         Parsed.set["mode"] \notin {"default", "preflight", "drift", "validate"}
    [] OTHER -> FALSE

Runs(words) == Is(words) /\ Parsed.outcome = "ok" /\ ~Refused
Validates == Runs(<<"mcp", "verify">>) /\ Parsed.set["mode"] = "validate"

Init ==
  /\ cmd \in Lines
  /\ phase = "start" /\ code = "none" /\ found = {}
  /\ input \in CASE Runs(<<"chart", "templates">>) -> Charts
                 [] Runs(<<"validate", "litellm-config">>) -> ValuesFiles
                 [] Validates -> Manifests
                 [] OTHER -> {"nothing"}
  /\ target = <<>>
  /\ dest \in IF cmd.words = <<"install">>
              THEN {[holds |-> h, exec |-> x] : h \in {"nothing", "old"}, x \in BOOLEAN}
              ELSE {[holds |-> "nothing", exec |-> FALSE]}
  /\ deps \in IF cmd.words \in DepsCommands THEN SUBSET {"bats", "xdotool", "glib"} ELSE {{}}

Exits(c) == phase' = "exited" /\ code' = c

\* These, words that name no command and flags that flag.Parse refuses end
\* with the usage and 2.
Usage ==
  /\ phase = "start"
  /\ \/ cmd.words \notin DOMAIN Flags \cup DepsCommands
     \/ cmd.words \in DOMAIN Flags /\ Parsed.outcome = "bad"
     \/ cmd.words \in DOMAIN Flags /\ Parsed.outcome = "ok" /\ Refused
  /\ Exits("2")
  /\ UNCHANGED <<cmd, input, found, target, dest, deps>>

\* flag.ExitOnError leaves with 0 when help was asked for.
Help ==
  /\ phase = "start" /\ cmd.words \in DOMAIN Flags /\ Parsed.outcome = "help"
  /\ phase' = "helped" /\ code' = "0"
  /\ UNCHANGED <<cmd, input, found, target, dest, deps>>

Verdict == Exits(IF found' = {} THEN "0" ELSE "1")

ChartTemplates ==
  /\ Runs(<<"chart", "templates">>)
  /\ found' = Templates!Violations(input)
  /\ Verdict
  /\ UNCHANGED <<cmd, input, target, dest, deps>>

LitellmConfig ==
  /\ Runs(<<"validate", "litellm-config">>)
  /\ \/ found' = Litellm!Scanned(input).found
     \/ found' = {[line |-> 0, model |-> Litellm!Unnamed]}   \* cannot be read
  /\ Verdict
  /\ UNCHANGED <<cmd, input, target, dest, deps>>

ValidateManifest ==
  /\ Validates
  /\ LET v == Violations(input)
     IN \/ found' = {n \in DOMAIN v : v[n] # {}}
        \/ found' = {"cannot be loaded"}
  /\ Verdict
  /\ UNCHANGED <<cmd, input, target, dest, deps>>

\* boot.Run returns only when it fails; Prewarm and Execute return a code.
Delegate ==
  /\ \/ Runs(<<"boot">>) /\ Exits("1")
     \/ Runs(<<"mcp", "prewarm">>) /\ \E c \in {"0", "1"} : Exits(c)
     \/ Runs(<<"mcp", "verify">>) /\ ~Validates /\ \E c \in {"0", "1"} : Exits(c)
  /\ UNCHANGED <<cmd, input, found, target, dest, deps>>

\* cmdCodegraphIndex: the manifest cannot be loaded or names no enabled
\* codegraph, or the index fails, or not.
CodegraphIndex ==
  /\ Runs(<<"codegraph", "index">>)
  /\ target' = <<Parsed.set["manifest"], Parsed.rest[1]>>
  /\ \E c \in {"0", "1"} : Exits(c)
  /\ UNCHANGED <<cmd, input, found, dest, deps>>

-----------------------------------------------------------------------------
\* DepsPresent: all of the probes succeed.
DepsStatus ==
  /\ Is(<<"deps", "status">>)
  /\ Exits(IF deps = {"bats", "xdotool", "glib"} THEN "0" ELSE "1")
  /\ UNCHANGED <<cmd, input, found, target, dest, deps>>

\* InstallDeps: a directory, the update or the installation fails, the last
\* after some of the packages; or none.
InstallDeps ==
  /\ Is(<<"deps", "install">>)
  /\ \/ deps' = {"bats", "xdotool", "glib"} /\ Exits("0")
     \/ deps' \in {d \in SUBSET {"bats", "xdotool", "glib"} : deps \subseteq d} /\ Exits("1")
  /\ UNCHANGED <<cmd, input, found, target, dest>>

-----------------------------------------------------------------------------
(* install: it runs in an init container, which is started again until it   *)
(* has exited with 0 and may be killed at any point.                        *)
installing == UNCHANGED <<cmd, input, found, target, deps>>

\* Mutant: the file is opened without O_TRUNC.
OpenOver ==
  /\ Runs(<<"install">>)
  /\ dest' = [holds |-> IF dest.holds = "old" THEN "old" ELSE "part",
              exec |-> dest.exec \/ dest.holds = "nothing"]
  /\ phase' = "copy" /\ UNCHANGED code
  /\ installing

\* A file that is not there is created executable; one that is there is cut.
OpenDest ==
  /\ Runs(<<"install">>)
  /\ dest' = [holds |-> "part", exec |-> dest.exec \/ dest.holds = "nothing"]
  /\ phase' = "copy" /\ UNCHANGED code
  /\ installing

\* What io.Copy has written may still be lost: Close tells.
Copy ==
  /\ phase = "copy" /\ phase' = "close"
  /\ installing /\ UNCHANGED <<code, dest>>

Close ==
  /\ phase = "close" /\ phase' = "chmod"
  /\ dest' = [dest EXCEPT !.holds = IF @ = "part" THEN "new" ELSE "new over old"]
  /\ installing /\ UNCHANGED code

Chmod ==
  /\ phase = "chmod" /\ Exits("0")
  /\ dest' = [dest EXCEPT !.exec = TRUE]
  /\ installing

\* Any of the steps fails.
InstallFails ==
  /\ phase \in {"copy", "close", "chmod"} \/ Runs(<<"install">>)
  /\ Exits("1")
  /\ installing /\ UNCHANGED dest

Restart ==
  /\ phase # "start" /\ cmd.words = <<"install">> /\ code \notin {"0", "2"}
  /\ phase' = "start" /\ code' = "none"
  /\ installing /\ UNCHANGED dest

Install == OpenDest \/ Copy \/ Close \/ Chmod \/ InstallFails \/ Restart

Next ==
  \/ Usage \/ Help
  \/ ChartTemplates \/ LitellmConfig \/ ValidateManifest \/ Delegate \/ CodegraphIndex
  \/ DepsStatus \/ InstallDeps
  \/ Install

Spec == Init /\ [][Next]_vars

-----------------------------------------------------------------------------
\* The command was run to its end.
Finished == phase = "exited" /\ code \in {"0", "1"}

\* A finished `chart templates` has named nothing in a file but its structural
\* errors, each at its line, and all of them "so one pass names all of them"
\* (templates.go:63-184), for the texts that Plain describes; but for one case:
\* in a file with an action that has no end it may leave out the open blocks.
\* It says 0 only when all the files were read.
TemplatesExact ==
  cmd.words = <<"chart", "templates">> /\ Finished /\ input.walked =>
    /\ \A f \in DOMAIN input.files :
         LET text == input.files[f]
             told == {[rule |-> v.rule, line |-> v.line] : v \in {w \in found : w.file = f}} IN
         text # Templates!NoText /\ Templates!Plain(text) =>
           /\ told \subseteq Templates!Expected(text)
           /\ \A e \in Templates!Expected(text) \ told :
                e.rule = "unclosed" /\ Templates!Open(text) # {}
    /\ \A f \in DOMAIN input.files :
         code = "0" => input.files[f] # Templates!NoText

\* A finished `validate litellm-config` has found the cache keys of a model's
\* litellm_params, which "must never appear" there (values.go:26-32), and
\* nothing else, under the name of that model if the entry gives it before; for
\* values that are a YAML document and but for what a scan of lines reads
\* otherwise: the keys under a litellm_params that has a comment behind it, a
\* cache key it passes over, and a text that only looks like one.
CacheKeysFound ==
  cmd.words = <<"validate", "litellm-config">> /\ Finished
    /\ Litellm!Document(input) /\ (\A v \in found : v.line # 0) =>
      LET told == {v.line : v \in found}
          unopened == Litellm!Unopened(input) IN
      /\ \A n \in Litellm!Expected(input) \ unopened : n \in told \/ Litellm!PassedOver(input[n])
      /\ \A n \in told \ unopened : n \in Litellm!Expected(input) \/ Litellm!Lookalike(input[n])
      /\ \A v \in found : v.line \notin unopened =>
           Litellm!NameBefore(input, v.line) \subseteq {v.model.scalar}

\* A manifest the validation passes is safe for the pre-warm and the verify
\* runs (validate.go:70-264).
CleanMeansSafe ==
  cmd.words = <<"mcp", "verify">> /\ Finished /\ Parsed.set["mode"] = "validate" /\ code = "0"
    => Safe(input)

\* `codegraph index` takes --manifest before and after PATH, in either form:
\* it runs with the only path of the line and the last manifest of it, and
\* with nothing else (main.go:153-194).
AnyFlagOrder ==
  cmd.words = <<"codegraph", "index">> /\ phase = "exited" /\ cmd.units # <<>> =>
    LET paths == {i \in DOMAIN cmd.units : cmd.units[i][1].kind = "word"}
        given == DOMAIN cmd.units \ paths IN
    IF Cardinality(paths) # 1 THEN code = "2"
    ELSE /\ code # "2"
         /\ target[2] = cmd.units[CHOOSE i \in paths : TRUE][1].value
         /\ target[1] = IF given = {} THEN "default"
                        ELSE LET u == cmd.units[Max(given)] IN u[Len(u)].value

\* Once the installation has exited with 0, in whichever of its runs, the file
\* is the whole new binary and can be executed (main.go:81-128).
InstalledWhole ==
  cmd.words = <<"install">> /\ Finished /\ code = "0" =>
    dest = [holds |-> "new", exec |-> TRUE]
=============================================================================
