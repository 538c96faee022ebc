---------------------------- MODULE MCGitopsctl ----------------------------
\* The bounds of Gitopsctl for TLC: command lines of up to three flags and
\* paths, and small files and manifests in which every case of the lints occurs.
EXTENDS Gitopsctl

UpTo(S, n) == UNION {[1..k -> S] : k \in 0..n}

-----------------------------------------------------------------------------
\* Command lines.
Word(v) == [kind |-> "word", name |-> "", value |-> v]
Flag(f) == [kind |-> "flag", name |-> f, value |-> "-" \o f]
FlagEq(f, v) == [kind |-> "flag=", name |-> f, value |-> v]
Line(words, units) == [words |-> words, args |-> FlattenSeq(units), units |-> units]

Units == {<<Word("repo")>>, <<Word("other")>>, <<Flag("manifest"), Word("m1")>>,
          <<FlagEq("manifest", "m2")>>}

SmallLines ==
  {Line(w, <<>>) : w \in {<<>>, <<"bogus">>, <<"mcp">>, <<"mcp", "bogus">>, <<"boot">>,
                          <<"chart", "templates">>, <<"validate", "litellm-config">>,
                          <<"mcp", "prewarm">>, <<"mcp", "verify">>} \cup DepsCommands}
    \cup {[words |-> w, args |-> <<a>>, units |-> <<>>] :
            w \in DOMAIN Flags, a \in {Word("x"), Flag("h"), Flag("bogus")}}
    \cup {Line(<<"mcp", "verify">>, <<<<FlagEq("mode", m)>>>>) : m \in {"drift", "validate", "bogus"}}
    \cup {[Line(<<"codegraph", "index">>, <<>>) EXCEPT !.args = <<Word("repo"), Flag("manifest")>>]}
    \cup {Line(<<"codegraph", "index">>, u) : u \in UpTo(Units, 3)}

-----------------------------------------------------------------------------
\* Charts of two files: up to four of these, and a small one.
Action(words) == <<"leftDelim">> \o words \o <<"rightDelim">>
Fragments ==
  {Action(<<"if", "word">>), Action(<<"end">>), Action(<<"word">>),
   Action(<<"word", "dq", "rightDelim", "bs", "dq", "dq">>),
   Action(<<"end", "bq", "rightDelim", "bq">>), Action(<<"end", "dq", "leftDelim", "dq">>),
   Action(<<"leftComment", "end", "rightComment">>),
   <<"leftDelim", "if">>, <<"dq">>, <<"nl">>}
Texts(n) == {FlattenSeq(s) : s \in UpTo(Fragments, n)}
SmallCharts ==
  {[walked |-> TRUE, files |-> <<t, u>>] :
     t \in Texts(4), u \in {<<>>, Action(<<"end">>), Templates!NoText}}
    \cup {[walked |-> FALSE, files |-> <<>>]}

-----------------------------------------------------------------------------
\* Values: up to five lines of two entries.
Key(start, dash, key, value) == [start |-> start, dash |-> dash, key |-> key, value |-> value]
Nothing == Litellm!NoValue
Scalar(v) == [Nothing EXCEPT !.scalar = v]
Flow(keys) == [Nothing EXCEPT !.flow = keys]
With(value, aside) == [value EXCEPT !.aside = aside]
BlockLines ==
  {Key(2, TRUE, "model_name", Scalar("a")), Key(2, TRUE, "model_name", With(Scalar("b"), "aside")),
   Key(2, TRUE, "litellm_params", Nothing), Key(4, FALSE, "model_name", Scalar("b")),
   Key(4, FALSE, "litellm_params", Nothing), Key(4, FALSE, "litellm_params", Flow({"cache"})),
   Key(4, FALSE, "cache", Scalar("on")), Key(6, FALSE, "cache", Scalar("on")), Key(6, FALSE, "cache", Nothing),
   Key(6, FALSE, "cache_params", Nothing), Key(6, FALSE, "extra_body", Nothing),
   Key(8, FALSE, "cache", Scalar("on")), Key(8, FALSE, "model_name", Scalar("b")),
   Key(4, FALSE, "model_info", Nothing), Key(6, FALSE, "model_name", Scalar("b"))}
OtherLines ==
  {Key(6, FALSE, "cache", With(Nothing, "aside")), Key(6, FALSE, "litellm_params", Nothing)}
    \cup {Key(4, FALSE, "litellm_params", v) :
            v \in {With(Nothing, "aside"), With(Nothing, "cache:"), Flow({"cache_params", "quoted cache"}),
                   Flow({"quoted cache"}), Flow({"no_cache"}), Flow({"inner cache"}),
                   With(Flow({"model"}), "aside")}}
SmallValues ==
  {d \in {<<Key(0, FALSE, "model_list", Nothing)>> \o s :
            s \in UpTo(BlockLines, 4) \cup UpTo(BlockLines \cup OtherLines, 3)} : Litellm!Document(d)}

-----------------------------------------------------------------------------
\* Manifests: the two duplicates and two more servers.
Servers == {"github", "gistpad", "a", "b"}
Cache == [n \in Servers |-> "/opt/data/.npm-mcp/" \o n]
Dashed == {"-y", "-c"}
Versions == ("a@1" :> [sep |-> "@", version |-> "1"]) @@ ("a" :> [sep |-> "", version |-> ""])
              @@ ("u==2" :> [sep |-> "==", version |-> "2"])

Server(name, words, fields) ==
  fields @@ [words |-> words, url |-> FALSE, env |-> UvKeys \cup ShellKeys, cache |-> Cache[name],
             enabled |-> "absent", connect |-> 1, idle |-> 1, lifetime |-> 1, lazy |-> TRUE,
             include |-> {"t"}, policies |-> {"resources", "prompts"}, probe |-> NoProbe]

Entries(name) ==
  LET npx == <<"npx", "-y", "a@1">> IN
  {Server(name, npx, [cache |-> c, enabled |-> e]) :
     c \in {Cache["a"], Cache["b"], NoCache}, e \in {"absent", "false"}}
    \cup {Server(name, w, [env |-> v]) :
            w \in {<<"sh", "-c", "exec", "npx", "exec", "a@1">>, <<"uvx", "u==2">>, <<"npx", "-y", "a">>,
                   <<"npx">>, <<"deno">>},
            v \in {{}, UvKeys \cup ShellKeys}}
    \cup {Server(name, npx, [probe |-> p, enabled |-> e]) :
            p \in {NoTool, "t", "x"}, e \in {"true", "false"}}
    \cup {Server(name, npx, f) :
            f \in {[connect |-> 0], [idle |-> 0], [lifetime |-> 0], [lazy |-> FALSE],
                   [include |-> {}], [policies |-> {"prompts"}]}}
    \cup {Server(name, npx, [url |-> TRUE, cache |-> Cache["a"]]),
          Server(name, <<"">>, [url |-> TRUE, cache |-> NoCache]), NoEntry}
Duplicate(name) ==
  {Server(name, <<"npx", "a@1">>, [enabled |-> e]) : e \in {"absent", "true", "false"}} \cup {NoEntry}
SmallManifests ==
  {("a" :> x) @@ ("b" :> y) @@ ("github" :> d) @@ ("gistpad" :> Server("gistpad", <<"npx", "a@1">>, [enabled |-> "false"])) :
     x \in Entries("a"), y \in Entries("b"), d \in Duplicate("github")}
    \cup {("a" :> x) : x \in Entries("a")}
=============================================================================
