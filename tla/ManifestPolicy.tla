--------------------------- MODULE ManifestPolicy ---------------------------
(***************************************************************************)
(* `gitopsctl mcp verify --mode validate` (internal/mcp/validate.go): the  *)
(* static policy over the servers of the manifest.  A manifest is a        *)
(* function from the names in it to their entries; an entry that is no     *)
(* mapping is NoEntry.  An entry is a record of                            *)
(*   words                    the command and the arguments, as split by   *)
(*                            tokenRe; words[1] is the command             *)
(*   url                      whether it has a url                         *)
(*   env                      its non-empty variables but the npm cache    *)
(*   cache                    its npm_config_cache, or NoCache             *)
(*   enabled                  "absent", "true" or "false"                  *)
(*   connect, idle, lifetime  the three timeouts                           *)
(*   lazy                     BOOLEAN                                      *)
(*   include, policies        tools.include, and which of tools.resources  *)
(*                            and tools.prompts it declares                *)
(*   probe                    auth_probe.tool, NoTool, or NoProbe          *)
(***************************************************************************)
EXTENDS Integers, Sequences

CONSTANTS
  Names,         \* names a server may have
  PrivateCache,  \* "/opt/data/.npm-mcp/" followed by the name
  NoCache,       \* npm_config_cache is absent or empty
  GatewayCache,  \* npm's cache in the environment of the pre-warm
  Options,       \* words with a leading dash
  Packages,      \* package arguments: their separator and version
  NoEntry, NoTool, NoProbe

duplicateServers == {"github", "gistpad"}

ASSUME ManifestPolicyAssumption ==
  /\ duplicateServers \subseteq Names
  /\ \A n \in Names : PrivateCache[n] \notin {NoCache, GatewayCache}
  /\ \A n, o \in Names : PrivateCache[n] = PrivateCache[o] => n = o

IsEnabled(server) == server.enabled # "false"
Stdio(server) == server.words[1] # "" /\ ~server.url

\* PackageSpec: the first word after npx or uvx that is neither an option nor
\* a runner's verb; the first launcher decides.
Launchers == {"npx", "uvx"}
Skipped == Options \cup {"", "exec", "run", "dlx"}
Arguments(words, i) == {j \in (i + 1)..Len(words) : words[j] \notin Skipped}
Launched(words) ==
  {i \in 1..Len(words) : words[i] \in Launchers /\ Arguments(words, i) # {}}
First(S) == CHOOSE i \in S : \A j \in S : i <= j

Kind(server) ==
  IF Launched(server.words) = {} THEN ""
  ELSE IF server.words[First(Launched(server.words))] = "npx" THEN "npm" ELSE "uv"
Package(server) ==
  server.words[First(Arguments(server.words, First(Launched(server.words))))]

\* pinViolation: a tag or a range passes for a version.
Pinned(package) ==
  /\ package \in DOMAIN Packages
  /\ \/ Packages[package].sep = "@" /\ Packages[package].version \notin {"", "latest"}
     \/ Packages[package].sep = "==" /\ Packages[package].version \notin {"", "*"}

UvKeys == {"HOME", "PATH", "UV_CACHE_DIR", "UV_TOOL_DIR", "UV_TOOL_BIN_DIR"}
ShellKeys == {"HOME", "PATH", "MISE_CONFIG_FILE", "MISE_DATA_DIR", "MISE_CACHE_DIR"}

-----------------------------------------------------------------------------
\* Rules 1-4, 7, 8 and 11, for a server that is started as a process.
PinBroken(server) ==
  IF Kind(server) = "" THEN server.words[1] \in Launchers ELSE ~Pinned(Package(server))

\* Mutant: any cache will do, another server's included.
NpmCacheBrokenUnlessSet(name, server) == Kind(server) = "npm" /\ server.cache = NoCache
NpmCacheBroken(name, server) == Kind(server) = "npm" /\ server.cache # PrivateCache[name]

ProcessRules(name, server) ==
  {r \in {"pin", "lifecycle", "lazy", "npm-cache", "uv-env", "shell-env"} :
     /\ Stdio(server)
     /\ \/ r = "pin" /\ PinBroken(server)
        \/ r = "lifecycle" /\ (server.idle <= 0 \/ server.lifetime <= 0)
        \/ r = "lazy" /\ ~server.lazy
        \/ r = "npm-cache" /\ NpmCacheBroken(name, server)
        \/ r = "uv-env" /\ Kind(server) = "uv" /\ ~(UvKeys \subseteq server.env)
        \/ r = "shell-env" /\ server.words[1] \in {"sh", "bash"}
             /\ ~(ShellKeys \subseteq server.env)}

\* Rule 9: a probe names a tool of tools.include, on a server that is enabled.
ProbeBroken(server) ==
  /\ server.probe # NoProbe
  /\ ~IsEnabled(server) \/ server.probe = NoTool \/ server.probe \notin server.include

\* Rules 2, 5, 6 and 9, whatever the transport.
EntryRules(server) ==
  {r \in {"connect_timeout", "tools-policy", "tools-include", "auth-probe"} :
     \/ r = "connect_timeout" /\ server.connect <= 0
     \/ r = "tools-policy" /\ IsEnabled(server)
          /\ ~({"resources", "prompts"} \subseteq server.policies)
     \/ r = "tools-include" /\ IsEnabled(server) /\ server.include = {}
     \/ r = "auth-probe" /\ ProbeBroken(server)}

Parked(servers, name) ==
  name \in DOMAIN servers /\ servers[name] # NoEntry /\ servers[name].enabled = "false"

\* Validate: what is wrong, per server.
Violations(servers) ==
  [n \in DOMAIN servers \cup duplicateServers |->
     (IF n \notin DOMAIN servers THEN {}
      ELSE IF servers[n] = NoEntry THEN {"shape"}
      ELSE ProcessRules(n, servers[n]) \cup EntryRules(servers[n]))
     \cup IF n \in duplicateServers /\ ~Parked(servers, n) THEN {"duplicate"} ELSE {}]

Clean(servers) == \A n \in DOMAIN Violations(servers) : Violations(servers)[n] = {}

-----------------------------------------------------------------------------
(* What the other commands make of a manifest.                             *)

\* Prewarm's npm jobs, and NPMCacheFor: the cache each installs into.
NpmJobs(servers) ==
  {n \in DOMAIN servers : servers[n] # NoEntry /\ Kind(servers[n]) = "npm"}
NPMCacheFor(server) == IF server.cache # NoCache THEN server.cache ELSE GatewayCache

\* Select: what verify contacts.
Selected(servers) == {n \in DOMAIN servers : servers[n] # NoEntry /\ IsEnabled(servers[n])}

\* What a clean manifest is relied on for: two npm jobs of the pre-warm never
\* install into one cache, nor any into the gateway's own, verify contacts
\* none of the duplicates, and no probe is left out of the drift run because
\* its tool is not declared or its server is parked.  The exception are
\* entries with a command and a url: they are no stdio servers to the policy,
\* and the pre-warm installs them (validate.go:70-228, prewarm.go:281-296).
Safe(servers) ==
  LET processes == {n \in NpmJobs(servers) : Stdio(servers[n])} IN
  /\ \A n, o \in processes : NPMCacheFor(servers[n]) = NPMCacheFor(servers[o]) => n = o
  /\ \A n \in processes : NPMCacheFor(servers[n]) # GatewayCache
  /\ Selected(servers) \cap duplicateServers = {}
  /\ \A n \in DOMAIN servers : servers[n] # NoEntry /\ servers[n].probe # NoProbe
       => n \in Selected(servers) /\ servers[n].probe \in servers[n].include
=============================================================================
