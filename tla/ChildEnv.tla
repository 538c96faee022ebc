------------------------------ MODULE ChildEnv ------------------------------
(***************************************************************************)
(* The environment a stdio child is started with (internal/mcp/            *)
(* manifest.go, Expand, BaselineEnv and ChildEnv).  A value that a server  *)
(* declares is a literal or names one placeholder; a placeholder that      *)
(* resolves nowhere stays in the value as the text it was.                 *)
(*                                                                         *)
(* ChildEnv ranges over a Go map, so the declared entries are expanded in  *)
(* an order that each call draws anew, and each expansion is visible to    *)
(* the ones after it.                                                      *)
(***************************************************************************)
EXTENDS Integers, Sequences, FiniteSets

CONSTANTS
  Names,      \* environment variable names
  Baseline,   \* the names BaselineEnv lets through (PATH, HOME, USER, XDG_*, ...)
  Defaulted   \* those it gives a value of its own when they are unset (PATH, HOME)

ASSUME ChildEnvAssumption ==
  Defaulted \subseteq Baseline /\ Baseline \subseteq Names /\ IsFiniteSet(Names)

Unset       == "unset"       \* no such variable
Placeholder == "placeholder" \* the text ${VAR} itself
Secret      == "secret"      \* a value of the process environment
Default     == "default"     \* BaselineEnv's own PATH and HOME
Text        == "text"        \* a literal of the manifest
Values == {Unset, Placeholder, Secret, Default, Text}

\* What an entry declares for a name: nothing, a literal, or a reference.
Nothing == [kind |-> "nothing"]
Literal == [kind |-> "literal"]
Ref(n)  == [kind |-> "ref", to |-> n]
Templates == {Nothing, Literal} \cup {Ref(n) : n \in Names}

Declared(decl) == {n \in Names : decl[n] # Nothing}

\* The process environment, and the part of it every child gets.
ProcessEnv(proc)  == [n \in Names |-> IF n \in proc THEN Secret ELSE Unset]
BaselineEnv(proc) ==
  [n \in Names |-> IF n \notin Baseline THEN Unset
                   ELSE IF n \in proc THEN Secret
                   ELSE IF n \in Defaulted THEN Default ELSE Unset]

\* lookup before any declared entry is expanded.
FirstLookup(proc) ==
  [n \in Names |-> IF BaselineEnv(proc)[n] # Unset THEN BaselineEnv(proc)[n]
                   ELSE ProcessEnv(proc)[n]]

Unresolved(template, lookup) == template.kind = "ref" /\ lookup[template.to] = Unset

Expand(template, lookup) ==
  IF template.kind = "literal" THEN Text
  ELSE IF Unresolved(template, lookup) THEN Placeholder
  ELSE lookup[template.to]

\* The orders in which a range over the map S may come.
Orders(S) ==
  {o \in [1..Cardinality(S) -> S] : \A i, j \in DOMAIN o : o[i] = o[j] => i = j}

\* lookup after the first k entries of the order o.
LookupAfter(decl, proc, o) ==
  LET after[k \in 0..Len(o)] ==
        IF k = 0 THEN FirstLookup(proc)
        ELSE [after[k - 1] EXCEPT ![o[k]] = Expand(decl[o[k]], after[k - 1])]
  IN after

\* What a call that takes the entries in the order o returns: the child's
\* environment and the missing names.
ChildEnvIn(decl, proc, o) ==
  LET lookup == LookupAfter(decl, proc, o)
  IN [env     |-> [n \in Names |-> IF n \in Declared(decl) THEN lookup[Len(o)][n]
                                   ELSE BaselineEnv(proc)[n]],
      missing |-> {decl[o[k]].to :
                     k \in {i \in 1..Len(o) : Unresolved(decl[o[i]], lookup[i - 1])}}]

\* What a call may return.
ChildEnvs(decl, proc) == {ChildEnvIn(decl, proc, o) : o \in Orders(Declared(decl))}

\* The names an entry refers to, and those a reference to is to be resolved
\* by: "the process environment [...] falling back to values declared here"
\* (manifest.go:171-175).
Refs(decl)        == {decl[n].to : n \in {m \in Names : decl[m].kind = "ref"}}
Chained(decl)     ==
  {decl[n].to : n \in {m \in Names : decl[m].kind = "ref" /\ decl[m].to # m}}
    \cap Declared(decl)
Inherited(proc)   == proc \cup Defaulted
Literals(decl)    == {n \in Names : decl[n] = Literal}
=============================================================================
