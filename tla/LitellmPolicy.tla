--------------------------- MODULE LitellmPolicy ---------------------------
(***************************************************************************)
(* `gitopsctl validate litellm-config` (internal/litellm/values.go): a     *)
(* scan of the chart's values, line by line, for cache keys among the      *)
(* litellm_params of a model.  A line is what parseKeyLine gets out of it: *)
(* the blanks it starts with, whether a dash opens a list entry on it, its *)
(* key and the text behind the colon, if any.  Blank lines, comments and   *)
(* lines that are no mapping are skipped there and left out here.          *)
(***************************************************************************)
EXTENDS Integers, SequencesExt, FiniteSetsExt

cacheKeys == {"cache", "cache_params"}

\* The text behind a colon: a scalar or the keys of a one-line flow mapping,
\* and what stands aside and is no value to YAML (a comment, an anchor, a tag).
\* "no_cache" is any key that ends like a cache key, "quoted cache" is
\* {"cache": ...}, "inner cache" belongs to a mapping inside the flow mapping.
FlowKeys == {"cache", "cache_params", "quoted cache", "no_cache", "inner cache", "model"}
Values == [scalar : STRING, flow : SUBSET FlowKeys, aside : {"none", "aside", "cache:"}]
NoValue == [scalar |-> "nothing", flow |-> {}, aside |-> "none"]
Unnamed == [NoValue EXCEPT !.scalar = "?"]
KeyLines == [start : Nat, dash : BOOLEAN, key : STRING, value : Values]

\* parseKeyLine: the indent of a key is that of its line, and two more after
\* a dash.
Indent(line) == line.start + IF line.dash THEN 2 ELSE 0

\* A direct key is reported; but "cache:" only with some text behind it.
Reported(line) ==
  \/ line.key = "cache_params"
  \/ line.key = "cache" /\ line.value # NoValue

\* flowCacheKeys searches all of the text for a cache key with its colon: it
\* takes other keys and comments for one, and not a key in quotes.
flowCacheKeys(value) ==
  value.flow \cap {"cache", "cache_params", "no_cache", "inner cache"} # {} \/ value.aside = "cache:"

\* The state of the walk: the name of the entry, the indents of the open
\* litellm_params and of its direct keys, the findings, and the entries seen.
None == -1
Start == [model |-> NoValue, params |-> None, child |-> None, found |-> {}, scanned |-> 0]

Violation(n, model) == [line |-> n, model |-> model]

\* A key inside the open block: only those at the indent of its first key
\* count.
Inside(s, line, n) ==
  LET child == IF s.child = None THEN Indent(line) ELSE s.child
  IN [s EXCEPT !.child = child,
               !.found = @ \cup IF Indent(line) = child /\ Reported(line)
                                THEN {Violation(n, s.model)} ELSE {}]

\* A key outside: a name, or litellm_params as a flow mapping or as a block.
Outside(s, line, n) ==
  CASE line.key = "model_name" -> [s EXCEPT !.model = line.value]
    [] line.key = "litellm_params" /\ line.value # NoValue ->
         [s EXCEPT !.scanned = @ + 1,
                   !.found = @ \cup IF flowCacheKeys(line.value) THEN {Violation(n, s.model)} ELSE {}]
    [] line.key = "litellm_params" /\ line.value = NoValue ->
         [s EXCEPT !.scanned = @ + 1, !.params = Indent(line), !.child = None,
                   !.model = IF @ = NoValue THEN Unnamed ELSE @]
    [] OTHER -> s

\* Mutant: only a key to the left of litellm_params ends its block.
StepKeepsOpen(s, line, n) ==
  IF s.params # None /\ Indent(line) >= s.params THEN Inside(s, line, n)
  ELSE Outside([s EXCEPT !.params = None, !.child = None], line, n)

\* A key at or left of the block's indent ends the block, and may open
\* another one.
Step(s, line, n) ==
  IF s.params # None /\ Indent(line) > s.params THEN Inside(s, line, n)
  ELSE Outside([s EXCEPT !.params = None, !.child = None], line, n)

\* CheckCacheKeysInModelParams: what it holds after each line, and at the end.
Scanning(lines) ==
  LET s[n \in 0..Len(lines)] == IF n = 0 THEN Start ELSE Step(s[n - 1], lines[n], n)
  IN s
Scanned(lines) == Scanning(lines)[Len(lines)]

-----------------------------------------------------------------------------
(* What the findings should be, from the tree the lines are in YAML.       *)

\* The line of the mapping a line is a key of; 0 for a key of the document.
Parent(lines, n) ==
  Max({0} \cup {m \in 1..(n - 1) : Indent(lines[m]) < Indent(lines[n])})

\* The lines of all the mappings a line is in: from there on all is further in.
Ancestors(lines, n) ==
  {m \in 1..(n - 1) : \A k \in (m + 1)..n : Indent(lines[m]) < Indent(lines[k])}

\* The lines of the list entry (or of the mapping that is in no list) a line
\* belongs to: those beside it, between the dashes that bound the entry.
Entry(lines, n) ==
  {m \in DOMAIN lines :
     /\ Parent(lines, m) = Parent(lines, n)
     /\ \A k \in DOMAIN lines : Parent(lines, k) = Parent(lines, n) /\ lines[k].dash
                                  => ~(k > Min({m, n}) /\ k <= Max({m, n}))}

\* No value to YAML, whatever comment there is.
Bare(value) == value.scalar = NoValue.scalar /\ value.flow = {}

\* Lines that are a YAML document: only a key with no value has keys under it,
\* the keys of one mapping are as far in and differ, and a list is not also a
\* mapping.  A text that goes on on further lines (a block scalar, a flow
\* mapping over several) is not among them.
Document(lines) ==
  \A n \in DOMAIN lines :
    LET p == Parent(lines, n) IN
    /\ p # 0 => Bare(lines[p].value)
    /\ p = 0 => Indent(lines[n]) = Indent(lines[1]) /\ ~lines[n].dash
    /\ \A m \in (p + 1)..(n - 1) :
         Parent(lines, m) = p => Indent(lines[m]) = Indent(lines[n])
    /\ \A m \in Entry(lines, n) : lines[m].key = lines[n].key => m = n
    /\ lines[n].dash => lines[p + 1].dash

\* The name an entry gives before its litellm_params, unless a mapping between
\* the two has a model_name of its own.
NameBefore(lines, n) ==
  LET p == IF lines[n].key = "litellm_params" THEN n ELSE Parent(lines, n)
      names == {m \in 1..(p - 1) : lines[m].key = "model_name"}
  IN {lines[m].value.scalar : m \in {e \in names \cap Entry(lines, p) :
        lines[e].value.scalar # NoValue.scalar /\ \A k \in names : k <= e}}

\* The litellm_params of models: not those inside the litellm_params of one.
Models(lines) ==
  {n \in DOMAIN lines :
     /\ lines[n].key = "litellm_params"
     /\ \A a \in Ancestors(lines, n) : lines[a].key # "litellm_params"}

\* The cache keys that must never appear: in a flow mapping or on a line.
Expected(lines) ==
  {n \in Models(lines) : lines[n].value.flow \cap {"cache", "cache_params", "quoted cache"} # {}}
    \cup {n \in DOMAIN lines : lines[n].key \in cacheKeys /\ Parent(lines, n) \in Models(lines)}

\* Where a line-oriented scan and YAML may differ.  Behind a litellm_params with
\* a comment, an anchor or a tag no block is opened; a cache key in quotes in a
\* flow mapping, and a cache with its mapping on the lines below, are passed
\* over; and a flow mapping or a comment may only look like a cache key.
Unopened(lines) ==
  {n \in DOMAIN lines : \E a \in Ancestors(lines, n) :
     lines[a].key = "litellm_params" /\ lines[a].value # NoValue}
PassedOver(line) ==
  \/ line.key = "cache" /\ line.value = NoValue
  \/ line.key = "litellm_params" /\ "quoted cache" \in line.value.flow
Lookalike(line) ==
  line.value.flow \cap {"no_cache", "inner cache"} # {} \/ line.value.aside = "cache:"
=============================================================================
