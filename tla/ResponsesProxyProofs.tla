------------------------ MODULE ResponsesProxyProofs ------------------------
(***************************************************************************)
(* What the responses proxy promises, for any number of retries, any       *)
(* fallbacks, any calls and conversations of any length: the recovery      *)
(* keeps its order, the stream is faithful, and the result of a tool call  *)
(* follows it in the messages.                                             *)
(*                                                                         *)
(* The last two speak of what is gathered from a sequence, element by      *)
(* element, by recursion.  Least, Induction and FoldExists stand for       *)
(* induction over its length: they are stated of sets and functions, not   *)
(* of operators, which makes them first-order facts.                       *)
(***************************************************************************)
EXTENDS ResponsesProxy, WellFoundedInduction, FiniteSetTheorems, SequenceTheorems, TLAPS

-----------------------------------------------------------------------------
(* The recovery *)

\* The models that are asked, and what comes of it.
Models == STRING \cup {"primary"}
Results == {"ok", "limited", "refused", "down"}

\* While an attempt is awaited, all before it have failed with a status, the
\* first with one that is worth another attempt, and a model is left to ask;
\* an answer is translated only after an attempt that was answered.
Recovery ==
  /\ asked \in Seq([model : Models, result : Results])
  /\ phase = "fetch" =>
       /\ Len(asked) < Len(Plan) /\ reply = "none"
       /\ \A k \in 1..Len(asked) : asked[k].result \in {"limited", "refused"}
       /\ Len(asked) > 0 => asked[1].result = "limited"
  /\ phase \in {"stream", "json"} => reply = "none"
  /\ RecoveryInOrder

\* The plan has the primary model first, and a model for every attempt.
LEMMA PlanLength ==
  Plan \in Seq(Models) /\ Len(Plan) = 1 + FALLBACK_RETRIES + Len(FALLBACK_MODELS)
<1> DEFINE primary == [k \in 1..(1 + FALLBACK_RETRIES) |-> "primary"]
<1>0. 1 + FALLBACK_RETRIES \in Nat
  BY ResponsesProxyAssumption
<1>1. primary \in Seq(Models)
  <2>1. "primary" \in Models
    BY DEF Models
  <2>2. primary \in [1..(1 + FALLBACK_RETRIES) -> Models]
    BY <2>1
  <2> QED
    BY <1>0, <2>2, SeqDef
<1>2. Len(primary) = 1 + FALLBACK_RETRIES
  <2>1. 1..Len(primary) = 1..(1 + FALLBACK_RETRIES) /\ Len(primary) \in Nat
    BY <1>1, LenProperties
  <2> QED
    BY <2>1, ResponsesProxyAssumption
<1>3. FALLBACK_MODELS \in Seq(Models)
  BY ResponsesProxyAssumption, SeqMonotonic DEF Models
<1> QED
  BY <1>1, <1>2, <1>3, ResponsesProxyAssumption DEF Plan

\* Nothing has been asked at the start.
LEMMA RecoveryInit == Init => Recovery
<1> SUFFICES ASSUME Init PROVE Recovery
  OBVIOUS
<1>1. asked = <<>> /\ phase = "idle" /\ reply = "none"
  BY DEF Init
<1> QED
  BY <1>1 DEF Recovery, RecoveryInOrder

\* An attempt keeps it.
LEMMA FetchStep ==
  ASSUME Recovery, NEW result \in Results, Fetch(result)
  PROVE  Recovery'
<1> DEFINE n == Len(asked) + 1
           this == [model |-> Plan[n], result |-> result]
<1>1. n \in 1..Len(Plan) /\ n \in Nat /\ Len(Plan) \in Nat
  BY PlanLength, ResponsesProxyAssumption DEF Recovery, Fetch
<1>2. this \in [model : Models, result : Results]
  BY <1>1, PlanLength
<1>3. /\ asked' = Append(asked, this) /\ asked' \in Seq([model : Models, result : Results])
      /\ Len(asked') = n /\ asked'[n] = this
      /\ \A k \in 1..Len(asked) : asked'[k] = asked[k]
  BY <1>2 DEF Recovery, Fetch
<1>4. phase = "fetch" /\ reply = "none"
  BY DEF Recovery, Fetch
<1>5. \A k \in 1..(n - 1) : asked'[k].result \in {"limited", "refused"}
                              /\ (k = 1 => asked'[k].result = "limited")
  BY <1>3, <1>4 DEF Recovery
<1>6. \A k \in 1..n : asked'[k].model = Plan[k]
  BY <1>1, <1>3 DEF Recovery, RecoveryInOrder
<1>7. RecoveryInOrder'
  <2>1. \/ result = "ok" /\ phase' \in {"stream", "json"} /\ reply' = "none"
        \/ result = "down" /\ phase' = "idle" /\ reply' = "500"
        \/ result \in {"limited", "refused"} /\ GivesUp(n, result) /\ phase' = "idle" /\ reply' = result
        \/ result \in {"limited", "refused"} /\ phase' = "fetch" /\ reply' = "none"
    BY <1>4 DEF Fetch
  <2>2. Plan' = Plan
    BY DEF Plan
  <2>3. \A k \in 1..n : k < n => asked'[k].result # "ok"
    BY <1>1, <1>5
  <2>4. \A k \in 1..(n - 1) : asked'[k].result # "down" /\ (k = 1 => asked'[k].result = "limited")
    BY <1>5
  <2>5. reply' \in {"limited", "refused"} =>
          asked'[n].result = reply' /\ (Len(Plan) = n \/ (n = 1 /\ reply' = "refused"))
    BY <1>3, <2>1 DEF GivesUp
  <2>6. reply' \in {"completed", "broken"} => FALSE
    BY <2>1
  <2>7. phase' \in {"stream", "json"} => asked'[n].result = "ok"
    BY <1>3, <2>1
  <2> QED
    BY <1>3, <1>6, <2>2, <2>3, <2>4, <2>5, <2>6, <2>7 DEF RecoveryInOrder
<1>8. phase' = "fetch" =>
        /\ Len(asked') < Len(Plan) /\ reply' = "none"
        /\ \A k \in 1..Len(asked') : asked'[k].result \in {"limited", "refused"}
        /\ Len(asked') > 0 => asked'[1].result = "limited"
  <2> SUFFICES ASSUME phase' = "fetch"
               PROVE  /\ Len(asked') < Len(Plan) /\ reply' = "none"
                      /\ \A k \in 1..Len(asked') : asked'[k].result \in {"limited", "refused"}
                      /\ Len(asked') > 0 => asked'[1].result = "limited"
    OBVIOUS
  <2>1. result \in {"limited", "refused"} /\ ~GivesUp(n, result) /\ reply' = reply
    BY DEF Fetch
  <2>2. n # Len(Plan) /\ (n = 1 => result = "limited")
    BY <2>1 DEF GivesUp
  <2>3. n < Len(Plan)
    BY <1>1, <2>2
  <2>4. \A k \in 1..n : asked'[k].result \in {"limited", "refused"}
    BY <1>1, <1>3, <1>5, <2>1
  <2>5. asked'[1].result = "limited"
    BY <1>1, <1>3, <1>5, <2>2
  <2> QED
    BY <1>3, <1>4, <2>1, <2>3, <2>4, <2>5
<1>9. phase' \in {"stream", "json"} => reply' = "none"
  BY <1>4 DEF Fetch
<1>10. Plan' = Plan
  BY DEF Plan
<1> QED
  BY <1>3, <1>7, <1>8, <1>9, <1>10 DEF Recovery

\* The other actions leave the attempts alone, or begin a request.
LEMMA OtherSteps ==
  ASSUME Recovery,
         \/ Request \/ Skip \/ EndOfStream \/ BreakOfStream \/ Json
         \/ \E call \in Calls \cup {0}, named, piece \in BOOLEAN : Delta(call, named, piece)
         \/ UNCHANGED vars
  PROVE  Recovery'
<1>0. Plan' = Plan /\ Len(Plan) \in Nat /\ Len(Plan) > 0
  BY PlanLength, ResponsesProxyAssumption DEF Plan
<1>1. CASE Request
  <2>1. asked' = <<>> /\ phase' = "fetch" /\ reply' = "none"
    BY <1>1 DEF Request
  <2> QED
    BY <1>0, <2>1 DEF Recovery, RecoveryInOrder
<1>2. CASE EndOfStream \/ BreakOfStream \/ Json
  <2>1. /\ asked' = asked /\ phase \in {"stream", "json"} /\ phase' = "idle"
        /\ reply' \in {"completed", "broken", "500"}
    BY <1>2 DEF EndOfStream, BreakOfStream, Json
  <2> QED
    BY <1>0, <2>1 DEF Recovery, RecoveryInOrder
<1>3. CASE (\E call \in Calls \cup {0}, named, piece \in BOOLEAN : Delta(call, named, piece))
           \/ Skip \/ UNCHANGED vars
  <2>1. asked' = asked /\ phase' = phase /\ reply' = reply
    BY <1>3 DEF Delta, Skip, vars
  <2> QED
    BY <1>0, <2>1 DEF Recovery, RecoveryInOrder
<1> QED
  BY <1>1, <1>2, <1>3

\* Codex is told of a failure only when the models were all asked, in order, or
\* there was no point in it, for any retries and fallbacks (proxy.ts,
\* "Rate-limit / upstream-error recovery").
THEOREM RecoveryOrder == Spec => []RecoveryInOrder
<1>1. Recovery /\ [Next]_vars => Recovery'
  BY FetchStep, OtherSteps DEF Next, Results
<1>2. Recovery => RecoveryInOrder
  BY DEF Recovery
<1> QED
  BY RecoveryInit, <1>1, <1>2, PTL DEF Spec

-----------------------------------------------------------------------------
(* What is gathered from a sequence *)

\* A set of naturals has a least one.
LEMMA Least ==
  ASSUME NEW S \in SUBSET Nat, S # {}
  PROVE  \E k \in S : \A m \in S : k <= m
<1>1. PICK k \in S : \A m \in S : ~(<<m, k>> \in OpToRel(<, Nat))
  BY NatLessThanWellFounded, WFMin
<1>2. \A m \in S : <<m, k>> \in OpToRel(<, Nat) <=> m < k
  BY DEF OpToRel
<1>3. \A m \in S : ~(m < k)
  BY <1>1, <1>2, Zenon
<1>. QED  BY <1>3

\* A set that has 0, and the successor of each natural it has, has them all.
LEMMA Induction ==
  ASSUME NEW S, 0 \in S, \A n \in Nat : n \in S => n + 1 \in S
  PROVE  Nat \subseteq S
<1> SUFFICES ASSUME Nat \ S # {} PROVE FALSE
  OBVIOUS
<1>1. PICK k \in Nat \ S : \A m \in Nat \ S : k <= m
  BY Least
<1>2. k # 0 /\ k - 1 \in Nat /\ k - 1 \notin S
  BY <1>1
<1>. QED  BY <1>1, <1>2

\* f takes the elements of q one by one, from x.
Folds(f, q, x, G) == f[0] = x /\ \A k \in 1..Len(q) : f[k] = G[f[k - 1]][q[k]]

\* What is defined by recursion over a sequence exists.
LEMMA FoldExists ==
  ASSUME NEW X, NEW A, NEW x \in X, NEW G \in [X -> [A -> X]], NEW q \in Seq(A)
  PROVE  \E f \in [0..Len(q) -> X] : Folds(f, q, x, G)
<1> DEFINE Upto(f, n) == f[0] = x /\ \A k \in 1..n : f[k] = G[f[k - 1]][q[k]]
           Has(n) == n <= Len(q) => \E f \in [0..n -> X] : Upto(f, n)
           S == {n \in Nat : Has(n)}
<1>1. 0 \in S
  <2> DEFINE g == [k \in 0..0 |-> x]
  <2>1. g \in [0..0 -> X] /\ g[0] = x
    OBVIOUS
  <2>2. Upto(g, 0)
    BY <2>1
  <2> HIDE DEF g, Upto
  <2>. QED  BY <2>1, <2>2
<1>2. ASSUME NEW n \in Nat, Has(n), n <= Len(q), n + 1 <= Len(q)
      PROVE  \E f \in [0..(n + 1) -> X] : Upto(f, n + 1)
  <2>1. PICK f \in [0..n -> X] : Upto(f, n)
    <3> HIDE DEF Upto
    <3>. QED  BY <1>2
  <2>2. G[f[n]][q[n + 1]] \in X
    <3>1. f[n] \in X /\ q[n + 1] \in A
      BY <1>2, <2>1
    <3>2. G[f[n]] \in [A -> X]
      BY <3>1
    <3>. QED  BY <3>1, <3>2
  <2> DEFINE g == [k \in 0..(n + 1) |-> IF k = n + 1 THEN G[f[n]][q[n + 1]] ELSE f[k]]
  <2>3. g \in [0..(n + 1) -> X]
    BY <2>1, <2>2
  <2>4. g[0] = x
    BY <2>1
  <2>5. ASSUME NEW k \in 1..(n + 1)
        PROVE  g[k] = G[g[k - 1]][q[k]]
    <3>1. k - 1 \in 0..n /\ g[k - 1] = f[k - 1]
      OBVIOUS
    <3>2. CASE k = n + 1
      BY <3>1, <3>2
    <3>3. CASE k # n + 1
      <4>1. k \in 1..n /\ g[k] = f[k]
        BY <3>3
      <4>. QED  BY <2>1, <3>1, <4>1
    <3>. QED  BY <3>2, <3>3
  <2>6. Upto(g, n + 1)
    BY <2>4, <2>5
  <2> HIDE DEF g, Upto
  <2>. QED  BY <2>3, <2>6
<1> HIDE DEF Upto
<1>3. \A n \in Nat : Has(n) => Has(n + 1)
  <2>1. ASSUME NEW n \in Nat, n + 1 <= Len(q)
        PROVE  n <= Len(q)
    BY <2>1
  <2>. QED  BY <1>2, <2>1
<1> HIDE DEF Has
<1>7. \A n \in Nat : n \in S => n + 1 \in S
  BY <1>3
<1> HIDE DEF S
<1>4. Nat \subseteq S
  BY <1>1, <1>7, Induction, Zenon
<1>5. Len(q) \in S /\ Len(q) \in Nat
  BY <1>4
<1>6. \E f \in [0..Len(q) -> X] : Upto(f, Len(q))
  BY <1>5 DEF S, Has
<1>. QED  BY <1>6 DEF Upto, Folds

\* And depends on nothing but the elements taken.
LEMMA FoldsAgree ==
  ASSUME NEW x, NEW G, NEW p, NEW q, NEW f, NEW g, Folds(f, p, x, G), Folds(g, q, x, G),
         NEW k \in Nat, Len(p) \in Nat, Len(q) \in Nat, k <= Len(p), k <= Len(q),
         \A i \in 1..k : p[i] = q[i]
  PROVE  f[k] = g[k]
<1> DEFINE S == {n \in Nat : n <= k => f[n] = g[n]}
<1>1. 0 \in S
  BY DEF Folds
<1>2. ASSUME NEW n \in Nat, n \in S
      PROVE  n + 1 \in S
  <2> SUFFICES ASSUME n + 1 <= k
               PROVE  f[n + 1] = g[n + 1]
    OBVIOUS
  <2>1. n + 1 \in 1..Len(p) /\ n + 1 \in 1..Len(q) /\ n + 1 \in 1..k /\ (n + 1) - 1 = n
    OBVIOUS
  <2>2. f[n] = g[n]
    BY <1>2
  <2>3. f[n + 1] = G[f[n]][p[n + 1]] /\ g[n + 1] = G[g[n]][q[n + 1]]
    BY <2>1 DEF Folds
  <2>. QED  BY <2>1, <2>2, <2>3
<1>3. \A n \in Nat : n \in S => n + 1 \in S
  BY <1>2
<1> HIDE DEF S
<1>4. Nat \subseteq S
  BY <1>1, <1>3, Induction, Zenon
<1>. QED  BY <1>4 DEF S

\* One element more is one step more.
LEMMA FoldNext ==
  ASSUME NEW x, NEW G, NEW q, NEW z, NEW f, NEW g, Folds(f, q, x, G), Folds(g, z, x, G),
         NEW n \in Nat, Len(q) = n, Len(z) = n + 1, \A i \in 1..n : q[i] = z[i]
  PROVE  g[n + 1] = G[f[n]][z[n + 1]]
<1>1. Len(q) \in Nat /\ Len(z) \in Nat /\ n <= Len(q) /\ n <= Len(z)
  OBVIOUS
<1>2. f[n] = g[n]
  BY <1>1, FoldsAgree
<1>3. n + 1 \in 1..Len(z) /\ (n + 1) - 1 = n
  OBVIOUS
<1>. QED  BY <1>2, <1>3 DEF Folds

\* Appending a unit.
Concat(A) == [s \in Seq(A) |-> [u \in Seq(A) |-> s \o u]]

\* A flattened sequence is built unit by unit.
LEMMA FlattenIs ==
  ASSUME NEW A, NEW units \in Seq(Seq(A))
  PROVE  \E flat \in [0..Len(units) -> Seq(A)] :
           Folds(flat, units, <<>>, Concat(A)) /\ flat[Len(units)] = FlattenSeq(units)
<1> DEFINE G == Concat(A)
<1>1. G \in [Seq(A) -> [Seq(A) -> Seq(A)]]
  BY DEF Concat
<1>2. <<>> \in Seq(A)
  OBVIOUS
<1>3. PICK flat \in [0..Len(units) -> Seq(A)] : Folds(flat, units, <<>>, G)
  <2> HIDE DEF G
  <2>. QED  BY <1>1, <1>2, FoldExists
<1>4. flat[0] = <<>> /\ \A k \in 1..Len(units) : flat[k] = flat[k - 1] \o units[k]
  <2>1. flat[0] = <<>>
    BY <1>3 DEF Folds
  <2>2. ASSUME NEW k \in 1..Len(units)
        PROVE  flat[k] = flat[k - 1] \o units[k]
    <3>1. flat[k] = G[flat[k - 1]][units[k]]
      BY <1>3 DEF Folds
    <3>2. flat[k - 1] \in Seq(A) /\ units[k] \in Seq(A)
      <4>1. k - 1 \in 0..Len(units)
        OBVIOUS
      <4>2. flat[k - 1] \in Seq(A)
        BY <1>3, <4>1
      <4>. QED  BY <4>2
    <3>. QED  BY <3>1, <3>2 DEF Concat
  <2>. QED  BY <2>1, <2>2
<1>5. ASSUME Len(units) # 0
      PROVE  flat[Len(units)] = FlattenSeq(units)
  <2> DEFINE Recursive(f) == f = [i \in 1..Len(units) |->
                                    IF i = 1 THEN units[i] ELSE f[i - 1] \o units[i]]
             h == [i \in 1..Len(units) |-> flat[i]]
             g == CHOOSE f : Recursive(f)
  <2>1. Recursive(h)
    <3>1. ASSUME NEW i \in 1..Len(units)
          PROVE  h[i] = IF i = 1 THEN units[i] ELSE h[i - 1] \o units[i]
      <4>1. flat[i] = flat[i - 1] \o units[i]
        BY <1>4
      <4>4. units[i] \in Seq(A)
        OBVIOUS
      <4>2. CASE i = 1
        <5>1. flat[i - 1] = <<>>
          BY <1>4, <4>2
        <5>. QED  BY <4>1, <4>2, <4>4, <5>1
      <4>3. CASE i # 1
        <5>1. i - 1 \in 1..Len(units)
          BY <4>3
        <5>. QED  BY <4>1, <4>3, <5>1
      <4>. QED  BY <4>2, <4>3
    <3>. QED  BY <3>1
  <2> HIDE DEF h
  <2>2. Recursive(g)
    <3> HIDE DEF Recursive
    <3>. QED  BY <2>1
  <2>3. FlattenSeq(units) = g[Len(units)]
    BY <1>5 DEF FlattenSeq
  <2> HIDE DEF g
  <2> DEFINE T == {k \in Nat : k + 1 <= Len(units) => g[k + 1] = flat[k + 1]}
  <2>4. 0 \in T
    <3>1. 1 \in 1..Len(units)
      BY <1>5
    <3>2. h[1] = units[1] /\ g[1] = units[1]
      BY <2>1, <2>2, <3>1
    <3>3. h[1] = flat[1]
      BY <3>1 DEF h
    <3>. QED  BY <3>2, <3>3
  <2>5. ASSUME NEW k \in Nat, k \in T
        PROVE  k + 1 \in T
    <3> SUFFICES ASSUME (k + 1) + 1 <= Len(units)
                 PROVE  g[(k + 1) + 1] = flat[(k + 1) + 1]
      OBVIOUS
    <3>1. /\ (k + 1) + 1 \in 1..Len(units) /\ ((k + 1) + 1) - 1 = k + 1 /\ (k + 1) + 1 # 1
          /\ g[k + 1] = flat[k + 1]
      BY <2>5
    <3>2. g[(k + 1) + 1] = g[k + 1] \o units[(k + 1) + 1]
      BY <2>2, <3>1
    <3>3. flat[(k + 1) + 1] = flat[k + 1] \o units[(k + 1) + 1]
      BY <1>4, <3>1
    <3>. QED  BY <3>1, <3>2, <3>3
  <2>6. \A k \in Nat : k \in T => k + 1 \in T
    BY <2>5
  <2> HIDE DEF T
  <2>7. Nat \subseteq T
    BY <2>4, <2>6, Induction, Zenon
  <2>8. Len(units) - 1 \in T /\ (Len(units) - 1) + 1 = Len(units)
    BY <1>5, <2>7
  <2>. QED  BY <2>3, <2>8 DEF T
<1>6. ASSUME Len(units) = 0
      PROVE  flat[Len(units)] = FlattenSeq(units)
  <2>1. units = <<>> /\ FlattenSeq(units) = units
    BY <1>6 DEF FlattenSeq
  <2>. QED  BY <1>4, <1>6, <2>1
<1>. QED  BY <1>3, <1>5, <1>6


\* Of nothing, nothing.
LEMMA FlattenNothing == FlattenSeq(<<>>) = <<>>
<1>1. Len(<<>>) = 0
  OBVIOUS
<1>. QED  BY <1>1 DEF FlattenSeq

\* One element more is one application more.
LEMMA FoldAppend ==
  ASSUME NEW A, NEW q \in Seq(A), NEW a \in A, NEW x, NEW G, NEW f, NEW g
  PROVE  Folds(f, q, x, G) /\ Folds(g, Append(q, a), x, G)
           => g[Len(Append(q, a))] = G[f[Len(q)]][a]
<1>0. Append(q, a) \in Seq(A)
  OBVIOUS
<1>1. PICK z \in Seq(A) : z = Append(q, a)
  BY <1>0
<1>2. PICK n \in Nat : n = Len(q)
  OBVIOUS
<1>3. Len(z) = n + 1 /\ z[n + 1] = a /\ \A i \in 1..n : q[i] = z[i]
  BY <1>1, <1>2
<1>4. ASSUME Folds(f, q, x, G), Folds(g, z, x, G)
      PROVE  g[n + 1] = G[f[n]][z[n + 1]]
  BY <1>2, <1>3, <1>4, FoldNext
<1>. QED  BY <1>1, <1>2, <1>3, <1>4

\* One unit more goes to the end.
LEMMA FlattenNext ==
  ASSUME NEW A, NEW ss \in Seq(Seq(A)), NEW u \in Seq(A)
  PROVE  FlattenSeq(ss) \in Seq(A) /\ FlattenSeq(Append(ss, u)) = FlattenSeq(ss) \o u
<1>1. PICK f \in [0..Len(ss) -> Seq(A)] :
        Folds(f, ss, <<>>, Concat(A)) /\ f[Len(ss)] = FlattenSeq(ss)
  BY FlattenIs
<1>2. Append(ss, u) \in Seq(Seq(A))
  OBVIOUS
<1>3. PICK g \in [0..Len(Append(ss, u)) -> Seq(A)] :
        Folds(g, Append(ss, u), <<>>, Concat(A)) /\ g[Len(Append(ss, u))] = FlattenSeq(Append(ss, u))
  BY <1>2, FlattenIs
<1>4. g[Len(Append(ss, u))] = Concat(A)[f[Len(ss)]][u]
  BY <1>1, <1>3, FoldAppend
<1>5. f[Len(ss)] \in Seq(A)
  <2>1. Len(ss) \in 0..Len(ss)
    OBVIOUS
  <2>. QED  BY <1>1, <2>1
<1>. QED  BY <1>1, <1>3, <1>4, <1>5 DEF Concat

\* What each element gives, put together.
Gather(f, s) == FlattenSeq([k \in DOMAIN s |-> f[s[k]]])
Gives(f, S, A) == f \in [S -> Seq(A)]
Grows(f, A, s, e) ==
  Gather(f, s) \in Seq(A) /\ Gather(f, Append(s, e)) = Gather(f, s) \o f[e]

\* One element more gives its own more.
LEMMA GatherNext ==
  ASSUME NEW S, NEW A, NEW f, NEW s \in Seq(S), NEW e \in S, Gives(f, S, A)
  PROVE  Grows(f, A, s, e)
<1>0. f \in [S -> Seq(A)]
  BY DEF Gives
<1>1. PICK n \in Nat : n = Len(s)
  OBVIOUS
<1>2. DOMAIN s = 1..n /\ DOMAIN Append(s, e) = 1..(n + 1)
  BY <1>1
<1>3. PICK q \in Seq(Seq(A)) : q = [k \in 1..n |-> f[s[k]]]
  <2>1. \A k \in 1..n : f[s[k]] \in Seq(A)
    BY <1>0, <1>1
  <2>2. [k \in 1..n |-> f[s[k]]] \in Seq(Seq(A))
    BY <2>1
  <2>. QED  BY <2>2
<1>4. Len(q) = n /\ \A k \in 1..n : q[k] = f[s[k]]
  BY <1>3
<1>5. PICK u \in Seq(A) : u = f[e]
  BY <1>0
<1>6. [k \in 1..(n + 1) |-> f[Append(s, e)[k]]] = Append(q, u)
  <2>1. Append(s, e)[n + 1] = e /\ \A k \in 1..n : Append(s, e)[k] = s[k]
    BY <1>1
  <2>2. Append(q, u) = [k \in 1..(n + 1) |-> IF k = n + 1 THEN u ELSE q[k]]
    <3>1. /\ Append(q, u) \in Seq(Seq(A)) /\ Len(Append(q, u)) = n + 1
          /\ Append(q, u)[n + 1] = u /\ \A k \in 1..n : Append(q, u)[k] = q[k]
      BY <1>4
    <3>2. Append(q, u) = [k \in 1..(n + 1) |-> Append(q, u)[k]]
      <4>1. PICK z \in Seq(Seq(A)) : z = Append(q, u) /\ Len(z) = n + 1
        BY <3>1
      <4>2. z = [k \in 1..Len(z) |-> z[k]]
        OBVIOUS
      <4>. QED  BY <4>1, <4>2
    <3>3. ASSUME NEW k \in 1..(n + 1)
          PROVE  Append(q, u)[k] = IF k = n + 1 THEN u ELSE q[k]
      <4>1. k # n + 1 => k \in 1..n
        OBVIOUS
      <4>. QED  BY <3>1, <4>1
    <3>. QED  BY <3>2, <3>3
  <2>3. ASSUME NEW k \in 1..(n + 1)
        PROVE  f[Append(s, e)[k]] = IF k = n + 1 THEN u ELSE q[k]
    <3>1. CASE k = n + 1
      BY <1>5, <2>1, <3>1
    <3>2. CASE k # n + 1
      <4>1. k \in 1..n
        BY <3>2
      <4>. QED  BY <1>4, <2>1, <3>2, <4>1
    <3>. QED  BY <3>1, <3>2
  <2>. QED  BY <2>2, <2>3
<1>7. FlattenSeq(q) \in Seq(A) /\ FlattenSeq(Append(q, u)) = FlattenSeq(q) \o u
  BY FlattenNext
<1>. QED  BY <1>2, <1>3, <1>5, <1>6, <1>7 DEF Gather, Grows

\* Of no elements, nothing.
LEMMA GatherNothing ==
  ASSUME NEW f
  PROVE  Gather(f, <<>>) = <<>>
<1>1. [k \in DOMAIN <<>> |-> f[<<>>[k]]] = <<>>
  OBVIOUS
<1>. QED  BY <1>1, FlattenNothing DEF Gather

-----------------------------------------------------------------------------
(* Who reads the events *)

\* What ids and contents are made of, items, and events.
Marks == {"text", "call"} \cup Nat
ItemSet == [id : Seq(Marks), content : Seq(Nat)]
Parts == [type : {"added", "delta", "done"}, id : Seq(Marks), content : Seq(Nat)]
Events == Parts \cup [type : {"completed"}, id : {<<>>}, content : Seq(ItemSet)]

\* Before the first event.
Unread == [open |-> {}, done |-> <<>>]

\* The reader reads the events one by one.
LEMMA ReadingIs ==
  ASSUME NEW s \in Seq(Events)
  PROVE  /\ Reading(s)[0] = Unread
         /\ \A k \in 1..Len(s) : Reading(s)[k] = Read(Reading(s)[k - 1], s[k])
<1>1. PICK n \in Nat : n = Len(s)
  OBVIOUS
<1> DEFINE Upto(f, m) == f = [k \in 0..m |-> IF k = 0 THEN Unread ELSE Read(f[k - 1], s[k])]
           S == {m \in Nat : \E f : Upto(f, m)}
<1>2. 0 \in S
  <2> DEFINE f == [k \in 0..0 |-> Unread]
  <2>1. Upto(f, 0)
    OBVIOUS
  <2> HIDE DEF f, Upto
  <2>. QED  BY <2>1
<1>3. ASSUME NEW m \in Nat, m \in S
      PROVE  m + 1 \in S
  <2>1. PICK f : Upto(f, m)
    BY <1>3
  <2> DEFINE g == [k \in 0..(m + 1) |-> IF k = m + 1 THEN Read(f[m], s[m + 1]) ELSE f[k]]
  <2>2. ASSUME NEW k \in 0..(m + 1)
        PROVE  g[k] = IF k = 0 THEN Unread ELSE Read(g[k - 1], s[k])
    <3>1. CASE k = m + 1
      <4>1. k # 0 /\ k - 1 = m /\ m \in 0..(m + 1) /\ m # m + 1
        BY <3>1
      <4>. QED  BY <3>1, <4>1
    <3>2. CASE k = 0
      <4>1. 0 \in 0..m /\ 0 # m + 1
        OBVIOUS
      <4>2. f[0] = Unread
        BY <2>1, <4>1
      <4>. QED  BY <3>2, <4>1, <4>2
    <3>3. CASE k # 0 /\ k # m + 1
      <4>1. k \in 0..m /\ k - 1 \in 0..(m + 1) /\ k - 1 # m + 1
        BY <3>3
      <4>2. f[k] = Read(f[k - 1], s[k])
        BY <2>1, <3>3, <4>1
      <4>. QED  BY <3>3, <4>1, <4>2
    <3>. QED  BY <3>1, <3>2, <3>3
  <2>3. Upto(g, m + 1)
    BY <2>2
  <2> HIDE DEF g, Upto
  <2>. QED  BY <2>3
<1>4. \A m \in Nat : m \in S => m + 1 \in S
  BY <1>3
<1> HIDE DEF S
<1>5. n \in S
  BY <1>1, <1>2, <1>4, Induction
<1>6. \E f : Upto(f, n)
  BY <1>5 DEF S
<1>7. Reading(s) = CHOOSE f : Upto(f, n)
  BY <1>1 DEF Reading, Unread
<1>8. Upto(Reading(s), n)
  <2> HIDE DEF Upto
  <2>. QED  BY <1>6, <1>7
<1>9. 0 \in 0..n /\ \A k \in 1..n : k \in 0..n /\ k # 0
  BY <1>1
<1>. QED  BY <1>1, <1>8, <1>9

\* One event more is one reading more.
LEMMA ReadingNext ==
  ASSUME NEW s \in Seq(Events), NEW e \in Events
  PROVE  /\ \A k \in 0..Len(s) : Reading(Append(s, e))[k] = Reading(s)[k]
         /\ Reading(Append(s, e))[Len(s) + 1] = Read(Reading(s)[Len(s)], e)
<1>1. PICK n \in Nat : n = Len(s)
  OBVIOUS
<1>2. PICK z \in Seq(Events) : z = Append(s, e)
  <2>1. Append(s, e) \in Seq(Events)
    OBVIOUS
  <2>. QED  BY <2>1
<1>3. Len(z) = n + 1 /\ z[n + 1] = e /\ \A k \in 1..n : z[k] = s[k]
  BY <1>1, <1>2
<1>4. /\ Reading(s)[0] = Unread /\ Reading(z)[0] = Unread
      /\ \A k \in 1..n : Reading(s)[k] = Read(Reading(s)[k - 1], s[k])
      /\ \A k \in 1..(n + 1) : Reading(z)[k] = Read(Reading(z)[k - 1], z[k])
  BY <1>1, <1>3, ReadingIs
<1> DEFINE S == {k \in Nat : k <= n => Reading(z)[k] = Reading(s)[k]}
<1>5. 0 \in S
  BY <1>4
<1>6. ASSUME NEW k \in Nat, k \in S
      PROVE  k + 1 \in S
  <2> SUFFICES ASSUME k + 1 <= n
               PROVE  Reading(z)[k + 1] = Reading(s)[k + 1]
    OBVIOUS
  <2>1. /\ k + 1 \in 1..n /\ k + 1 \in 1..(n + 1) /\ (k + 1) - 1 = k
        /\ Reading(z)[k] = Reading(s)[k]
    BY <1>6
  <2>. QED  BY <1>3, <1>4, <2>1
<1>7. \A k \in Nat : k \in S => k + 1 \in S
  BY <1>6
<1> HIDE DEF S
<1>8. Nat \subseteq S
  BY <1>5, <1>7, Induction, Zenon
<1>9. \A k \in 0..n : Reading(z)[k] = Reading(s)[k]
  <2>1. \A k \in 0..n : k \in Nat /\ k <= n
    BY <1>1
  <2>. QED  BY <1>8, <2>1 DEF S
<1>10. Reading(z)[n + 1] = Read(Reading(s)[n], e)
  <2>1. n + 1 \in 1..(n + 1) /\ (n + 1) - 1 = n /\ n \in 0..n
    BY <1>1
  <2>. QED  BY <1>3, <1>4, <1>9, <2>1
<1>. QED  BY <1>1, <1>2, <1>9, <1>10

\* WellFormed, of any events.
Shape(events) ==
  LET r == Reading(events) IN
  \A k \in DOMAIN events :
    Follows(r[k - 1], events[k]) /\ (events[k].type = "completed" => k = Len(events))

\* The ids announced are in K, and those announced twice in B.
Announced(s, B, K) ==
  /\ \A k \in DOMAIN s : s[k].type = "added" => s[k].id \in K
  /\ \A k, l \in DOMAIN s :
       k < l /\ s[k].type = "added" /\ s[l].type = "added" /\ s[k].id = s[l].id => s[k].id \in B

\* One who has read the events has what is open, and what is done.
Good(s, open, done, B, K) ==
  /\ s \in Seq(Events) /\ Shape(s) /\ \A k \in DOMAIN s : s[k].type # "completed"
  /\ Reading(s)[Len(s)] = [open |-> open, done |-> done]
  /\ Announced(s, B, K)

\* What follows keeps the shape.
LEMMA ShapeNext ==
  ASSUME NEW s, NEW open, NEW done, NEW B, NEW K, Good(s, open, done, B, K), NEW e \in Events,
         Follows([open |-> open, done |-> done], e)
  PROVE  Shape(Append(s, e))
<1>1. s \in Seq(Events)
  BY DEF Good
<1>2. PICK n \in Nat : n = Len(s)
  BY <1>1
<1>3. PICK z \in Seq(Events) : z = Append(s, e)
  <2>1. Append(s, e) \in Seq(Events)
    BY <1>1
  <2>. QED  BY <2>1
<1>4. /\ DOMAIN s = 1..n /\ DOMAIN z = 1..(n + 1) /\ z[n + 1] = e /\ Len(z) = n + 1
      /\ \A k \in 1..n : z[k] = s[k]
  BY <1>1, <1>2, <1>3
<1>5. \A k \in 0..n : Reading(z)[k] = Reading(s)[k]
  BY <1>1, <1>2, <1>3, ReadingNext
<1>6. ASSUME NEW k \in 1..n
      PROVE  Follows(Reading(z)[k - 1], z[k]) /\ z[k].type # "completed"
  <2>1. k - 1 \in 0..n /\ k \in DOMAIN s
    BY <1>2, <1>4
  <2>2. Follows(Reading(s)[k - 1], s[k]) /\ s[k].type # "completed"
    BY <2>1 DEF Good, Shape
  <2>. QED  BY <1>4, <1>5, <2>1, <2>2
<1>7. Follows(Reading(z)[(n + 1) - 1], z[n + 1])
  <2>1. (n + 1) - 1 = n /\ n \in 0..n
    BY <1>2
  <2>2. Reading(s)[n] = [open |-> open, done |-> done]
    BY <1>2 DEF Good
  <2>. QED  BY <1>4, <1>5, <2>1, <2>2
<1>8. \A k \in 1..(n + 1) : k \in 1..n \/ k = n + 1
  BY <1>2
<1>9. Shape(z)
  BY <1>4, <1>6, <1>7, <1>8 DEF Shape
<1>. QED  BY <1>3, <1>9

\* One event more that follows.
LEMMA More ==
  ASSUME NEW s, NEW open, NEW done, NEW B, NEW K, Good(s, open, done, B, K), NEW e \in Parts,
         Follows([open |-> open, done |-> done], e),
         e.type = "added" /\ e.id \in K => e.id \in B,
         NEW open2, NEW done2,
         Read([open |-> open, done |-> done], e) = [open |-> open2, done |-> done2]
  PROVE  Good(Append(s, e), open2, done2, B, IF e.type = "added" THEN K \cup {e.id} ELSE K)
<1> DEFINE L == IF e.type = "added" THEN K \cup {e.id} ELSE K
<1>1. s \in Seq(Events) /\ e \in Events
  BY DEF Good, Events
<1>2. PICK n \in Nat : n = Len(s)
  BY <1>1
<1>3. PICK z \in Seq(Events) : z = Append(s, e)
  <2>1. Append(s, e) \in Seq(Events)
    BY <1>1
  <2>. QED  BY <2>1
<1>4. /\ DOMAIN s = 1..n /\ DOMAIN z = 1..(n + 1) /\ z[n + 1] = e /\ Len(z) = n + 1
      /\ \A k \in 1..n : z[k] = s[k]
  BY <1>1, <1>2, <1>3
<1>5. \A k \in 1..(n + 1) : k \in 1..n \/ k = n + 1
  BY <1>2
<1>6. Shape(z)
  BY <1>1, <1>3, ShapeNext
<1>7. \A k \in DOMAIN z : z[k].type # "completed"
  <2>1. e.type # "completed"
    BY DEF Parts
  <2>2. \A k \in 1..n : s[k].type # "completed"
    BY <1>4 DEF Good
  <2>. QED  BY <1>4, <1>5, <2>1, <2>2
<1>8. Reading(z)[Len(z)] = [open |-> open2, done |-> done2]
  <2>1. Reading(s)[n] = [open |-> open, done |-> done]
    BY <1>2 DEF Good
  <2>. QED  BY <1>1, <1>2, <1>3, <1>4, <2>1, ReadingNext
<1>9. \A k \in 1..n : s[k].type = "added" => s[k].id \in K
  BY <1>4 DEF Good, Announced
<1>10. \A k, l \in 1..n :
         k < l /\ s[k].type = "added" /\ s[l].type = "added" /\ s[k].id = s[l].id => s[k].id \in B
  BY <1>4 DEF Good, Announced
<1>11. \A k \in DOMAIN z : z[k].type = "added" => z[k].id \in L
  BY <1>4, <1>5, <1>9
<1>12. ASSUME NEW k \in DOMAIN z, NEW l \in DOMAIN z, k < l, z[k].type = "added", z[l].type = "added",
              z[k].id = z[l].id
       PROVE  z[k].id \in B
  <2>1. k \in 1..n
    BY <1>2, <1>4, <1>12
  <2>2. CASE l \in 1..n
    BY <1>4, <1>10, <1>12, <2>1, <2>2
  <2>3. CASE l = n + 1
    BY <1>4, <1>9, <1>12, <2>1, <2>3
  <2>. QED  BY <1>4, <1>5, <2>2, <2>3
<1>13. Announced(z, B, L)
  BY <1>11, <1>12 DEF Announced
<1> HIDE DEF L
<1>14. Good(z, open2, done2, B, L)
  BY <1>6, <1>7, <1>8, <1>13 DEF Good
<1>. QED  BY <1>3, <1>14 DEF L

\* More ids may be known.
LEMMA Wider ==
  ASSUME NEW s, NEW open, NEW done, NEW B, NEW K, Good(s, open, done, B, K),
         NEW B2, NEW K2, B \subseteq B2, K \subseteq K2
  PROVE  Good(s, open, done, B2, K2)
BY DEF Good, Announced

\* No events are in order.
LEMMA GoodNothing ==
  ASSUME NEW B, NEW K
  PROVE  Good(<<>>, {}, <<>>, B, K)
<1>1. PICK s \in Seq(Events) : s = <<>> /\ DOMAIN s = {} /\ Len(s) = 0
  <2>1. <<>> \in Seq(Events) /\ DOMAIN <<>> = {} /\ Len(<<>>) = 0
    OBVIOUS
  <2>. QED  BY <2>1
<1>2. Reading(s)[Len(s)] = [open |-> {}, done |-> <<>>]
  BY <1>1, ReadingIs DEF Unread
<1>3. Good(s, {}, <<>>, B, K)
  BY <1>1, <1>2 DEF Good, Shape, Announced
<1>. QED  BY <1>1, <1>3

\* The two items that may be open.
Both(a, b) == {a, b} \ {NoItem}
Apart(a, b) == b # NoItem => b.id # a.id

\* An item is announced: it is open, and empty.
LEMMA Announce ==
  ASSUME NEW a \in ItemSet, a # NoItem, a.content = <<>>, NEW b \in ItemSet, Apart(a, b),
         NEW s, NEW done, NEW B, NEW K, Good(s, Both(NoItem, b), done, B, K), a.id \in K => a.id \in B
  PROVE  Good(Append(s, Event("added", a)), Both(a, b), done, B, K \cup {a.id})
<1> DEFINE e == Event("added", a)
           r == [open |-> Both(NoItem, b), done |-> done]
<1>1. e \in Parts /\ e.type = "added" /\ e.id = a.id
  BY DEF Event, Parts, ItemSet
<1>2. [id |-> e.id, content |-> <<>>] = a
  BY <1>1 DEF ItemSet
<1> HIDE DEF e
<1>3. Follows(r, e)
  BY <1>1 DEF Follows, Both, Apart
<1>4. Read(r, e) = [open |-> Both(a, b), done |-> done]
  <2>1. Read(r, e) = [open |-> Both(NoItem, b) \cup {a}, done |-> done]
    BY <1>1, <1>2 DEF Read
  <2>2. Both(NoItem, b) \cup {a} = Both(a, b)
    BY DEF Both
  <2>. QED  BY <2>1, <2>2
<1>5. Good(Append(s, e), Both(a, b), done, B, IF e.type = "added" THEN K \cup {e.id} ELSE K)
  BY <1>1, <1>3, <1>4, More
<1>. QED  BY <1>1, <1>5 DEF e

\* It is told a piece: it has it behind the others.
LEMMA Tell ==
  ASSUME NEW a \in ItemSet, a # NoItem, NEW b \in ItemSet, Apart(a, b), NEW piece \in Nat,
         NEW s, NEW done, NEW B, NEW K, Good(s, Both(a, b), done, B, K)
  PROVE  Good(Append(s, Event("delta", [a EXCEPT !.content = <<piece>>])),
              Both([a EXCEPT !.content = Append(@, piece)], b), done, B, K)
<1> DEFINE e == Event("delta", [a EXCEPT !.content = <<piece>>])
           r == [open |-> Both(a, b), done |-> done]
           more == [a EXCEPT !.content = Append(@, piece)]
           Told(item) == IF item.id = e.id THEN [item EXCEPT !.content = @ \o e.content] ELSE item
<1>1. e \in Parts /\ e.type = "delta" /\ e.id = a.id /\ e.content = <<piece>>
  <2>1. <<piece>> \in Seq(Nat)
    OBVIOUS
  <2>. QED  BY <2>1 DEF Event, Parts, ItemSet
<1>2. more # NoItem /\ more = [a EXCEPT !.content = a.content \o <<piece>>]
  <2>1. Append(a.content, piece) # <<>> /\ Append(a.content, piece) = a.content \o <<piece>>
    <3>1. PICK q \in Seq(Nat) : q = a.content
      BY DEF ItemSet
    <3>2. Append(q, piece) # <<>>
      <4>1. Len(Append(q, piece)) = Len(q) + 1 /\ Len(q) \in Nat
        OBVIOUS
      <4>2. Append(q, piece) = <<>> => Len(Append(q, piece)) = 0
        OBVIOUS
      <4>. QED  BY <4>1, <4>2
    <3>3. Append(q, piece) = q \o <<piece>>
      OBVIOUS
    <3>. QED  BY <3>1, <3>2, <3>3
  <2>2. more.content = Append(a.content, piece)
    BY DEF ItemSet
  <2>. QED  BY <2>1, <2>2 DEF NoItem
<1> HIDE DEF e
<1>3. Follows(r, e)
  <2>1. a \in r.open
    BY DEF Both
  <2>. QED  BY <1>1, <2>1 DEF Follows
<1>4. Told(a) = more /\ (b # NoItem => Told(b) = b)
  BY <1>1, <1>2 DEF Apart
<1>5. Read(r, e) = [open |-> Both(more, b), done |-> done]
  <2>1. Read(r, e) = [open |-> {Told(item) : item \in Both(a, b)}, done |-> done]
    BY <1>1 DEF Read
  <2> HIDE DEF Told, more
  <2>2. {Told(item) : item \in Both(a, b)} = Both(more, b)
    BY <1>2, <1>4 DEF Both
  <2>. QED  BY <2>1, <2>2
<1> HIDE DEF more
<1>6. Good(Append(s, e), Both(more, b), done, B, IF e.type = "added" THEN K \cup {e.id} ELSE K)
  BY <1>1, <1>3, <1>5, More
<1>. QED  BY <1>1, <1>6 DEF e, more

\* It is done, with what it has.
LEMMA Finish ==
  ASSUME NEW a \in ItemSet, a # NoItem, NEW b \in ItemSet, Apart(a, b),
         NEW s, NEW done, NEW B, NEW K, Good(s, Both(a, b), done, B, K)
  PROVE  Good(Append(s, Event("done", a)), Both(NoItem, b), Append(done, a), B, K)
<1> DEFINE e == Event("done", a)
           r == [open |-> Both(a, b), done |-> done]
<1>1. e \in Parts /\ e.type = "done" /\ e.id = a.id
  BY DEF Event, Parts, ItemSet
<1>2. [id |-> e.id, content |-> e.content] = a
  BY DEF Event, ItemSet
<1> HIDE DEF e
<1>3. Follows(r, e)
  <2>1. a \in r.open
    BY DEF Both
  <2>. QED  BY <1>1, <1>2, <2>1 DEF Follows
<1>4. Read(r, e) = [open |-> Both(NoItem, b), done |-> Append(done, a)]
  <2>1. Read(r, e) = [open |-> {item \in Both(a, b) : item.id # a.id}, done |-> Append(done, a)]
    BY <1>1, <1>2 DEF Read
  <2>2. {item \in Both(a, b) : item.id # a.id} = Both(NoItem, b)
    BY DEF Both, Apart
  <2>. QED  BY <2>1, <2>2
<1>5. Good(Append(s, e), Both(NoItem, b), Append(done, a), B, IF e.type = "added" THEN K \cup {e.id} ELSE K)
  BY <1>1, <1>3, <1>4, More
<1>. QED  BY <1>1, <1>5 DEF e

-----------------------------------------------------------------------------
(* The steps of a stream *)

\* Two ways to put one element more.
LEMMA Appending ==
  ASSUME NEW S, NEW s \in Seq(S), NEW q \in Seq(S), NEW a \in S
  PROVE  /\ s \o <<a>> = Append(s, a) /\ s \o <<>> = s /\ <<>> \o s = s
         /\ s \o (q \o <<a>>) = Append(s \o q, a)
OBVIOUS

Chunks == [call : Nat, named : BOOLEAN, piece : Nat]
CallId(c) == <<"call", turn, c>>
TextId == <<"text", turn>>

\* The ids of the calls that came back.
Back == {CallId(c) : c \in {b \in Calls : ComesBack(b)}}

\* A call was named, and is open or was followed by another one.
Had(c) ==
  \E i \in DOMAIN chunks :
    /\ chunks[i].named /\ chunks[i].call = c /\ callItem # NoItem
    /\ \/ callItem.id = CallId(c)
       \/ \E j \in DOMAIN chunks : i < j /\ chunks[j].named /\ chunks[j].call # c

\* The ids that may have been announced.
Seen == {id \in {TextId} : textItem # NoItem} \cup {CallId(c) : c \in {b \in Calls : Had(b)}}

\* One who has read the events has the two open items, and those that are done.
Streaming ==
  /\ textItem \in ItemSet /\ (textItem # NoItem => textItem.id = TextId)
  /\ callItem \in ItemSet /\ (callItem # NoItem => \E c \in Calls : callItem.id = CallId(c))
  /\ items \in Seq(ItemSet)
  /\ Good(sent, Both(textItem, callItem), items, Back, Seen)

\* What is good makes a faithful stream.
Framed == WellFormed /\ AnnouncedOnce
LEMMA StreamingIsFramed == Streaming' => Framed'
<1> SUFFICES ASSUME Streaming' PROVE Framed'
  OBVIOUS
<1>1. Shape(sent') /\ Announced(sent', Back', Seen')
  BY DEF Streaming, Good
<1>2. WellFormed'
  BY <1>1 DEF Shape, WellFormed
<1>3. ASSUME NEW k \in DOMAIN sent', NEW l \in DOMAIN sent', k < l,
             sent'[k].type = "added", sent'[l].type = "added", sent'[k].id = sent'[l].id
      PROVE  \E call \in Calls : sent'[k].id = <<"call", turn', call>> /\ ComesBack(call)'
  <2>1. sent'[k].id \in Back'
    BY <1>1, <1>3 DEF Announced
  <2>. QED  BY <2>1 DEF Back, CallId
<1>4. AnnouncedOnce'
  BY <1>3 DEF AnnouncedOnce
<1>. QED  BY <1>2, <1>4 DEF Framed

\* Nothing that the stream is made of changes.
LEMMA StreamingStays ==
  ASSUME Streaming, sent' = sent, chunks' = chunks, turn' = turn, textItem' = textItem,
         callItem' = callItem, items' = items
  PROVE  Streaming'
<1>1. Back' = Back /\ Seen' = Seen /\ TextId' = TextId /\ \A c : CallId(c)' = CallId(c)
  BY DEF Back, Seen, TextId, CallId, ComesBack, Had
<1>. QED  BY <1>1 DEF Streaming

\* It is so as long as nothing is sent.
LEMMA NothingSent == (sent = <<>> => Framed) /\ (sent' = <<>> => Framed')
BY DEF Framed, WellFormed, AnnouncedOnce

LEMMA FramedStays ==
  ASSUME Framed, sent' = sent, chunks' = chunks, turn' = turn
  PROVE  Framed'
BY DEF Framed, WellFormed, AnnouncedOnce, ComesBack

\* Ids of different items differ.
LEMMA IdsDiffer ==
  /\ TextId # <<>> /\ \A c : CallId(c) # <<>> /\ CallId(c) # TextId
  /\ \A b, c : CallId(b) = CallId(c) => b = c
<1>1. TextId # <<>> /\ \A c : CallId(c) # <<>>
  BY DEF TextId, CallId
<1>2. TextId[1] = "text" /\ \A c : CallId(c)[1] = "call" /\ CallId(c)[3] = c
  BY DEF TextId, CallId
<1>. QED  BY <1>1, <1>2

\* A chunk more.
LEMMA BackGrows ==
  ASSUME chunks \in Seq(Chunks), NEW d \in Chunks, chunks' = Append(chunks, d), turn' = turn
  PROVE  Back \subseteq Back'
<1>1. PICK n \in Nat : n = Len(chunks)
  OBVIOUS
<1>2. /\ DOMAIN chunks = 1..n /\ DOMAIN chunks' = 1..(n + 1)
      /\ \A k \in 1..n : chunks'[k] = chunks[k] /\ k \in 1..(n + 1)
  BY <1>1
<1>3. ASSUME NEW c, ComesBack(c)
      PROVE  ComesBack(c)'
  <2>1. PICK i \in 1..n, j \in 1..n, k \in 1..n :
          /\ i < j /\ j < k /\ chunks[i].named /\ chunks[j].named /\ chunks[k].named
          /\ chunks[i].call = c /\ chunks[j].call # c /\ chunks[k].call = c
    BY <1>2, <1>3 DEF ComesBack
  <2>. QED  BY <1>2, <2>1 DEF ComesBack
<1>. QED  BY <1>3 DEF Back, CallId

\* While no call is opened.
LEMMA SeenGrows ==
  ASSUME chunks \in Seq(Chunks), NEW d \in Chunks, chunks' = Append(chunks, d), turn' = turn,
         textItem # NoItem => textItem' # NoItem,
         callItem # NoItem => callItem' # NoItem /\ callItem'.id = callItem.id
  PROVE  Seen \subseteq Seen'
<1>1. PICK n \in Nat : n = Len(chunks)
  OBVIOUS
<1>2. /\ DOMAIN chunks = 1..n /\ DOMAIN chunks' = 1..(n + 1)
      /\ \A k \in 1..n : chunks'[k] = chunks[k] /\ k \in 1..(n + 1)
  BY <1>1
<1>3. ASSUME NEW c, Had(c)
      PROVE  Had(c)'
  <2>1. PICK i \in 1..n :
          /\ chunks[i].named /\ chunks[i].call = c /\ callItem # NoItem
          /\ \/ callItem.id = CallId(c)
             \/ \E j \in 1..n : i < j /\ chunks[j].named /\ chunks[j].call # c
    BY <1>2, <1>3 DEF Had
  <2>2. chunks'[i].named /\ chunks'[i].call = c /\ i \in DOMAIN chunks'
    BY <1>2, <2>1
  <2>3. CASE callItem.id = CallId(c)
    BY <2>1, <2>2, <2>3 DEF Had, CallId
  <2>4. ASSUME NEW j \in 1..n, i < j, chunks[j].named, chunks[j].call # c
        PROVE  Had(c)'
    <3>1. j \in DOMAIN chunks' /\ chunks'[j].named /\ chunks'[j].call # c
      BY <1>2, <2>4
    <3>. QED  BY <2>1, <2>2, <2>4, <3>1 DEF Had
  <2>. QED  BY <2>1, <2>3, <2>4
<1>4. {id \in {TextId} : textItem # NoItem} \subseteq {id \in {TextId} : textItem # NoItem}'
  BY DEF TextId
<1>. QED  BY <1>3, <1>4 DEF Seen, CallId

\* A delta of the text leaves the text open.
LEMMA TextStep ==
  ASSUME Streaming, chunks \in Seq(Chunks), NEW d \in Chunks, chunks' = Append(chunks, d),
         turn \in Nat, turn' = turn, NEW piece \in Nat, Text(piece)
  PROVE  Streaming'
<1> DEFINE item == IF textItem = NoItem THEN [id |-> <<"text", turn>>, content |-> <<>>] ELSE textItem
           s1 == IF textItem = NoItem THEN Append(sent, Event("added", item)) ELSE sent
           e == Event("delta", [item EXCEPT !.content = <<piece>>])
           K == Seen \cup {TextId}
<1>1. sent \in Seq(Events) /\ callItem \in ItemSet /\ items \in Seq(ItemSet)
  BY DEF Streaming, Good
<1>2. item \in ItemSet /\ item # NoItem /\ item.id = TextId /\ Apart(item, callItem)
  <2>1. <<"text", turn>> \in Seq(Marks) /\ <<>> \in Seq(Nat)
    <3>1. "text" \in Marks /\ turn \in Marks
      BY DEF Marks
    <3>. QED  BY <3>1
  <2>2. item \in ItemSet /\ item.id = TextId
    BY <2>1 DEF ItemSet, Streaming, TextId
  <2> HIDE DEF item
  <2>. QED  BY <2>2, IdsDiffer DEF NoItem, Streaming, Apart
<1>3. Good(s1, Both(item, callItem), items, Back, K)
  <2>1. CASE textItem = NoItem
    <3>1. item.content = <<>> /\ s1 = Append(sent, Event("added", item))
      BY <2>1
    <3>2. TextId \notin Seen
      BY <2>1, IdsDiffer DEF Seen
    <3>3. Good(sent, Both(NoItem, callItem), items, Back, Seen)
      BY <2>1 DEF Streaming
    <3> HIDE DEF item, s1
    <3>. QED  BY <1>1, <1>2, <3>1, <3>2, <3>3, Announce
  <2>2. CASE textItem # NoItem
    <3>1. s1 = sent /\ item = textItem /\ K = Seen
      BY <2>2 DEF Seen
    <3>. QED  BY <3>1 DEF Streaming
  <2>. QED  BY <2>1, <2>2
<1>4. s1 \in Seq(Events)
  <2> HIDE DEF s1, K, item
  <2>. QED  BY <1>3 DEF Good
<1>5. /\ textItem' = [item EXCEPT !.content = Append(@, piece)] /\ callItem' = callItem /\ items' = items
      /\ sent' = Append(s1, e)
  <2>1. e \in Events
    <3> HIDE DEF item
    <3>1. <<piece>> \in Seq(Nat)
      OBVIOUS
    <3>. QED  BY <1>2, <3>1 DEF Event, Events, Parts, ItemSet
  <2>2. sent' = s1 \o <<e>>
    <3>1. textItem # NoItem => sent \o <<>> = sent
      BY <1>1
    <3>2. textItem = NoItem => sent \o <<Event("added", item)>> = s1
      BY <1>1
    <3>. QED  BY <3>1, <3>2 DEF Text
  <2> HIDE DEF s1, e
  <2>4. sent' = Append(s1, e)
    BY <1>4, <2>1, <2>2
  <2>. QED  BY <2>4 DEF Text
<1> HIDE DEF s1, item
<1>6. Good(sent', Both(textItem', callItem), items, Back, K)
  <2> HIDE DEF K
  <2>. QED  BY <1>1, <1>2, <1>3, <1>5, Tell
<1>7. textItem' \in ItemSet /\ textItem'.id = TextId /\ textItem' # NoItem
  <2>1. Append(item.content, piece) \in Seq(Nat)
    BY <1>2 DEF ItemSet
  <2>2. textItem' = [id |-> item.id, content |-> Append(item.content, piece)]
    BY <1>2, <1>5 DEF ItemSet
  <2>. QED  BY <1>2, <2>1, <2>2, IdsDiffer DEF ItemSet, NoItem
<1>8. Back \subseteq Back'
  BY BackGrows
<1>9. K \subseteq Seen'
  <2>1. Seen \subseteq Seen'
    BY <1>5, <1>7, SeenGrows
  <2>2. TextId' = TextId
    BY DEF TextId
  <2>3. TextId \in Seen'
    BY <1>7, <2>2 DEF Seen
  <2>. QED  BY <2>1, <2>3
<1>10. Good(sent', Both(textItem', callItem), items, Back', Seen')
  <2> HIDE DEF K
  <2>. QED  BY <1>6, <1>8, <1>9, Wider
<1>11. TextId' = TextId /\ \A c : CallId(c)' = CallId(c)
  BY DEF TextId, CallId
<1>12. callItem' # NoItem => \E c \in Calls : callItem'.id = CallId(c)'
  BY <1>5, <1>11 DEF Streaming
<1>. QED  BY <1>1, <1>5, <1>7, <1>10, <1>11, <1>12 DEF Streaming

\* Closing an item, if there is one.
LEMMA Close ==
  ASSUME NEW a \in ItemSet, NEW b \in ItemSet, a # NoItem => Apart(a, b),
         NEW s, NEW done \in Seq(ItemSet), NEW B, NEW K, Good(s, Both(a, b), done, B, K)
  PROVE  /\ Good(s \o DoneEvents(a), Both(NoItem, b), done \o Closed(a), B, K)
         /\ done \o Closed(a) \in Seq(ItemSet) /\ s \o DoneEvents(a) \in Seq(Events)
         /\ DoneEvents(a) \in Seq(Events)
<1>1. s \in Seq(Events)
  BY DEF Good
<1>2. CASE a = NoItem
  BY <1>1, <1>2 DEF DoneEvents, Closed
<1>3. CASE a # NoItem
  <2> DEFINE e == Event("done", a)
  <2>1. e \in Events
    BY DEF Event, Events, Parts, ItemSet
  <2>2. DoneEvents(a) = <<e>> /\ Closed(a) = <<a>>
    BY <1>3 DEF DoneEvents, Closed
  <2>3. Good(Append(s, e), Both(NoItem, b), Append(done, a), B, K)
    BY <1>3, Finish
  <2> HIDE DEF e
  <2>4. s \o DoneEvents(a) = Append(s, e) /\ done \o Closed(a) = Append(done, a)
    BY <1>1, <2>1, <2>2
  <2>5. Append(s, e) \in Seq(Events) /\ Append(done, a) \in Seq(ItemSet) /\ <<e>> \in Seq(Events)
    BY <1>1, <2>1
  <2>. QED  BY <2>2, <2>3, <2>4, <2>5
<1>. QED  BY <1>2, <1>3

\* A delta of a tool call leaves that call open.
LEMMA CallStep ==
  ASSUME Streaming, chunks \in Seq(Chunks), NEW d \in Chunks, d.call \in Calls, chunks' = Append(chunks, d),
         turn \in Nat, turn' = turn, Call(d)
  PROVE  Streaming'
<1> DEFINE id == CallId(d.call)
           opens == Opens(d, id)
           item == IF opens THEN [id |-> id, content |-> <<>>] ELSE callItem
           takes == d.piece # 0 /\ item # NoItem
           s0 == sent \o DoneEvents(callItem)
           added == Event("added", item)
           s1 == IF opens THEN Append(s0, added) ELSE sent
           e == Event("delta", [item EXCEPT !.content = <<d.piece>>])
           K == IF opens THEN Seen \cup {id} ELSE Seen
<1>1. /\ sent \in Seq(Events) /\ callItem \in ItemSet /\ textItem \in ItemSet /\ items \in Seq(ItemSet)
      /\ textItem # NoItem => textItem.id = TextId
      /\ callItem # NoItem => \E c \in Calls : callItem.id = CallId(c)
  BY DEF Streaming, Good
<1>2. /\ callItem' = (IF takes THEN [item EXCEPT !.content = Append(@, d.piece)] ELSE item)
      /\ items' = items \o (IF opens THEN Closed(callItem) ELSE <<>>)
      /\ sent' = sent \o (IF opens THEN DoneEvents(callItem) \o <<added>> ELSE <<>>)
                  \o (IF takes THEN <<e>> ELSE <<>>)
      /\ textItem' = textItem
  BY DEF Call, CallId
<1>3. Both(textItem, callItem) = Both(callItem, textItem)
  BY DEF Both
<1>4. Back \subseteq Back'
  BY BackGrows
<1>5. Good(sent, Both(callItem, textItem), items, Back', Seen)
  <2>1. Good(sent, Both(callItem, textItem), items, Back, Seen)
    BY <1>3 DEF Streaming
  <2>. QED  BY <1>4, <2>1, Wider
<1>6. id # <<>> /\ id # TextId /\ id \in Seq(Marks)
  <2>1. "call" \in Marks /\ turn \in Marks /\ d.call \in Marks
    BY DEF Marks, Chunks
  <2>2. <<"call", turn, d.call>> \in Seq(Marks)
    BY <2>1
  <2>. QED  BY <2>2, IdsDiffer DEF CallId
<1>7. ASSUME opens, id \in Seen
      PROVE  id \in Back'
  <2>1. PICK n \in Nat : n = Len(chunks)
    OBVIOUS
  <2>2. /\ DOMAIN chunks = 1..n /\ DOMAIN chunks' = 1..(n + 1) /\ chunks'[n + 1] = d
        /\ \A k \in 1..n : chunks'[k] = chunks[k] /\ k \in 1..(n + 1) /\ k < n + 1
    BY <2>1
  <2>3. d.named /\ (callItem = NoItem \/ callItem.id # id)
    BY <1>7 DEF Opens
  <2>4. Had(d.call)
    <3>1. PICK c \in Calls : id = CallId(c) /\ Had(c)
      BY <1>6, <1>7 DEF Seen
    <3>. QED  BY <3>1, IdsDiffer
  <2>5. PICK i \in 1..n, j \in 1..n :
          /\ i < j /\ chunks[i].named /\ chunks[i].call = d.call
          /\ chunks[j].named /\ chunks[j].call # d.call
    BY <2>2, <2>3, <2>4 DEF Had
  <2>6. ComesBack(d.call)'
    <3>1. n + 1 \in DOMAIN chunks' /\ i \in DOMAIN chunks' /\ j \in DOMAIN chunks'
      BY <2>1, <2>2
    <3>. QED  BY <2>2, <2>3, <2>5, <3>1 DEF ComesBack
  <2>. QED  BY <2>6 DEF Back, CallId
<1>8. /\ Good(s1, Both(item, textItem), items', Back', K) /\ s1 \in Seq(Events)
      /\ item # NoItem => Apart(item, textItem)
      /\ items' \in Seq(ItemSet) /\ item \in ItemSet
      /\ sent \o (IF opens THEN DoneEvents(callItem) \o <<added>> ELSE <<>>) = s1
      /\ opens => item # NoItem /\ item.id = id
  <2>1. CASE opens
    <3>1. callItem # NoItem => Apart(callItem, textItem)
      BY <1>1, IdsDiffer DEF Apart
    <3>2. /\ Good(s0, Both(NoItem, textItem), items', Back', Seen) /\ items' \in Seq(ItemSet)
          /\ s0 \in Seq(Events) /\ DoneEvents(callItem) \in Seq(Events)
      <4>1. items' = items \o Closed(callItem)
        BY <1>2, <2>1
      <4> HIDE DEF id
      <4>. QED  BY <1>1, <1>5, <3>1, <4>1, Close
    <3>3. item \in ItemSet /\ item.id = id /\ item.content = <<>>
      <4>1. item = [id |-> id, content |-> <<>>]
        BY <2>1
      <4> HIDE DEF id, item
      <4>2. <<>> \in Seq(Nat)
        OBVIOUS
      <4>. QED  BY <1>6, <4>1, <4>2 DEF ItemSet
    <3>4. item # NoItem /\ Apart(item, textItem)
      <4> HIDE DEF id, item
      <4>. QED  BY <1>1, <1>6, <3>3 DEF Apart, NoItem
    <3>5. added \in Events
      <4> HIDE DEF id, item
      <4>. QED  BY <3>3 DEF Event, Events, Parts, ItemSet
    <3>6. sent \o (DoneEvents(callItem) \o <<added>>) = Append(s0, added)
      <4> HIDE DEF added
      <4>. QED  BY <1>1, <3>2, <3>5, Appending
    <3>7. Good(Append(s0, added), Both(item, textItem), items', Back', Seen \cup {id})
      <4>1. id \in Seen => id \in Back'
        BY <1>7, <2>1
      <4> HIDE DEF id, item, s0
      <4>2. Good(Append(s0, Event("added", item)), Both(item, textItem), items', Back', Seen \cup {item.id})
        BY <1>1, <3>2, <3>3, <3>4, <4>1, Announce
      <4>. QED  BY <3>3, <4>2
    <3>8. s1 = Append(s0, added) /\ K = Seen \cup {id}
      BY <2>1
    <3> HIDE DEF s0, added, id, item, opens
    <3>9. s1 \in Seq(Events)
      BY <3>7, <3>8 DEF Good
    <3>. QED  BY <2>1, <3>2, <3>3, <3>4, <3>6, <3>7, <3>8, <3>9
  <2>2. CASE ~opens
    <3>1. s1 = sent /\ item = callItem /\ sent \o <<>> = sent /\ items \o <<>> = items /\ K = Seen
      BY <1>1, <2>2
    <3>2. callItem # NoItem => Apart(callItem, textItem)
      BY <1>1, IdsDiffer DEF Apart
    <3>3. items' = items
      BY <1>2, <2>2, <3>1
    <3> HIDE DEF s1, item, K, opens
    <3>. QED  BY <1>1, <1>5, <2>2, <3>1, <3>2, <3>3
  <2>. QED  BY <2>1, <2>2
<1> HIDE DEF s1, item
<1>9. /\ Good(sent', Both(callItem', textItem), items', Back', K)
      /\ callItem' \in ItemSet
      /\ item # NoItem => callItem' # NoItem /\ callItem'.id = item.id
      /\ item = NoItem => callItem' = NoItem
  <2>1. CASE takes
    <3>1. e \in Events
      <4>1. <<d.piece>> \in Seq(Nat)
        BY DEF Chunks
      <4>. QED  BY <1>8, <4>1 DEF Event, Events, Parts, ItemSet
    <3>2. sent' = Append(s1, e)
      <4>1. sent' = s1 \o <<e>>
        BY <1>2, <1>8, <2>1
      <4> HIDE DEF e
      <4>. QED  BY <1>8, <3>1, <4>1
    <3>3. callItem' = [item EXCEPT !.content = Append(@, d.piece)]
      BY <1>2, <2>1
    <3>4. d.piece \in Nat /\ item # NoItem
      BY <2>1 DEF Chunks
    <3>5. callItem' \in ItemSet /\ callItem'.id = item.id /\ callItem' # NoItem
      <4>1. Append(item.content, d.piece) \in Seq(Nat) /\ Append(item.content, d.piece) # <<>>
        <5>1. PICK q \in Seq(Nat) : q = item.content
          BY <1>8 DEF ItemSet
        <5>2. Append(q, d.piece) \in Seq(Nat) /\ Append(q, d.piece) # <<>>
          BY <3>4
        <5>. QED  BY <5>1, <5>2
      <4>2. callItem' = [id |-> item.id, content |-> Append(item.content, d.piece)]
        BY <1>8, <3>3 DEF ItemSet
      <4>. QED  BY <1>8, <4>1, <4>2 DEF ItemSet, NoItem
    <3> HIDE DEF K
    <3>6. Good(sent', Both(callItem', textItem), items', Back', K)
      BY <1>1, <1>8, <3>2, <3>3, <3>4, Tell
    <3>. QED  BY <3>4, <3>5, <3>6
  <2>2. CASE ~takes
    <3>1. callItem' = item /\ sent' = s1
      <4>1. s1 \o <<>> = s1
        BY <1>8
      <4>. QED  BY <1>2, <1>8, <2>2, <4>1
    <3> HIDE DEF K
    <3>. QED  BY <1>8, <3>1
  <2>. QED  BY <2>1, <2>2
<1>10. K \subseteq Seen'
  <2>1. CASE ~opens
    <3>1. item = callItem /\ K = Seen
      BY <2>1 DEF item
    <3>. QED  BY <1>2, <1>9, <3>1, SeenGrows
  <2>2. CASE opens
    <3>1. PICK n \in Nat : n = Len(chunks)
      OBVIOUS
    <3>2. /\ DOMAIN chunks = 1..n /\ DOMAIN chunks' = 1..(n + 1) /\ chunks'[n + 1] = d
          /\ \A k \in 1..n : chunks'[k] = chunks[k] /\ k \in 1..(n + 1) /\ k < n + 1
      BY <3>1
    <3>3. /\ d.named /\ (callItem = NoItem \/ callItem.id # id)
          /\ callItem' # NoItem /\ callItem'.id = id
      BY <1>8, <1>9, <2>2 DEF Opens
    <3>4. TextId' = TextId /\ \A c : CallId(c)' = CallId(c)
      BY DEF TextId, CallId
    <3>5. n + 1 \in DOMAIN chunks'
      BY <3>1, <3>2
    <3>6. Had(d.call)'
      BY <3>2, <3>3, <3>4, <3>5 DEF Had
    <3>7. ASSUME NEW c, Had(c)
          PROVE  Had(c)'
      <4>1. PICK i \in 1..n :
              /\ chunks[i].named /\ chunks[i].call = c /\ callItem # NoItem
              /\ \/ callItem.id = CallId(c)
                 \/ \E j \in 1..n : i < j /\ chunks[j].named /\ chunks[j].call # c
        BY <3>2, <3>7 DEF Had
      <4>2. chunks'[i].named /\ chunks'[i].call = c /\ i \in DOMAIN chunks' /\ i < n + 1
        BY <3>2, <4>1
      <4>3. CASE callItem.id = CallId(c)
        <5>1. d.call # c
          BY <3>3, <4>1, <4>3
        <5>. QED  BY <3>2, <3>3, <3>5, <4>2, <5>1 DEF Had
      <4>4. ASSUME NEW j \in 1..n, i < j, chunks[j].named, chunks[j].call # c
            PROVE  Had(c)'
        <5>1. j \in DOMAIN chunks' /\ chunks'[j].named /\ chunks'[j].call # c
          BY <3>2, <4>4
        <5>. QED  BY <3>3, <4>2, <4>4, <5>1 DEF Had
      <4>. QED  BY <4>1, <4>3, <4>4
    <3>8. {CallId(c) : c \in {b \in Calls : Had(b)}} \cup {id} \subseteq {CallId(c) : c \in {b \in Calls : Had(b)}}'
      BY <3>4, <3>6, <3>7
    <3>9. {i \in {TextId} : textItem # NoItem}' = {i \in {TextId} : textItem # NoItem}
      BY <1>2, <3>4
    <3>. QED  BY <2>2, <3>8, <3>9 DEF Seen
  <2>. QED  BY <2>1, <2>2
<1>11. Good(sent', Both(textItem', callItem'), items', Back', Seen')
  <2>1. Both(callItem', textItem) = Both(textItem', callItem')
    BY <1>2 DEF Both
  <2> HIDE DEF K
  <2>. QED  BY <1>9, <1>10, <2>1, Wider
<1>12. callItem' # NoItem => \E c \in Calls : callItem'.id = CallId(c)'
  <2>1. \A c : CallId(c)' = CallId(c)
    BY DEF CallId
  <2>2. CASE opens
    BY <1>8, <1>9, <2>1, <2>2
  <2>3. CASE ~opens
    BY <1>1, <1>9, <2>1, <2>3 DEF item
  <2>. QED  BY <2>2, <2>3
<1>13. textItem' # NoItem => textItem'.id = TextId'
  BY <1>1, <1>2 DEF TextId
<1>. QED  BY <1>1, <1>2, <1>8, <1>9, <1>11, <1>12, <1>13 DEF Streaming

\* A line that is passed over leaves all open.
LEMMA SkipStep ==
  ASSUME Streaming, chunks \in Seq(Chunks), turn \in Nat, Skip
  PROVE  Streaming' /\ chunks' \in Seq(Chunks)
<1>1. Blank \in Chunks
  BY DEF Blank, Chunks
<1>2. /\ chunks' = Append(chunks, Blank) /\ turn' = turn /\ textItem' = textItem /\ callItem' = callItem
      /\ items' = items /\ sent' = sent
  BY DEF Skip
<1>3. Back \subseteq Back' /\ Seen \subseteq Seen'
  BY <1>1, <1>2, BackGrows, SeenGrows
<1>4. Good(sent, Both(textItem, callItem), items, Back', Seen')
  BY <1>3, Wider DEF Streaming
<1>5. TextId' = TextId /\ \A c : CallId(c)' = CallId(c)
  BY <1>2 DEF TextId, CallId
<1>6. chunks' \in Seq(Chunks)
  BY <1>1, <1>2
<1>. QED  BY <1>2, <1>4, <1>5, <1>6 DEF Streaming

\* The end of the body closes both, and the response is completed.
LEMMA EndStep ==
  ASSUME Streaming, EndOfStream
  PROVE  Framed'
<1> DEFINE s0 == sent \o DoneEvents(callItem)
           s1 == s0 \o DoneEvents(textItem)
           output == items \o Closed(callItem) \o Closed(textItem)
           c == [type |-> "completed", id |-> <<>>, content |-> output]
<1>1. /\ Good(s0, Both(NoItem, textItem), items \o Closed(callItem), Back, Seen)
      /\ items \o Closed(callItem) \in Seq(ItemSet)
  <2>1. Both(textItem, callItem) = Both(callItem, textItem)
    BY DEF Both
  <2>2. callItem # NoItem => Apart(callItem, textItem)
    BY IdsDiffer DEF Streaming, Apart
  <2>. QED  BY <2>1, <2>2, Close DEF Streaming
<1>2. sent' = s1 \o <<c>> /\ chunks' = chunks /\ turn' = turn
  BY DEF EndOfStream
<1>3. NoItem \in ItemSet
  BY DEF NoItem, ItemSet
<1>4. Good(s1, {}, output, Back, Seen) /\ s1 \in Seq(Events) /\ output \in Seq(ItemSet)
  <2> HIDE DEF s0
  <2>1. Both(NoItem, textItem) = Both(textItem, NoItem) /\ Both(NoItem, NoItem) = {}
    BY DEF Both
  <2>2. Apart(textItem, NoItem) /\ textItem \in ItemSet
    BY DEF Apart, Streaming
  <2>. QED  BY <1>1, <1>3, <2>1, <2>2, Close
<1> HIDE DEF s1, output
<1>5. c \in Events /\ c.type = "completed" /\ c.content = output
  BY <1>4 DEF Events
<1>6. Follows([open |-> {}, done |-> output], c)
  BY <1>5 DEF Follows
<1> HIDE DEF c
<1>7. PICK n \in Nat, z \in Seq(Events) : n = Len(s1) /\ z = Append(s1, c)
  <2>1. Append(s1, c) \in Seq(Events) /\ Len(s1) \in Nat
    BY <1>4, <1>5
  <2>. QED  BY <2>1
<1>8. sent' = z
  BY <1>2, <1>4, <1>5, <1>7
<1>9. Shape(z)
  BY <1>4, <1>5, <1>6, <1>7, ShapeNext
<1>10. WellFormed'
  <2>1. Shape(sent')
    BY <1>8, <1>9
  <2>. QED  BY <2>1 DEF Shape, WellFormed
<1>11. /\ DOMAIN s1 = 1..n /\ DOMAIN z = 1..(n + 1) /\ z[n + 1] = c /\ \A k \in 1..n : z[k] = s1[k]
  BY <1>4, <1>5, <1>7
<1>12. ASSUME NEW k \in DOMAIN z, NEW l \in DOMAIN z, k < l, z[k].type = "added", z[l].type = "added",
              z[k].id = z[l].id
       PROVE  \E call \in Calls : z[k].id = <<"call", turn, call>> /\ ComesBack(call)
  <2>1. k \in 1..n /\ l \in 1..n
    BY <1>5, <1>7, <1>11, <1>12
  <2>2. s1[k].id \in Back
    BY <1>4, <1>11, <1>12, <2>1 DEF Good, Announced
  <2>. QED  BY <1>11, <2>1, <2>2 DEF Back, CallId
<1>13. \A call : ComesBack(call)' <=> ComesBack(call)
  BY <1>2 DEF ComesBack
<1>14. AnnouncedOnce'
  BY <1>2, <1>8, <1>12, <1>13 DEF AnnouncedOnce
<1>. QED  BY <1>10, <1>14 DEF Framed

-----------------------------------------------------------------------------
(* What comes in order *)

\* The calls of the chunks so far, and 0 for the text.
Named == {chunks[k].call : k \in {j \in DOMAIN chunks : chunks[j] # Blank}}

\* Orderly, said of any two or three chunks.
Tidy ==
  /\ \A k \in DOMAIN chunks : chunks[k].call # 0 /\ ~chunks[k].named =>
       \E j \in DOMAIN chunks : j < k /\ chunks[j].call = chunks[k].call
  /\ \A i, j, k \in DOMAIN chunks :
       i < j /\ j < k /\ chunks[i].call = chunks[k].call /\ chunks[i].call # 0 =>
         chunks[j].call \in {0, chunks[i].call}

\* What is orderly is tidy.
LEMMA OrderlyIsTidy ==
  ASSUME chunks \in Seq(Chunks), Orderly
  PROVE  Tidy
<1>1. PICK n \in Nat : n = Len(chunks)
  OBVIOUS
<1>2. DOMAIN chunks = 1..n
  BY <1>1
<1>3. ASSUME NEW c
      PROVE  LET of == {j \in DOMAIN chunks : chunks[j].call = c}
             IN  of # {} => /\ Min(of) \in of /\ \A j \in of : Min(of) <= j
                            /\ Max(of) \in of /\ \A j \in of : j <= Max(of)
  <2> DEFINE of == {j \in DOMAIN chunks : chunks[j].call = c}
  <2> SUFFICES ASSUME of # {}
               PROVE  /\ Min(of) \in of /\ \A j \in of : Min(of) <= j
                      /\ Max(of) \in of /\ \A j \in of : j <= Max(of)
    OBVIOUS
  <2>1. of \subseteq 1..n
    BY <1>2
  <2> HIDE DEF of
  <2>2. \E k \in of : \A j \in of : k <= j
    <3>1. of \in SUBSET Nat
      BY <2>1
    <3>. QED  BY <3>1, Least
  <2>3. \E k \in of : \A j \in of : k >= j
    <3>1. {n - j : j \in of} \in SUBSET Nat /\ {n - j : j \in of} # {}
      BY <1>1, <2>1
    <3>2. PICK m \in {n - j : j \in of} : \A i \in {n - j : j \in of} : m <= i
      <4> DEFINE T == {n - j : j \in of}
      <4> HIDE DEF T
      <4>1. T \in SUBSET Nat /\ T # {}
        BY <3>1 DEF T
      <4>2. \E m \in T : \A i \in T : m <= i
        BY <4>1, Least
      <4>. QED  BY <4>2 DEF T
    <3>3. PICK k \in of : m = n - k
      BY <3>2
    <3>4. ASSUME NEW j \in of
          PROVE  k >= j
      <4>1. n - j \in {n - i : i \in of}
        OBVIOUS
      <4>2. n - k <= n - j
        BY <3>2, <3>3, <4>1
      <4>3. k \in 1..n /\ j \in 1..n
        BY <2>1
      <4>. QED  BY <1>1, <4>2, <4>3
    <3>. QED  BY <3>4
  <2>4. Min(of) \in of /\ \A j \in of : Min(of) <= j
    BY <2>2 DEF Min
  <2>5. Max(of) \in of /\ \A j \in of : Max(of) >= j
    BY <2>3 DEF Max
  <2>. QED  BY <2>1, <2>4, <2>5
<1>4. ASSUME NEW k \in DOMAIN chunks, chunks[k].call # 0, ~chunks[k].named
      PROVE  \E j \in DOMAIN chunks : j < k /\ chunks[j].call = chunks[k].call
  <2> DEFINE of == {j \in DOMAIN chunks : chunks[j].call = chunks[k].call}
  <2>1. k \in of /\ chunks[Min(of)].named
    BY <1>4 DEF Orderly
  <2>2. Min(of) \in of /\ Min(of) <= k
    BY <1>3, <2>1
  <2>3. Min(of) # k
    BY <1>4, <2>1
  <2>. QED  BY <1>2, <2>2, <2>3
<1>5. ASSUME NEW i \in DOMAIN chunks, NEW j \in DOMAIN chunks, NEW k \in DOMAIN chunks,
             i < j, j < k, chunks[i].call = chunks[k].call, chunks[i].call # 0
      PROVE  chunks[j].call \in {0, chunks[i].call}
  <2> DEFINE of == {l \in DOMAIN chunks : chunks[l].call = chunks[i].call}
  <2>1. i \in of /\ k \in of
    BY <1>5
  <2>2. Min(of) <= i /\ k <= Max(of) /\ Min(of) \in of /\ Max(of) \in of
    BY <1>3, <2>1
  <2>3. \A l \in Min(of)..Max(of) : chunks[l].call \in {0, chunks[i].call}
    BY <1>5 DEF Orderly
  <2>4. Min(of) \in 1..n /\ Max(of) \in 1..n
    BY <1>2, <2>2
  <2> HIDE DEF of
  <2>5. j \in Min(of)..Max(of)
    BY <1>2, <1>5, <2>2, <2>4
  <2>. QED  BY <2>3, <2>5
<1>. QED  BY <1>4, <1>5 DEF Tidy

\* One chunk more: what it adds, and what was tidy before.
LEMMA PiecesNext ==
  ASSUME chunks \in Seq(Chunks), NEW d \in Chunks, chunks' = Append(chunks, d), NEW call
  PROVE  /\ Pieces(call) \in Seq(Nat)
         /\ d.call = call /\ d.piece # 0 => Pieces(call)' = Append(Pieces(call), d.piece)
         /\ ~(d.call = call /\ d.piece # 0) => Pieces(call)' = Pieces(call)
<1> DEFINE f == [x \in Chunks |-> IF x.call = call /\ x.piece # 0 THEN <<x.piece>> ELSE <<>>]
<1>1. Gives(f, Chunks, Nat)
  BY DEF Chunks, Gives
<1>2. ASSUME NEW z \in Seq(Chunks)
      PROVE  FlattenSeq([k \in DOMAIN z |->
               IF z[k].call = call /\ z[k].piece # 0 THEN <<z[k].piece>> ELSE <<>>]) = Gather(f, z)
  <2>1. \A k \in DOMAIN z : z[k] \in Chunks
    OBVIOUS
  <2>. QED  BY <2>1 DEF Gather
<1>3. f[d] = IF d.call = call /\ d.piece # 0 THEN <<d.piece>> ELSE <<>>
  OBVIOUS
<1> HIDE DEF f
<1>4. Grows(f, Nat, chunks, d)
  BY <1>1, GatherNext
<1>5. Append(chunks, d) \in Seq(Chunks)
  OBVIOUS
<1>6. Pieces(call) = Gather(f, chunks) /\ Pieces(call)' = Gather(f, Append(chunks, d))
  BY <1>2, <1>5 DEF Pieces
<1>7. Pieces(call) \in Seq(Nat) /\ Pieces(call)' = Pieces(call) \o f[d]
  BY <1>4, <1>6 DEF Grows
<1>8. CASE d.call = call /\ d.piece # 0
  <2>1. Pieces(call)' = Pieces(call) \o <<d.piece>>
    BY <1>3, <1>7, <1>8
  <2>2. d.piece \in Nat
    BY DEF Chunks
  <2>. QED  BY <1>7, <1>8, <2>1, <2>2
<1>9. CASE ~(d.call = call /\ d.piece # 0)
  <2>1. Pieces(call)' = Pieces(call) \o <<>>
    BY <1>3, <1>7, <1>9
  <2>. QED  BY <1>7, <1>9, <2>1
<1>. QED  BY <1>7, <1>8, <1>9

\* The call of the last chunk of a call; 0 before there is one.
Latest(c) ==
  IF c = 0 THEN \A k \in DOMAIN chunks : chunks[k].call = 0
  ELSE \E k \in DOMAIN chunks : chunks[k].call = c
                                 /\ \A j \in DOMAIN chunks : j > k => chunks[j].call = 0

\* What is tidy with one chunk more was so without it.
LEMMA TidyBefore ==
  ASSUME chunks \in Seq(Chunks), NEW d \in Chunks, chunks' = Append(chunks, d), Tidy'
  PROVE  Tidy
<1>1. PICK n \in Nat : n = Len(chunks)
  OBVIOUS
<1>2. Append(chunks, d) \in Seq(Chunks)
  OBVIOUS
<1>3. PICK z \in Seq(Chunks) : z = Append(chunks, d)
  BY <1>2
<1>4. /\ DOMAIN chunks = 1..n /\ DOMAIN z = 1..(n + 1) /\ z[n + 1] = d
      /\ (\A k \in 1..n : z[k] = chunks[k]) /\ chunks' = z
  BY <1>1, <1>3
<1>5. n + 1 \in DOMAIN z /\ \A k \in 1..n : k \in DOMAIN z /\ k < n + 1
  BY <1>1, <1>4
<1>6. \A k \in DOMAIN z : k \in 1..n \/ k = n + 1
  BY <1>1, <1>4
<1>7. \A k \in DOMAIN z : z[k].call # 0 /\ ~z[k].named =>
        \E j \in DOMAIN z : j < k /\ z[j].call = z[k].call
  BY <1>4 DEF Tidy
<1>8. \A i, j, k \in DOMAIN z :
        i < j /\ j < k /\ z[i].call = z[k].call /\ z[i].call # 0 => z[j].call \in {0, z[i].call}
  BY <1>4 DEF Tidy
<1>9. Tidy
  <2>1. ASSUME NEW k \in 1..n, chunks[k].call # 0, ~chunks[k].named
        PROVE  \E j \in 1..n : j < k /\ chunks[j].call = chunks[k].call
    <3>1. PICK j \in DOMAIN z : j < k /\ z[j].call = z[k].call
      BY <1>4, <1>5, <1>7, <2>1
    <3>2. j \in 1..n
      BY <1>1, <1>4, <3>1
    <3>. QED  BY <1>4, <3>1, <3>2
  <2>2. ASSUME NEW i \in 1..n, NEW j \in 1..n, NEW k \in 1..n,
               i < j, j < k, chunks[i].call = chunks[k].call, chunks[i].call # 0
        PROVE  chunks[j].call \in {0, chunks[i].call}
    <3>1. i \in DOMAIN z /\ j \in DOMAIN z /\ k \in DOMAIN z
      BY <1>5
    <3>. QED  BY <1>4, <1>8, <2>2, <3>1
  <2>. QED  BY <1>4, <2>1, <2>2 DEF Tidy
<1>. QED  BY <1>9

\* A tidy chunk is of the latest call, of the text or of a new call.
LEMMA TidyNext ==
  ASSUME chunks \in Seq(Chunks), NEW d \in Chunks, chunks' = Append(chunks, d), Tidy',
         NEW c \in Nat, Latest(c)
  PROVE  /\ Named' = (IF d = Blank THEN Named ELSE Named \cup {d.call}) /\ (c # 0 => c \in Named)
         /\ d.call = 0 => Latest(c)'
         /\ d.call # 0 => Latest(d.call)'
         /\ d.call # 0 /\ d.call \in Named => d.call = c
         /\ d.call # 0 /\ d.call \notin Named => d.named
<1>1. PICK n \in Nat : n = Len(chunks)
  OBVIOUS
<1>2. Append(chunks, d) \in Seq(Chunks)
  OBVIOUS
<1>3. PICK z \in Seq(Chunks) : z = Append(chunks, d)
  BY <1>2
<1>4. /\ DOMAIN chunks = 1..n /\ DOMAIN z = 1..(n + 1) /\ z[n + 1] = d
      /\ (\A k \in 1..n : z[k] = chunks[k]) /\ chunks' = z
  BY <1>1, <1>3
<1>5. n + 1 \in DOMAIN z /\ \A k \in 1..n : k \in DOMAIN z /\ k < n + 1
  BY <1>1, <1>4
<1>6. \A k \in DOMAIN z : k \in 1..n \/ k = n + 1
  BY <1>1, <1>4
<1>7. \A k \in DOMAIN z : z[k].call # 0 /\ ~z[k].named =>
        \E j \in DOMAIN z : j < k /\ z[j].call = z[k].call
  BY <1>4 DEF Tidy
<1>8. \A i, j, k \in DOMAIN z :
        i < j /\ j < k /\ z[i].call = z[k].call /\ z[i].call # 0 => z[j].call \in {0, z[i].call}
  BY <1>4 DEF Tidy
<1>10. Named' = (IF d = Blank THEN Named ELSE Named \cup {d.call})
  <2>1. /\ Named' = {z[k].call : k \in {j \in 1..(n + 1) : z[j] # Blank}}
        /\ Named = {chunks[k].call : k \in {j \in 1..n : chunks[j] # Blank}}
    BY <1>4 DEF Named, Blank
  <2>2. ASSUME NEW k \in 1..(n + 1), z[k] # Blank
        PROVE  z[k].call \in (IF d = Blank THEN Named ELSE Named \cup {d.call})
    BY <1>4, <1>6, <2>1, <2>2
  <2>3. ASSUME NEW k \in 1..n, chunks[k] # Blank
        PROVE  chunks[k].call \in Named'
    BY <1>4, <1>5, <2>1, <2>3
  <2>4. d # Blank => d.call \in Named'
    BY <1>4, <1>5, <2>1
  <2>. QED  BY <2>1, <2>2, <2>3, <2>4
<1>11. c # 0 => c \in Named
  BY DEF Latest, Named, Blank
<1>12. ASSUME d.call = 0
       PROVE  Latest(c)'
  <2>1. CASE c = 0
    BY <1>4, <1>6, <1>12, <2>1 DEF Latest
  <2>2. CASE c # 0
    <3>1. PICK k \in 1..n : chunks[k].call = c /\ \A j \in 1..n : j > k => chunks[j].call = 0
      BY <1>4, <2>2 DEF Latest
    <3>2. k \in DOMAIN z /\ z[k].call = c /\ \A j \in DOMAIN z : j > k => z[j].call = 0
      BY <1>4, <1>5, <1>6, <1>12, <3>1
    <3>. QED  BY <1>4, <2>2, <3>2 DEF Latest
  <2>. QED  BY <2>1, <2>2
<1>13. ASSUME d.call # 0
       PROVE  Latest(d.call)'
  <2>1. \A j \in DOMAIN z : ~(j > n + 1)
    BY <1>1, <1>4
  <2>. QED  BY <1>4, <1>5, <1>13, <2>1 DEF Latest
<1>14. ASSUME d.call # 0, d.call \in Named
       PROVE  d.call = c
  <2>1. PICK i \in 1..n : chunks[i].call = d.call
    BY <1>4, <1>14 DEF Named
  <2>2. c # 0
    BY <1>4, <1>14, <2>1 DEF Latest
  <2>3. PICK k \in 1..n : chunks[k].call = c /\ \A j \in 1..n : j > k => chunks[j].call = 0
    BY <1>4, <2>2 DEF Latest
  <2>4. ~(i > k)
    BY <1>14, <2>1, <2>3
  <2>5. CASE i = k
    BY <2>1, <2>3, <2>5
  <2>6. CASE i < k
    <3>1. z[k].call \in {0, z[i].call}
      BY <1>4, <1>5, <1>8, <1>14, <2>1, <2>6
    <3>. QED  BY <1>4, <2>1, <2>2, <2>3, <3>1
  <2>. QED  BY <2>4, <2>5, <2>6
<1>15. ASSUME d.call # 0, d.call \notin Named
       PROVE  d.named
  <2>1. \A j \in DOMAIN z : j < n + 1 => z[j].call # d.call
    BY <1>1, <1>4, <1>6, <1>15 DEF Named, Blank
  <2>. QED  BY <1>4, <1>5, <1>7, <1>15, <2>1
<1>. QED  BY <1>10, <1>11, <1>12, <1>13, <1>14, <1>15

\* The items that are done are those of the calls but c.
Filed(c) ==
  /\ \A k \in DOMAIN items : \E b \in Named \ {0, c} :
       items[k].id = <<"call", turn, b>> /\ items[k].content = Pieces(b)
  /\ \A b \in Named \ {0, c} : \E k \in DOMAIN items : items[k].id = <<"call", turn, b>>
  /\ Cardinality(Named \ {0, c}) = Len(items)

\* The open call is the latest one.
Current(c) ==
  /\ Latest(c)
  /\ c = 0 => callItem = NoItem
  /\ c # 0 => callItem # NoItem /\ callItem.id = <<"call", turn, c>> /\ callItem.content = Pieces(c)

\* The open text has the pieces of the text.
Texted ==
  /\ 0 \in Named => /\ textItem # NoItem /\ textItem.id = <<"text", turn>>
                    /\ textItem.content = Pieces(0)
  /\ 0 \notin Named => textItem = NoItem

\* What is not named has no pieces.
Unnamed == IsFiniteSet(Named) /\ \A b \in Nat \ Named : Pieces(b) = <<>>

\* The items and the chunks fit.
Fits == Unnamed /\ Texted /\ \E c \in Nat : Current(c) /\ Filed(c)

\* An item with one more piece, as a record again.
LEMMA Extended ==
  \A item, key, pieces, p :
    item = [id |-> key, content |-> pieces]
      => [item EXCEPT !.content = Append(@, p)] = [id |-> key, content |-> Append(pieces, p)]
OBVIOUS

\* A delta of the text goes to the text.
LEMMA TextFits ==
  ASSUME Streaming, chunks \in Seq(Chunks), turn \in Nat, turn' = turn, Fits,
         NEW d \in Chunks, d.call = 0, d.piece # 0, chunks' = Append(chunks, d), Text(d.piece), Tidy'
  PROVE  Fits'
<1>1. PICK c \in Nat : Current(c) /\ Filed(c)
  BY DEF Fits
<1>0. d # Blank
  BY DEF Blank
<1>2. Named' = Named \cup {0} /\ Latest(c)' /\ (c # 0 => c \in Named)
  BY <1>0, <1>1, TidyNext DEF Current
<1>3. /\ Pieces(0) \in Seq(Nat) /\ Pieces(0)' = Append(Pieces(0), d.piece)
      /\ \A b : b # 0 => Pieces(b)' = Pieces(b)
  BY PiecesNext
<1>4. callItem' = callItem /\ items' = items
  BY DEF Text
<1>5. Unnamed'
  <2>1. IsFiniteSet(Named \cup {0})
    BY FS_AddElement DEF Fits, Unnamed
  <2>. QED  BY <1>2, <1>3, <2>1 DEF Fits, Unnamed
<1>6. Current(c)'
  BY <1>1, <1>2, <1>3, <1>4 DEF Current
<1>7. Filed(c)'
  <2>1. (Named \ {0, c})' = Named \ {0, c}
    BY <1>2
  <2>2. \A b \in Named \ {0, c} : Pieces(b)' = Pieces(b)
    BY <1>3
  <2>. QED  BY <1>1, <1>4, <2>1, <2>2 DEF Filed
<1>8. Texted'
  <2> DEFINE item == IF textItem = NoItem
                     THEN [id |-> <<"text", turn>>, content |-> <<>>]
                     ELSE textItem
  <2>1. item.id = <<"text", turn>> /\ item = [id |-> item.id, content |-> Pieces(0)]
    <3>1. CASE textItem = NoItem
      <4>1. Pieces(0) = <<>>
        BY <3>1 DEF Fits, Texted, Unnamed
      <4>. QED  BY <3>1, <4>1
    <3>2. CASE textItem # NoItem
      <4>1. textItem \in ItemSet
        BY DEF Streaming
      <4>. QED  BY <3>2, <4>1 DEF Fits, Texted, ItemSet
    <3>. QED  BY <3>1, <3>2
  <2>2. textItem' = [item EXCEPT !.content = Append(@, d.piece)]
    BY DEF Text
  <2> HIDE DEF item
  <2>3. textItem' = [id |-> item.id, content |-> Append(Pieces(0), d.piece)]
    <3> DEFINE key == item.id
               pieces == Pieces(0)
    <3>1. item = [id |-> key, content |-> pieces] /\ textItem' = [item EXCEPT !.content = Append(@, d.piece)]
      BY <2>1, <2>2
    <3> HIDE DEF key, pieces
    <3>3. textItem' = [id |-> key, content |-> Append(pieces, d.piece)]
      BY <3>1, Extended
    <3>. QED  BY <3>3 DEF key, pieces
  <2>4. textItem' # NoItem
    <3>1. textItem'.id = TextId /\ NoItem.id = <<>>
      BY <2>1, <2>3 DEF NoItem, TextId
    <3>. QED  BY <3>1, IdsDiffer
  <2>. QED  BY <1>2, <1>3, <2>1, <2>3, <2>4 DEF Texted
<1>. QED  BY <1>5, <1>6, <1>7, <1>8 DEF Fits

\* A delta of a tool call goes to that call.
LEMMA CallFits ==
  ASSUME Streaming, chunks \in Seq(Chunks), turn \in Nat, turn' = turn, Fits,
         NEW d \in Chunks, d.call # 0, chunks' = Append(chunks, d), Call(d), Tidy'
  PROVE  Fits'
<1> DEFINE b == d.call
           id == <<"call", turn, b>>
           opens == Opens(d, id)
           item == IF opens THEN [id |-> id, content |-> <<>>] ELSE callItem
           takes == d.piece # 0 /\ item # NoItem
<1>1. PICK c \in Nat : Current(c) /\ Filed(c)
  BY DEF Fits
<1>0. d # Blank
  BY DEF Blank
<1>2. /\ Named' = Named \cup {b} /\ Latest(b)' /\ (c # 0 => c \in Named)
      /\ b \in Named => b = c
      /\ b \notin Named => d.named
  BY <1>0, <1>1, TidyNext DEF Current
<1>3. /\ Pieces(b) \in Seq(Nat) /\ (\A a : a # b => Pieces(a)' = Pieces(a))
      /\ d.piece # 0 => Pieces(b)' = Append(Pieces(b), d.piece)
      /\ d.piece = 0 => Pieces(b)' = Pieces(b)
  BY PiecesNext
<1>4. /\ callItem' = (IF takes THEN [item EXCEPT !.content = Append(@, d.piece)] ELSE item)
      /\ items' = items \o (IF opens THEN Closed(callItem) ELSE <<>>)
      /\ textItem' = textItem
  BY DEF Call
<1>5. b \in Nat /\ b # 0
  BY DEF Chunks
<1>6. opens <=> b \notin Named
  <2>1. ASSUME c # 0, b # c
        PROVE  callItem.id # id
    <3>1. callItem.id[3] = c /\ id[3] = b
      BY <1>1, <2>1 DEF Current
    <3>. QED  BY <2>1, <3>1
  <2>2. b \in Named => callItem # NoItem /\ callItem.id = id
    BY <1>1, <1>2 DEF Current
  <2>3. b \notin Named => c = 0 \/ b # c
    BY <1>2
  <2>4. c = 0 => callItem = NoItem
    BY <1>1 DEF Current
  <2> HIDE DEF id, b
  <2>. QED  BY <1>2, <2>1, <2>2, <2>3, <2>4 DEF Opens, b
<1>7. item.id = id /\ item = [id |-> item.id, content |-> Pieces(b)]
  <2>1. CASE opens
    <3>1. Pieces(b) = <<>>
      BY <1>5, <1>6, <2>1 DEF Fits, Unnamed
    <3>. QED  BY <2>1, <3>1
  <2>2. CASE ~opens
    <3>1. callItem # NoItem /\ callItem.id = id /\ callItem.content = Pieces(b)
      BY <1>1, <1>2, <1>5, <1>6, <2>2 DEF Current
    <3>2. callItem \in ItemSet
      BY DEF Streaming
    <3>. QED  BY <2>2, <3>1, <3>2 DEF ItemSet
  <2>. QED  BY <2>1, <2>2
<1>8. item # NoItem /\ id # <<>>
  <2>1. id = CallId(b) /\ NoItem.id = <<>>
    BY DEF NoItem, CallId
  <2> HIDE DEF id, item
  <2>. QED  BY <1>7, <2>1, IdsDiffer
<1> HIDE DEF item
<1>9. Current(b)'
  <2>1. CASE d.piece # 0
    <3>1. callItem' = [id |-> item.id, content |-> Append(Pieces(b), d.piece)]
      <4>1. callItem' = [item EXCEPT !.content = Append(@, d.piece)]
        BY <1>4, <1>8, <2>1
      <4> DEFINE key == item.id
                 pieces == Pieces(b)
      <4>2. item = [id |-> key, content |-> pieces]
        BY <1>7
      <4> HIDE DEF key, pieces
      <4>4. callItem' = [id |-> key, content |-> Append(pieces, d.piece)]
        BY <4>1, <4>2, Extended
      <4>. QED  BY <4>4 DEF key, pieces
    <3>2. callItem' # NoItem
      <4>1. callItem'.id = id /\ NoItem.id = <<>>
        BY <1>7, <3>1 DEF NoItem
      <4> HIDE DEF id
      <4>. QED  BY <1>8, <4>1
    <3>. QED  BY <1>2, <1>3, <1>5, <1>7, <2>1, <3>1, <3>2 DEF Current
  <2>2. CASE d.piece = 0
    <3>1. callItem' = item
      BY <1>4, <2>2
    <3>. QED  BY <1>2, <1>3, <1>5, <1>7, <1>8, <2>2, <3>1 DEF Current
  <2>. QED  BY <2>1, <2>2
<1>10. Unnamed'
  <2>1. IsFiniteSet(Named \cup {b})
    BY FS_AddElement DEF Fits, Unnamed
  <2>. QED  BY <1>2, <1>3, <2>1 DEF Fits, Unnamed
<1>11. Texted'
  BY <1>2, <1>3, <1>4, <1>5 DEF Fits, Texted
<1>12. items \in Seq(ItemSet)
  BY DEF Streaming
<1>13. \A a \in Named \ {0, b} : Pieces(a)' = Pieces(a)
  BY <1>3
<1>14. CASE ~opens
  <2>1. items' = items /\ b = c /\ Named' = Named
    <3>1. items \o <<>> = items
      BY <1>12
    <3>. QED  BY <1>2, <1>4, <1>6, <1>14, <3>1
  <2>2. Filed(b)'
    BY <1>1, <1>13, <2>1 DEF Filed
  <2>. QED  BY <1>5, <1>9, <1>10, <1>11, <2>2 DEF Fits
<1>15. CASE opens /\ c = 0
  <2>1. callItem = NoItem /\ items' = items
    <3>1. callItem = NoItem
      BY <1>1, <1>15 DEF Current
    <3>2. items \o <<>> = items
      BY <1>12
    <3>. QED  BY <1>4, <1>15, <3>1, <3>2 DEF Closed
  <2>2. (Named \ {0, b})' = Named \ {0, c}
    BY <1>2, <1>6, <1>15
  <2>3. \A a \in Named \ {0, c} : Pieces(a)' = Pieces(a)
    BY <1>3, <1>6, <1>15
  <2>4. Filed(b)'
    BY <1>1, <2>1, <2>2, <2>3 DEF Filed
  <2>. QED  BY <1>5, <1>9, <1>10, <1>11, <2>4 DEF Fits
<1>16. CASE opens /\ c # 0
  <2>1. PICK n \in Nat : n = Len(items)
    BY <1>12
  <2>2. /\ callItem # NoItem /\ callItem \in ItemSet
        /\ callItem.id = <<"call", turn, c>> /\ callItem.content = Pieces(c)
    BY <1>1, <1>16 DEF Current, Streaming
  <2>3. items' = Append(items, callItem)
    BY <1>4, <1>12, <1>16, <2>2 DEF Closed
  <2>4. /\ DOMAIN items = 1..n /\ DOMAIN items' = 1..(n + 1) /\ Len(items') = n + 1
        /\ items'[n + 1] = callItem /\ \A k \in 1..n : items'[k] = items[k]
    BY <1>12, <2>1, <2>2, <2>3
  <2>5. (Named \ {0, b})' = (Named \ {0, c}) \cup {c} /\ c \notin Named \ {0, c}
    BY <1>2, <1>6, <1>16
  <2>6. \A a \in (Named \ {0, c}) \cup {c} : Pieces(a)' = Pieces(a)
    BY <1>2, <1>3, <1>6, <1>16
  <2>7. Cardinality((Named \ {0, c}) \cup {c}) = Len(items')
    <3>1. IsFiniteSet(Named \ {0, c})
      BY FS_Subset DEF Fits, Unnamed
    <3>2. Cardinality((Named \ {0, c}) \cup {c}) = Cardinality(Named \ {0, c}) + 1
      BY <2>5, <3>1, FS_AddElement
    <3>. QED  BY <1>1, <2>1, <2>4, <3>2 DEF Filed
  <2>8. \A k \in DOMAIN items' : k \in 1..n \/ k = n + 1
    BY <2>1, <2>4
  <2>9. \A k \in DOMAIN items' : \E a \in (Named \ {0, c}) \cup {c} :
          items'[k].id = <<"call", turn, a>> /\ items'[k].content = Pieces(a)
    <3>1. \A k \in 1..n : \E a \in Named \ {0, c} :
            items[k].id = <<"call", turn, a>> /\ items[k].content = Pieces(a)
      BY <1>1, <2>4 DEF Filed
    <3>. QED  BY <2>2, <2>4, <2>8, <3>1
  <2>10. \A a \in (Named \ {0, c}) \cup {c} :
           \E k \in DOMAIN items' : items'[k].id = <<"call", turn, a>>
    <3>1. \A a \in Named \ {0, c} : \E k \in 1..n : items[k].id = <<"call", turn, a>>
      BY <1>1, <2>4 DEF Filed
    <3>2. n + 1 \in DOMAIN items' /\ \A k \in 1..n : k \in DOMAIN items'
      BY <2>1, <2>4
    <3>. QED  BY <2>2, <2>4, <3>1, <3>2
  <2>11. Filed(b)'
    BY <2>5, <2>6, <2>7, <2>9, <2>10 DEF Filed
  <2>. QED  BY <1>5, <1>9, <1>10, <1>11, <2>11 DEF Fits
<1>. QED  BY <1>14, <1>15, <1>16

\* A line that is passed over goes to none.
LEMMA SkipFits ==
  ASSUME chunks \in Seq(Chunks), Fits, Skip, Tidy'
  PROVE  Fits'
<1>1. PICK c \in Nat : Current(c) /\ Filed(c)
  BY DEF Fits
<1>2. /\ Blank \in Chunks /\ Blank.call = 0 /\ Blank.piece = 0 /\ chunks' = Append(chunks, Blank)
      /\ turn' = turn /\ textItem' = textItem /\ callItem' = callItem /\ items' = items
  BY DEF Blank, Chunks, Skip
<1>3. Named' = Named /\ Latest(c)'
  BY <1>1, <1>2, TidyNext DEF Current
<1>4. \A b : Pieces(b)' = Pieces(b)
  BY <1>2, PiecesNext
<1>5. Unnamed' /\ Texted'
  BY <1>2, <1>3, <1>4 DEF Fits, Unnamed, Texted
<1>6. Current(c)' /\ Filed(c)'
  BY <1>1, <1>2, <1>3, <1>4 DEF Current, Filed
<1>. QED  BY <1>5, <1>6 DEF Fits

\* At the end the open items are done as well, each with its own pieces.
EndsWell ==
  LET named == {chunks[k].call : k \in {j \in DOMAIN chunks : chunks[j] # Blank}} IN
  /\ \A call \in named \ {0} :
       {items[k].content : k \in {j \in DOMAIN items : items[j].id = <<"call", turn, call>>}}
         = {Pieces(call)}
  /\ Len(items) = Cardinality(named)
  /\ 0 \in named => Last(items).content = Pieces(0)

\* What is open at the end is put to the rest.
LEMMA EndFits ==
  ASSUME Streaming, Fits, EndOfStream
  PROVE  EndsWell'
<1>1. PICK c \in Nat : Current(c) /\ Filed(c)
  BY DEF Fits
<1>2. /\ items' = (items \o Closed(callItem)) \o Closed(textItem) /\ chunks' = chunks /\ turn' = turn
      /\ items \in Seq(ItemSet)
  BY DEF EndOfStream, Streaming
<1>3. callItem \in ItemSet /\ textItem \in ItemSet
  BY DEF Streaming
<1>4. PICK n \in Nat : n = Len(items)
  BY <1>2
<1>5. PICK p \in Seq(ItemSet) : p = items \o Closed(callItem)
  <2>1. Closed(callItem) \in Seq(ItemSet)
    <3>1. <<callItem>> \in Seq(ItemSet) /\ <<>> \in Seq(ItemSet)
      BY <1>3
    <3>. QED  BY <3>1 DEF Closed
  <2>2. items \o Closed(callItem) \in Seq(ItemSet)
    BY <1>2, <2>1
  <2>. QED  BY <2>2
<1> DEFINE All == Named \ {0}
<1>6. IsFiniteSet(All) /\ IsFiniteSet(Named \ {0, c})
  BY FS_Subset DEF Fits, Unnamed
<1>7. /\ Len(p) = Cardinality(All)
      /\ \A k \in DOMAIN p : \E b \in All : p[k].id = <<"call", turn, b>> /\ p[k].content = Pieces(b)
      /\ \A b \in All : \E k \in DOMAIN p : p[k].id = <<"call", turn, b>>
  <2>1. CASE c = 0
    <3>1. p = items
      <4>1. items \o <<>> = items
        BY <1>2
      <4>. QED  BY <1>1, <1>5, <2>1, <4>1 DEF Current, Closed
    <3>2. Named \ {0, c} = All
      BY <2>1
    <3>. QED  BY <1>1, <3>1, <3>2 DEF Filed
  <2>2. CASE c # 0
    <3>1. /\ callItem # NoItem /\ callItem.id = <<"call", turn, c>> /\ callItem.content = Pieces(c)
          /\ c \in Named
      BY <1>1, <2>2 DEF Current, Latest, Named, Blank
    <3>2. p = Append(items, callItem)
      BY <1>2, <1>3, <1>5, <3>1 DEF Closed
    <3>3. /\ DOMAIN items = 1..n /\ DOMAIN p = 1..(n + 1) /\ Len(p) = n + 1
          /\ p[n + 1] = callItem /\ \A k \in 1..n : p[k] = items[k]
      BY <1>2, <1>3, <1>4, <3>2
    <3>4. All = (Named \ {0, c}) \cup {c} /\ c \notin Named \ {0, c}
      BY <2>2, <3>1
    <3>5. Cardinality(All) = Cardinality(Named \ {0, c}) + 1
      BY <1>6, <3>4, FS_AddElement
    <3>6. Len(p) = Cardinality(All)
      BY <1>1, <1>4, <3>3, <3>5 DEF Filed
    <3>7. \A k \in DOMAIN p : k \in 1..n \/ k = n + 1
      BY <1>4, <3>3
    <3>8. n + 1 \in DOMAIN p /\ \A k \in 1..n : k \in DOMAIN p
      BY <1>4, <3>3
    <3>9. \A k \in 1..n : \E b \in Named \ {0, c} :
            items[k].id = <<"call", turn, b>> /\ items[k].content = Pieces(b)
      BY <1>1, <3>3 DEF Filed
    <3>10. \A b \in Named \ {0, c} : \E k \in 1..n : items[k].id = <<"call", turn, b>>
      BY <1>1, <3>3 DEF Filed
    <3> HIDE DEF All
    <3>11. \A k \in DOMAIN p : \E b \in All :
             p[k].id = <<"call", turn, b>> /\ p[k].content = Pieces(b)
      BY <3>1, <3>3, <3>4, <3>7, <3>9
    <3>12. \A b \in All : \E k \in DOMAIN p : p[k].id = <<"call", turn, b>>
      BY <3>1, <3>3, <3>4, <3>8, <3>10
    <3>. QED  BY <3>6, <3>11, <3>12
  <2>. QED  BY <2>1, <2>2
<1>8. PICK m \in Nat : m = Len(p)
  BY <1>5
<1>9. ASSUME NEW k \in 1..m
      PROVE  k \in DOMAIN p /\ p[k].id[1] = "call"
  <2> HIDE DEF All
  <2>1. k \in DOMAIN p
    BY <1>5, <1>8
  <2>2. PICK b \in All : p[k].id = <<"call", turn, b>>
    BY <1>7, <2>1
  <2>. QED  BY <2>1, <2>2
<1> HIDE DEF All
<1>10. ASSUME NEW q \in Seq(ItemSet), \A k \in 1..m : k \in DOMAIN q /\ q[k] = p[k],
              \A k \in DOMAIN q : k \in 1..m \/ q[k].id[1] # "call", NEW b \in All
       PROVE  {q[k].content : k \in {j \in DOMAIN q : q[j].id = <<"call", turn, b>>}} = {Pieces(b)}
  <2>1. PICK l \in 1..m : p[l].id = <<"call", turn, b>>
    <3>1. \E l \in DOMAIN p : p[l].id = <<"call", turn, b>>
      BY <1>7, <1>10
    <3>2. DOMAIN p = 1..m
      BY <1>5, <1>8
    <3>. QED  BY <3>1, <3>2
  <2>2. ASSUME NEW k \in DOMAIN q, q[k].id = <<"call", turn, b>>
        PROVE  q[k].content = Pieces(b)
    <3>1. q[k].id[1] = "call"
      BY <2>2
    <3>2. k \in 1..m /\ k \in DOMAIN p /\ q[k] = p[k]
      BY <1>5, <1>8, <1>10, <3>1
    <3>3. PICK a \in All : p[k].id = <<"call", turn, a>> /\ p[k].content = Pieces(a)
      BY <1>7, <3>2
    <3>4. <<"call", turn, a>>[3] = a /\ <<"call", turn, b>>[3] = b
      OBVIOUS
    <3>5. a = b
      BY <2>2, <3>2, <3>3, <3>4
    <3>. QED  BY <3>2, <3>3, <3>5
  <2>3. l \in DOMAIN q /\ q[l].id = <<"call", turn, b>>
    BY <1>10, <2>1
  <2>. QED  BY <2>2, <2>3
<1>13. ASSUME NEW q, items' = q, Named' = Named, \A b : Pieces(b)' = Pieces(b),
              \A b \in All : {q[k].content :
                                k \in {j \in DOMAIN q : q[j].id = <<"call", turn, b>>}} = {Pieces(b)},
              Len(q) = Cardinality(Named), 0 \in Named => Last(q).content = Pieces(0)
       PROVE  EndsWell'
  <2>1. ASSUME NEW b \in Named' \ {0}
        PROVE  {items'[k].content :
                 k \in {j \in DOMAIN items' : items'[j].id = <<"call", turn', b>>}} = {Pieces(b)'}
    <3>1. b \in All /\ Pieces(b)' = Pieces(b) /\ turn' = turn
      BY <1>2, <1>13, <2>1 DEF All
    <3>. QED  BY <1>13, <3>1
  <2>2. Len(items') = Cardinality(Named') /\ (0 \in Named' => Last(items').content = Pieces(0)')
    BY <1>13
  <2>. QED  BY <2>1, <2>2 DEF EndsWell, Named
<1>11. CASE 0 \in Named
  <2>1. textItem # NoItem /\ textItem.id = <<"text", turn>> /\ textItem.content = Pieces(0)
    BY <1>11 DEF Fits, Texted
  <2>2. PICK q \in Seq(ItemSet) : q = Append(p, textItem)
    <3>1. Append(p, textItem) \in Seq(ItemSet)
      BY <1>3
    <3>. QED  BY <3>1
  <2>3. items' = q
    <3>1. Closed(textItem) = <<textItem>>
      BY <2>1 DEF Closed
    <3>. QED  BY <1>2, <1>3, <1>5, <2>2, <3>1
  <2>4. /\ DOMAIN q = 1..(m + 1) /\ Len(q) = m + 1 /\ q[m + 1] = textItem
        /\ \A k \in 1..m : k \in DOMAIN q /\ q[k] = p[k]
    BY <1>3, <1>8, <2>2
  <2>5. \A k \in DOMAIN q : k \in 1..m \/ q[k].id[1] # "call"
    <3>1. \A k \in DOMAIN q : k \in 1..m \/ k = m + 1
      BY <1>8, <2>4
    <3>2. textItem.id[1] = "text"
      BY <2>1
    <3>. QED  BY <2>4, <3>1, <3>2
  <2>6. \A b \in All :
          {q[k].content : k \in {j \in DOMAIN q : q[j].id = <<"call", turn, b>>}} = {Pieces(b)}
    BY <1>10, <2>4, <2>5
  <2>7. Len(q) = Cardinality(Named)
    <3>1. Named = All \cup {0} /\ 0 \notin All
      BY <1>11 DEF All
    <3>. QED  BY <1>6, <1>7, <1>8, <2>4, <3>1, FS_AddElement
  <2>8. Last(q).content = Pieces(0)
    BY <2>1, <2>4 DEF Last
  <2>9. Named' = Named /\ \A b : Pieces(b)' = Pieces(b)
    BY <1>2 DEF Named, Pieces
  <2>. QED  BY <1>2, <1>13, <2>3, <2>6, <2>7, <2>8, <2>9
<1>12. CASE 0 \notin Named
  <2>1. textItem = NoItem /\ items' = p /\ Named = All
    <3>1. textItem = NoItem
      BY <1>12 DEF Fits, Texted
    <3>2. p \o <<>> = p
      BY <1>5
    <3>. QED  BY <1>2, <1>5, <1>12, <3>1, <3>2 DEF Closed, All
  <2>2. \A k \in 1..m : k \in DOMAIN p /\ p[k] = p[k]
    BY <1>5, <1>8
  <2>3. \A k \in DOMAIN p : k \in 1..m \/ p[k].id[1] # "call"
    BY <1>5, <1>8
  <2>4. \A b \in All :
          {p[k].content : k \in {j \in DOMAIN p : p[j].id = <<"call", turn, b>>}} = {Pieces(b)}
    BY <1>10, <2>2, <2>3
  <2>5. Named' = Named /\ \A b : Pieces(b)' = Pieces(b)
    BY <1>2 DEF Named, Pieces
  <2>6. Len(p) = Cardinality(Named) /\ (0 \in Named => Last(p).content = Pieces(0))
    BY <1>7, <1>12, <2>1
  <2>7. items' = p
    BY <2>1
  <2>. QED  BY <1>13, <2>4, <2>5, <2>6, <2>7
<1>. QED  BY <1>11, <1>12

\* What StreamFaithful rests on, at every step.
Turning ==
  /\ turn \in Nat
  /\ phase # "idle" => reply = "none"
  /\ phase = "stream" => chunks \in Seq(Chunks) /\ Streaming /\ (Tidy => Fits)
  /\ phase = "fetch" => /\ chunks = <<>> /\ textItem = NoItem /\ callItem = NoItem
                        /\ items = <<>> /\ sent = <<>>
  /\ phase = "json" => sent = <<>>
  /\ StreamFaithful

\* A request starts with nothing told.
LEMMA StreamStarts ==
  ASSUME chunks = <<>>, textItem = NoItem, callItem = NoItem, items = <<>>, sent = <<>>
  PROVE  chunks \in Seq(Chunks) /\ Streaming /\ Fits
<1>2. Streaming
  <2>1. NoItem \in ItemSet /\ Both(NoItem, NoItem) = {} /\ <<>> \in Seq(ItemSet)
    BY DEF NoItem, ItemSet, Both
  <2>. QED  BY <2>1, GoodNothing DEF Streaming
<1>3. Named = {} /\ IsFiniteSet(Named)
  BY FS_EmptySet DEF Named
<1>4. \A b : Pieces(b) = <<>>
  <2>1. ASSUME NEW b
        PROVE  [k \in DOMAIN chunks |-> IF chunks[k].call = b /\ chunks[k].piece # 0
                                        THEN <<chunks[k].piece>> ELSE <<>>] = <<>>
    OBVIOUS
  <2>. QED  BY <2>1, FlattenNothing DEF Pieces
<1>5. Current(0)
  BY DEF Current, Latest
<1>6. Filed(0)
  <2>1. Named \ {0, 0} = {}
    BY <1>3
  <2>2. Cardinality(Named \ {0, 0}) = 0
    BY <2>1, FS_EmptySet
  <2>3. Len(items) = 0 /\ DOMAIN items = {}
    OBVIOUS
  <2>. QED  BY <2>1, <2>2, <2>3 DEF Filed
<1>. QED  BY <1>2, <1>3, <1>4, <1>5, <1>6 DEF Fits, Unnamed, Texted

\* What a delta is, and where it goes.
LEMMA DeltaType ==
  ASSUME chunks \in Seq(Chunks), NEW call \in Calls \cup {0}, NEW named \in BOOLEAN, NEW piece \in BOOLEAN,
         Delta(call, named, piece)
  PROVE  \E d \in Chunks :
           /\ d.call = call /\ chunks' = Append(chunks, d) /\ chunks' \in Seq(Chunks)
           /\ IF call = 0 THEN d.piece # 0 /\ Text(d.piece) ELSE Call(d)
<1> DEFINE d == [call |-> call, named |-> named, piece |-> IF piece THEN Len(chunks) + 1 ELSE 0]
<1>1. d \in Chunks /\ d.call = call /\ (piece => d.piece # 0)
  BY ResponsesProxyAssumption DEF Chunks
<1>2. chunks' = Append(chunks, d) /\ (IF call = 0 THEN piece /\ ~named /\ Text(d.piece) ELSE Call(d))
  BY DEF Delta
<1> HIDE DEF d
<1>3. Append(chunks, d) \in Seq(Chunks)
  BY <1>1
<1>. QED  BY <1>1, <1>2, <1>3

\* Nothing is told at the start.
LEMMA TurningInit == Init => Turning
<1> SUFFICES ASSUME Init PROVE Turning
  OBVIOUS
<1>1. Framed
  BY NothingSent DEF Init
<1>. QED  BY <1>1 DEF Init, Turning, StreamFaithful, Framed

\* Every step keeps the stream faithful.
LEMMA TurningNext == Turning /\ [Next]_vars => Turning'
<1> SUFFICES ASSUME Turning, [Next]_vars PROVE Turning'
  OBVIOUS
<1>0. Framed
  BY DEF Turning, StreamFaithful, Framed
<1>1. CASE Request
  <2>1. chunks' = <<>> /\ textItem' = NoItem /\ callItem' = NoItem /\ items' = <<>> /\ sent' = <<>>
        /\ phase' = "fetch" /\ reply' = "none" /\ turn' = turn + 1
    BY <1>1 DEF Request
  <2>2. Framed'
    BY <2>1, NothingSent
  <2>. QED  BY <2>1, <2>2 DEF Turning, StreamFaithful, Framed
<1>2. ASSUME NEW result \in {"ok", "limited", "refused", "down"}, Fetch(result)
      PROVE  Turning'
  <2>1. /\ phase = "fetch" /\ turn' = turn /\ answer' = answer
        /\ phase' \in {"fetch", "idle", "stream", "json"} /\ reply' # "completed"
        /\ phase' # "idle" => reply' = "none"
    BY <1>2 DEF Fetch, Turning
  <2>2. chunks' = chunks /\ textItem' = textItem /\ callItem' = callItem /\ items' = items /\ sent' = sent
    BY <2>1 DEF answer
  <2>3. chunks \in Seq(Chunks) /\ Streaming /\ Fits
    BY <2>1, StreamStarts DEF Turning
  <2>4. Streaming'
    BY <2>1, <2>2, <2>3, StreamingStays
  <2>5. Fits'
    <3>1. Named' = Named /\ \A b : Pieces(b)' = Pieces(b)
      BY <2>2 DEF Named, Pieces
    <3>. QED  BY <2>1, <2>2, <2>3, <3>1 DEF Fits, Unnamed, Texted, Current, Latest, Filed
  <2>6. Framed'
    BY <1>0, <2>1, <2>2, FramedStays
  <2>. QED  BY <2>1, <2>2, <2>3, <2>4, <2>5, <2>6 DEF Turning, StreamFaithful, Framed
<1>3. ASSUME NEW call \in Calls \cup {0}, NEW named \in BOOLEAN, NEW piece \in BOOLEAN,
             Delta(call, named, piece)
      PROVE  Turning'
  <2>1. /\ phase = "stream" /\ phase' = "stream" /\ reply' = "none" /\ turn' = turn /\ turn \in Nat
        /\ chunks \in Seq(Chunks) /\ Streaming /\ (Tidy => Fits)
    BY <1>3 DEF Delta, Turning
  <2>2. PICK d \in Chunks :
          /\ d.call = call /\ chunks' = Append(chunks, d) /\ chunks' \in Seq(Chunks)
          /\ IF call = 0 THEN d.piece # 0 /\ Text(d.piece) ELSE Call(d)
    BY <1>3, <2>1, DeltaType
  <2>3. Streaming'
    <3>1. d.piece \in Nat
      BY DEF Chunks
    <3>2. turn' = turn /\ (call # 0 => d.call \in Calls)
      BY <2>1, <2>2
    <3>. QED  BY <2>1, <2>2, <3>1, <3>2, TextStep, CallStep
  <2>4. Tidy' => Fits'
    <3> SUFFICES ASSUME Tidy' PROVE Fits'
      OBVIOUS
    <3>1. Fits
      BY <2>1, <2>2, TidyBefore
    <3>. QED  BY <2>1, <2>2, <3>1, TextFits, CallFits
  <2>5. Framed'
    BY <2>3, StreamingIsFramed
  <2>. QED  BY <2>1, <2>2, <2>3, <2>4, <2>5 DEF Turning, StreamFaithful, Framed
<1>8. CASE Skip
  <2>1. /\ phase = "stream" /\ phase' = "stream" /\ reply' = "none" /\ turn' = turn /\ turn \in Nat
        /\ chunks \in Seq(Chunks) /\ Streaming /\ (Tidy => Fits)
    BY <1>8 DEF Skip, Turning
  <2>2. Streaming' /\ chunks' \in Seq(Chunks)
    BY <1>8, <2>1, SkipStep
  <2>3. Tidy' => Fits'
    <3> SUFFICES ASSUME Tidy' PROVE Fits'
      OBVIOUS
    <3>1. Blank \in Chunks /\ chunks' = Append(chunks, Blank)
      BY <1>8 DEF Skip, Blank, Chunks
    <3>2. Fits
      BY <2>1, <3>1, TidyBefore
    <3>. QED  BY <1>8, <2>1, <3>2, SkipFits
  <2>4. Framed'
    BY <2>2, StreamingIsFramed
  <2>. QED  BY <2>1, <2>2, <2>3, <2>4 DEF Turning, StreamFaithful, Framed
<1>4. CASE EndOfStream
  <2>1. /\ phase = "stream" /\ phase' = "idle" /\ turn' = turn /\ turn \in Nat /\ chunks' = chunks
        /\ chunks \in Seq(Chunks) /\ Streaming /\ (Tidy => Fits)
    BY <1>4 DEF EndOfStream, Turning
  <2>2. Framed'
    BY <1>4, <2>1, EndStep
  <2>3. Orderly' => EndsWell'
    <3> SUFFICES ASSUME Orderly' PROVE EndsWell'
      OBVIOUS
    <3>1. Orderly
      BY <2>1 DEF Orderly
    <3>. QED  BY <1>4, <2>1, <3>1, OrderlyIsTidy, EndFits
  <2>. QED  BY <2>1, <2>2, <2>3 DEF Turning, StreamFaithful, EndsWell, Framed
<1>5. CASE BreakOfStream
  <2>1. /\ phase' = "idle" /\ reply' = "broken" /\ turn' = turn /\ sent' = sent /\ chunks' = chunks
    BY <1>5 DEF BreakOfStream, answer
  <2>2. Framed'
    BY <1>0, <2>1, FramedStays
  <2>. QED  BY <2>1, <2>2 DEF Turning, StreamFaithful, Framed
<1>6. CASE Json
  <2>1. phase' = "idle" /\ turn' = turn /\ sent' = sent /\ sent = <<>> /\ chunks' = chunks
    BY <1>6 DEF Json, Turning
  <2>2. Framed'
    BY <1>0, <2>1, FramedStays
  <2>. QED  BY <2>1, <2>2 DEF Turning, StreamFaithful, Framed
<1>7. CASE UNCHANGED vars
  <2>1. /\ turn' = turn /\ phase' = phase /\ reply' = reply /\ chunks' = chunks /\ textItem' = textItem
        /\ callItem' = callItem /\ items' = items /\ sent' = sent
    BY <1>7 DEF vars, answer
  <2>2. (Streaming => Streaming') /\ Tidy' = Tidy
    BY <2>1, StreamingStays DEF Tidy
  <2>3. Named' = Named /\ \A b : Pieces(b)' = Pieces(b)
    BY <2>1 DEF Named, Pieces
  <2>4. Fits => Fits'
    BY <2>1, <2>3 DEF Fits, Unnamed, Texted, Current, Latest, Filed
  <2>5. StreamFaithful'
    <3>1. Framed' /\ Orderly' = Orderly
      BY <1>0, <2>1, FramedStays DEF Orderly
    <3>2. EndsWell' = EndsWell
      BY <2>1 DEF EndsWell, Pieces
    <3>3. StreamFaithful = (Framed /\ (Orderly /\ reply = "completed" /\ sent # <<>> => EndsWell))
      BY DEF StreamFaithful, EndsWell, Framed
    <3>4. StreamFaithful' = (Framed' /\ (Orderly' /\ reply' = "completed" /\ sent' # <<>> => EndsWell'))
      BY DEF StreamFaithful, EndsWell, Framed
    <3>. QED  BY <2>1, <3>1, <3>2, <3>3, <3>4 DEF Turning
  <2>. QED  BY <2>1, <2>2, <2>4, <2>5 DEF Turning
<1>. QED  BY <1>1, <1>2, <1>3, <1>4, <1>5, <1>6, <1>7, <1>8 DEF Next

\* The stream Codex reads is well formed by the ids of its items, whatever lines
\* LiteLLM sends and wherever it stops; no id is announced twice, but that of a
\* call that is named again after another one; and the deltas that are read, when
\* they come in order, are neither lost, nor doubled, nor given to another call.
THEOREM StreamsAreFaithful == Spec => []StreamFaithful
<1>1. Init => Turning
  BY TurningInit
<1>2. Turning /\ [Next]_vars => Turning'
  BY TurningNext
<1>3. Turning => StreamFaithful
  BY DEF Turning
<1>. QED  BY <1>1, <1>2, <1>3, PTL DEF Spec

-----------------------------------------------------------------------------
(* Items and messages *)

\* The items of the conversation, and the messages they become.
Items == [type : {"user", "text", "call", "output"}, id : Seq(Marks), content : Seq(Marks)]
Messages == [role : {"user", "assistant", "tool"}, content : Seq(Marks), calls : Seq(Seq(Marks))]

\* What is left when one element is taken out.
LEMMA Removal ==
  ASSUME NEW S, NEW q \in Seq(S), NEW i \in 1..Len(q)
  PROVE  /\ RemoveAt(q, i) \in Seq(S) /\ Len(RemoveAt(q, i)) = Len(q) - 1
         /\ \A k \in 1..(i - 1) : RemoveAt(q, i)[k] = q[k]
         /\ \A k \in i..(Len(q) - 1) : RemoveAt(q, i)[k] = q[k + 1]
<1>1. PICK n \in Nat : n = Len(q)
  OBVIOUS
<1>2. PICK a \in Seq(S) : a = SubSeq(q, 1, i - 1)
  <2>1. SubSeq(q, 1, i - 1) \in Seq(S)
    BY <1>1
  <2>. QED  BY <2>1
<1>3. Len(a) = i - 1 /\ \A k \in 1..(i - 1) : a[k] = q[k]
  BY <1>1, <1>2
<1>4. PICK b \in Seq(S) : b = SubSeq(q, i + 1, n)
  <2>1. SubSeq(q, i + 1, n) \in Seq(S)
    BY <1>1
  <2>. QED  BY <2>1
<1>5. Len(b) = n - i /\ \A k \in 1..(n - i) : b[k] = q[i + k]
  <2>1. Len(b) = n - i
    BY <1>1, <1>4
  <2>2. ASSUME NEW k \in 1..(n - i)
        PROVE  b[k] = q[i + k]
    <3>1. (i + 1) + k - 1 = i + k
      BY <1>1
    <3>2. b[k] = q[(i + 1) + k - 1]
      BY <1>1, <1>4
    <3>. QED  BY <3>1, <3>2
  <2>. QED  BY <2>1, <2>2
<1>6. RemoveAt(q, i) = a \o b
  BY <1>1, <1>2, <1>4 DEF RemoveAt
<1>7. a \o b \in Seq(S) /\ Len(a \o b) = n - 1
  BY <1>1, <1>3, <1>5
<1>8. ASSUME NEW k \in 1..(i - 1)
      PROVE  (a \o b)[k] = q[k]
  BY <1>3
<1>9. ASSUME NEW k \in i..(n - 1)
      PROVE  (a \o b)[k] = q[k + 1]
  <2>1. k - (i - 1) \in 1..(n - i) /\ i + (k - (i - 1)) = k + 1
    BY <1>1
  <2>2. k \in (Len(a) + 1)..(Len(a) + Len(b)) /\ Len(a) \in Nat /\ Len(b) \in Nat
    BY <1>1, <1>3, <1>5
  <2>3. (a \o b)[k] = b[k - Len(a)]
    BY <2>2
  <2>. QED  BY <1>3, <1>5, <2>1, <2>3
<1>. QED  BY <1>1, <1>6, <1>7, <1>8, <1>9

\* Only a message of the assistant adds to what it said.
LEMMA SaidNext ==
  ASSUME NEW ms \in Seq(Messages), NEW m \in Messages
  PROVE  /\ Said(ms) \in Seq(Marks)
         /\ m.role = "assistant" => Said(Append(ms, m)) = Said(ms) \o m.content
         /\ m.role # "assistant" => Said(Append(ms, m)) = Said(ms)
<1> DEFINE f == [x \in Messages |-> IF x.role = "assistant" THEN x.content ELSE <<>>]
<1>1. Gives(f, Messages, Marks)
  BY DEF Messages, Gives
<1>2. ASSUME NEW z \in Seq(Messages)
      PROVE  Said(z) = Gather(f, z)
  <2>1. \A k \in DOMAIN z : z[k] \in Messages
    OBVIOUS
  <2>. QED  BY <2>1 DEF Said, Gather
<1>3. f[m] = IF m.role = "assistant" THEN m.content ELSE <<>>
  OBVIOUS
<1> HIDE DEF f
<1>4. Grows(f, Marks, ms, m)
  BY <1>1, GatherNext
<1>5. Append(ms, m) \in Seq(Messages)
  OBVIOUS
<1>6. Said(ms) \in Seq(Marks) /\ Said(Append(ms, m)) = Said(ms) \o f[m]
  BY <1>2, <1>4, <1>5 DEF Grows
<1>7. CASE m.role = "assistant"
  BY <1>3, <1>6, <1>7
<1>8. CASE m.role # "assistant"
  <2>1. Said(Append(ms, m)) = Said(ms) \o <<>>
    BY <1>3, <1>6, <1>8
  <2>. QED  BY <1>6, <1>8, <2>1
<1>. QED  BY <1>6, <1>7, <1>8

\* Only a text adds to what is written.
LEMMA WrittenNext ==
  ASSUME NEW h \in Seq(Items), NEW x \in Items
  PROVE  /\ Written(h) \in Seq(Marks)
         /\ x.type = "text" => Written(Append(h, x)) = Written(h) \o x.content
         /\ x.type # "text" => Written(Append(h, x)) = Written(h)
<1> DEFINE f == [y \in Items |-> IF y.type = "text" THEN y.content ELSE <<>>]
<1>1. Gives(f, Items, Marks)
  BY DEF Items, Gives
<1>2. ASSUME NEW z \in Seq(Items)
      PROVE  Written(z) = Gather(f, z)
  <2>1. \A k \in DOMAIN z : z[k] \in Items
    OBVIOUS
  <2>. QED  BY <2>1 DEF Written, Gather
<1>3. f[x] = IF x.type = "text" THEN x.content ELSE <<>>
  OBVIOUS
<1> HIDE DEF f
<1>4. Grows(f, Marks, h, x)
  BY <1>1, GatherNext
<1>5. Append(h, x) \in Seq(Items)
  OBVIOUS
<1>6. Written(h) \in Seq(Marks) /\ Written(Append(h, x)) = Written(h) \o f[x]
  BY <1>2, <1>4, <1>5 DEF Grows
<1>7. CASE x.type = "text"
  BY <1>3, <1>6, <1>7
<1>8. CASE x.type # "text"
  <2>1. Written(Append(h, x)) = Written(h) \o <<>>
    BY <1>3, <1>6, <1>8
  <2>. QED  BY <1>6, <1>8, <2>1
<1>. QED  BY <1>6, <1>7, <1>8

\* The first j items are written as the first j, and one more.
LEMMA WrittenPrefix ==
  ASSUME NEW h \in Seq(Items), NEW j \in Nat, j < Len(h)
  PROVE  /\ Written(SubSeq(h, 1, j)) \in Seq(Marks)
         /\ h[j + 1].type = "text" =>
              Written(SubSeq(h, 1, j + 1)) = Written(SubSeq(h, 1, j)) \o h[j + 1].content
         /\ h[j + 1].type # "text" => Written(SubSeq(h, 1, j + 1)) = Written(SubSeq(h, 1, j))
<1>1. PICK n \in Nat : n = Len(h)
  OBVIOUS
<1>2. j \in 0..n /\ j + 1 \in 1..n /\ h[j + 1] \in Items
  BY <1>1
<1>3. PICK p \in Seq(Items) : p = SubSeq(h, 1, j)
  <2>1. SubSeq(h, 1, j) \in Seq(Items)
    BY <1>1, <1>2
  <2>. QED  BY <2>1
<1>4. SubSeq(h, 1, j + 1) = Append(p, h[j + 1])
  BY <1>1, <1>2, <1>3
<1>. QED  BY <1>2, <1>3, <1>4, WrittenNext

\* Nothing is said in no messages.
LEMMA NothingSaid == Said(<<>>) = <<>> /\ Written(<<>>) = <<>>
<1>1. [k \in DOMAIN <<>> |-> IF <<>>[k].role = "assistant" THEN <<>>[k].content ELSE <<>>] = <<>>
  OBVIOUS
<1>2. [k \in DOMAIN <<>> |-> IF <<>>[k].type = "text" THEN <<>>[k].content ELSE <<>>] = <<>>
  OBVIOUS
<1>. QED  BY <1>1, <1>2, FlattenNothing DEF Said, Written

\* Which message an item becomes.
LEMMA MessageType ==
  ASSUME NEW x \in Items
  PROVE  /\ ToMessage(x) \in Messages
         /\ x.type = "call" => /\ ToMessage(x).role = "assistant" /\ ToMessage(x).content = <<>>
                               /\ ToMessage(x).calls = <<x.id>>
         /\ x.type # "call" => ToMessage(x).calls = <<>> /\ ToMessage(x).content = x.content
         /\ x.type = "output" <=> ToMessage(x).role = "tool"
         /\ x.type \in {"call", "text"} <=> ToMessage(x).role = "assistant"
<1>1. x.type = "call" => <<x.id>> \in Seq(Seq(Marks))
  BY DEF Items
<1>2. <<>> \in Seq(Seq(Marks)) /\ <<>> \in Seq(Marks)
  OBVIOUS
<1>3. x.content \in Seq(Marks) /\ x.type \in {"user", "text", "call", "output"}
  BY DEF Items
<1>4. ToMessage(x) \in Messages
  <2>1. CASE x.type = "call"
    BY <1>1, <1>2, <2>1 DEF ToMessage, Messages
  <2>2. CASE x.type # "call"
    BY <1>2, <1>3, <2>2 DEF ToMessage, Messages
  <2>. QED  BY <2>1, <2>2
<1>. QED  BY <1>3, <1>4 DEF ToMessage

-----------------------------------------------------------------------------
(* The rounds of the loop *)

\* Every call has its result next, or a text and then its result; a text comes
\* after a call only where none comes before it.
Answered(h) ==
  \A k \in DOMAIN h : h[k].type = "call" =>
    \/ k + 1 \in DOMAIN h /\ h[k + 1].type = "output" /\ h[k + 1].content = h[k].id
    \/ /\ k + 2 \in DOMAIN h /\ h[k + 1].type = "text"
       /\ h[k + 2].type = "output" /\ h[k + 2].content = h[k].id
       /\ k = 1 \/ h[k - 1].type # "text"

\* The messages are the finished ones and those of the items from j + 1 on.
Laid(h, ms, pre, j) ==
  /\ pre \in Seq(Messages) /\ ms \in Seq(Messages) /\ j \in 0..Len(h)
  /\ Len(ms) = Len(pre) + (Len(h) - j)
  /\ \A m \in 1..Len(pre) : ms[m] = pre[m]
  /\ \A m \in 1..(Len(h) - j) : ms[Len(pre) + m] = ToMessage(h[j + m])

\* Every finished call has its result next, the last one perhaps in item j + 1.
Paired(h, pre, j) ==
  \A m \in 1..Len(pre) : pre[m].calls # <<>> =>
    IF m = Len(pre)
    THEN j < Len(h) /\ h[j + 1].type = "output" /\ pre[m].calls = <<h[j + 1].content>>
    ELSE pre[m + 1].role = "tool" /\ pre[m].calls = <<pre[m + 1].content>>

\* The last finished message is a text of its own only if item j is one.
Loose(h, pre, j) ==
  Len(pre) > 0 /\ pre[Len(pre)].role = "assistant" /\ pre[Len(pre)].calls = <<>> =>
    j > 0 /\ h[j].type = "text"

\* The loop is behind the finished messages, with every text of their items said.
Merged(h, s, pre, j) ==
  /\ s = [ms |-> s.ms, i |-> Len(pre) + 1]
  /\ Laid(h, s.ms, pre, j) /\ Paired(h, pre, j) /\ Loose(h, pre, j)
  /\ Said(pre) = Written(SubSeq(h, 1, j))

\* An item that is no call is a message of its own.
LEMMA PlainRound ==
  ASSUME NEW h \in Seq(Items), NEW s, NEW pre, NEW j, Merged(h, s, pre, j), j < Len(h),
         h[j + 1].type # "call"
  PROVE  Merged(h, MergeRound(s), Append(pre, ToMessage(h[j + 1])), j + 1)
<1> DEFINE x == h[j + 1]
           m == ToMessage(x)
           ms == s.ms
<1>1. PICK n \in Nat : n = Len(h)
  OBVIOUS
<1>2. /\ pre \in Seq(Messages) /\ ms \in Seq(Messages) /\ j \in 0..n /\ Len(ms) = Len(pre) + (n - j)
      /\ (\A k \in 1..Len(pre) : ms[k] = pre[k])
      /\ \A k \in 1..(n - j) : ms[Len(pre) + k] = ToMessage(h[j + k])
  BY <1>1 DEF Merged, Laid
<1>3. PICK p \in Nat : p = Len(pre)
  BY <1>2
<1>4. x \in Items /\ j + 1 \in 1..n /\ j \in Nat
  BY <1>1, <1>2
<1>5. m \in Messages /\ m.calls = <<>>
  BY <1>4, MessageType
<1>6. ms[p + 1] = m
  BY <1>1, <1>2, <1>3
<1>7. MergeRound(s) = [ms |-> ms, i |-> p + 2]
  <2>1. s.i = p + 1 /\ ~(s.i > Len(ms))
    BY <1>1, <1>2, <1>3 DEF Merged
  <2>2. s = [ms |-> ms, i |-> p + 1]
    BY <1>3 DEF Merged
  <2> HIDE DEF ms, m
  <2>3. s.ms = ms
    BY <2>2
  <2>4. MergeRound(s) = [s EXCEPT !.i = @ + 1]
    BY <1>5, <1>6, <2>1, <2>3 DEF MergeRound
  <2>. QED  BY <1>3, <2>2, <2>4
<1> HIDE DEF m, x, ms
<1>8. PICK q \in Seq(Messages) : q = Append(pre, m)
  <2>1. Append(pre, m) \in Seq(Messages)
    BY <1>2, <1>5
  <2>. QED  BY <2>1
<1>9. Len(q) = p + 1 /\ q[p + 1] = m /\ \A k \in 1..p : q[k] = pre[k]
  BY <1>2, <1>3, <1>5, <1>8
<1>10. \A k \in 1..(p + 1) : k \in 1..p \/ k = p + 1
  BY <1>3
<1>11. Laid(h, ms, q, j + 1)
  <2>1. \A k \in 1..(p + 1) : ms[k] = q[k]
    BY <1>2, <1>3, <1>6, <1>9, <1>10
  <2>2. ASSUME NEW k \in 1..(n - (j + 1))
        PROVE  ms[(p + 1) + k] = ToMessage(h[(j + 1) + k])
    <3>1. k + 1 \in 1..(n - j) /\ p + (k + 1) = (p + 1) + k /\ j + (k + 1) = (j + 1) + k
      BY <1>3, <1>4
    <3>. QED  BY <1>2, <1>3, <3>1
  <2>3. j + 1 \in 0..Len(h) /\ Len(ms) = Len(q) + (Len(h) - (j + 1))
    BY <1>1, <1>2, <1>3, <1>4, <1>9
  <2>. QED  BY <1>1, <1>2, <1>8, <1>9, <2>1, <2>2, <2>3 DEF Laid
<1>12. Paired(h, q, j + 1)
  <2>1. ASSUME NEW k \in 1..p, pre[k].calls # <<>>
        PROVE  q[k + 1].role = "tool" /\ q[k].calls = <<q[k + 1].content>>
    <3>1. CASE k = p
      <4>1. x.type = "output" /\ pre[p].calls = <<x.content>>
        BY <1>3, <2>1, <3>1 DEF Merged, Paired, x
      <4>2. m.role = "tool" /\ m.content = x.content
        BY <1>4, <4>1, MessageType DEF m
      <4>. QED  BY <1>9, <3>1, <4>1, <4>2
    <3>2. CASE k # p
      <4>1. pre[k + 1].role = "tool" /\ pre[k].calls = <<pre[k + 1].content>>
        BY <1>3, <2>1, <3>2 DEF Merged, Paired
      <4>2. k + 1 \in 1..p
        BY <1>3, <3>2
      <4>. QED  BY <1>9, <4>1, <4>2
    <3>. QED  BY <3>1, <3>2
  <2>2. \A k \in 1..p : k # p + 1
    BY <1>3
  <2>. QED  BY <1>5, <1>9, <1>10, <2>1, <2>2 DEF Paired
<1>13. Loose(h, q, j + 1)
  <2>1. m.role = "assistant" => x.type = "text"
    BY <1>4, MessageType DEF m, x
  <2>. QED  BY <1>4, <1>9, <2>1 DEF Loose, x
<1>14. Said(q) = Written(SubSeq(h, 1, j + 1))
  <2>1. Said(pre) = Written(SubSeq(h, 1, j))
    BY DEF Merged
  <2>2. CASE x.type = "text"
    <3>1. m.role = "assistant" /\ m.content = x.content
      BY <1>4, <2>2, MessageType DEF m
    <3>2. Said(q) = Said(pre) \o m.content
      BY <1>2, <1>5, <1>8, <3>1, SaidNext
    <3>3. Written(SubSeq(h, 1, j + 1)) = Written(SubSeq(h, 1, j)) \o x.content
      BY <1>1, <1>4, <2>2, WrittenPrefix DEF x
    <3>. QED  BY <2>1, <3>1, <3>2, <3>3
  <2>3. CASE x.type # "text"
    <3>1. m.role # "assistant"
      BY <1>4, <2>3, MessageType DEF m, x
    <3>2. Said(q) = Said(pre)
      BY <1>2, <1>5, <1>8, <3>1, SaidNext
    <3>3. Written(SubSeq(h, 1, j + 1)) = Written(SubSeq(h, 1, j))
      BY <1>1, <1>4, <2>3, WrittenPrefix DEF x
    <3>. QED  BY <2>1, <3>2, <3>3
  <2>. QED  BY <2>2, <2>3
<1>. QED
  <2>1. [ms |-> ms, i |-> p + 2].ms = ms /\ Len(q) + 1 = p + 2
    BY <1>3, <1>9
  <2>2. Merged(h, MergeRound(s), q, j + 1)
    BY <1>7, <1>11, <1>12, <1>13, <1>14, <2>1 DEF Merged
  <2>. QED  BY <1>8, <2>2 DEF m, x

\* A number up to the next one.
LEMMA UpTo == \A p \in Nat : \A k \in 1..(p + 1) : k \in 1..p \/ k = p + 1
OBVIOUS

\* A call that is finished, before its result.
LEMMA CallDone ==
  ASSUME NEW h \in Seq(Items), NEW base \in Seq(Messages), NEW m \in Messages, NEW j \in Nat,
         m.role = "assistant", j < Len(h), h[j + 1].type = "output", m.calls = <<h[j + 1].content>>,
         \A k \in 1..Len(base) : base[k].calls # <<>> =>
           k < Len(base) /\ base[k + 1].role = "tool" /\ base[k].calls = <<base[k + 1].content>>
  PROVE  Paired(h, Append(base, m), j) /\ Loose(h, Append(base, m), j)
<1>1. PICK p \in Nat : p = Len(base)
  OBVIOUS
<1>2. PICK q \in Seq(Messages) : q = Append(base, m)
  <2>1. Append(base, m) \in Seq(Messages)
    OBVIOUS
  <2>. QED  BY <2>1
<1>3. Len(q) = p + 1 /\ q[p + 1] = m /\ \A k \in 1..p : q[k] = base[k]
  BY <1>1, <1>2
<1>4. \A k \in 1..(p + 1) : k \in 1..p \/ k = p + 1
  BY <1>1, UpTo, Zenon
<1>5. ASSUME NEW k \in 1..p, q[k].calls # <<>>
      PROVE  k # p + 1 /\ q[k + 1].role = "tool" /\ q[k].calls = <<q[k + 1].content>>
  <2>1. k < p /\ base[k + 1].role = "tool" /\ base[k].calls = <<base[k + 1].content>>
    BY <1>1, <1>3, <1>5
  <2>2. k + 1 \in 1..p
    BY <1>1, <2>1
  <2>. QED  BY <1>1, <1>3, <2>1, <2>2
<1>6. Paired(h, q, j)
  BY <1>3, <1>4, <1>5 DEF Paired
<1>7. Loose(h, q, j)
  <2>1. <<h[j + 1].content>> # <<>>
    OBVIOUS
  <2>. QED  BY <1>3, <2>1 DEF Loose
<1>. QED  BY <1>2, <1>6, <1>7

\* What is there when the loop comes to a call.
CallAt(h, s, pre, j) ==
  /\ pre \in Seq(Messages) /\ s.ms \in Seq(Messages) /\ j \in Nat
  /\ Len(pre) \in Nat /\ Len(h) \in Nat /\ Len(s.ms) = Len(pre) + (Len(h) - j)
  /\ s = [ms |-> s.ms, i |-> Len(pre) + 1] /\ s.i = Len(pre) + 1
  /\ \A k \in 1..Len(pre) : s.ms[k] = pre[k]
  /\ \A k \in 1..(Len(h) - j) : s.ms[Len(pre) + k] = ToMessage(h[j + k])
  /\ h[j + 1] \in Items
  /\ s.ms[Len(pre) + 1] = ToMessage(h[j + 1])
  /\ s.ms[Len(pre) + 1] = [role |-> "assistant", content |-> <<>>, calls |-> <<h[j + 1].id>>]
  /\ \A k \in 1..Len(pre) : pre[k].calls # <<>> =>
       k < Len(pre) /\ pre[k + 1].role = "tool" /\ pre[k].calls = <<pre[k + 1].content>>

\* The loop comes to a call.
LEMMA AtCall ==
  ASSUME NEW h \in Seq(Items), NEW s, NEW pre, NEW j, Merged(h, s, pre, j), j < Len(h),
         h[j + 1].type = "call"
  PROVE  CallAt(h, s, pre, j)
<1>1. PICK n \in Nat : n = Len(h)
  OBVIOUS
<1>2. PICK p \in Nat : p = Len(pre)
  BY DEF Merged, Laid
<1>3. /\ pre \in Seq(Messages) /\ s.ms \in Seq(Messages) /\ j \in 0..n /\ Len(s.ms) = p + (n - j)
      /\ (\A k \in 1..p : s.ms[k] = pre[k])
      /\ \A k \in 1..(n - j) : s.ms[p + k] = ToMessage(h[j + k])
  BY <1>1, <1>2 DEF Merged, Laid
<1>4. j + 1 \in 1..n /\ h[j + 1] \in Items
  BY <1>1, <1>3
<1>5. s.ms[p + 1] = ToMessage(h[j + 1])
  BY <1>1, <1>2, <1>3, <1>4
<1>6. ToMessage(h[j + 1]) = [role |-> "assistant", content |-> <<>>, calls |-> <<h[j + 1].id>>]
  BY DEF ToMessage
<1>7. s = [ms |-> s.ms, i |-> p + 1]
  BY <1>2 DEF Merged
<1>8. s.i = p + 1
  BY <1>7
<1>9. ASSUME NEW k \in 1..p, pre[k].calls # <<>>
      PROVE  k < p /\ pre[k + 1].role = "tool" /\ pre[k].calls = <<pre[k + 1].content>>
  <2>1. k # p
    BY <1>2, <1>9 DEF Merged, Paired
  <2>. QED  BY <1>2, <1>9, <2>1 DEF Merged, Paired
<1>. QED  BY <1>1, <1>2, <1>3, <1>4, <1>5, <1>6, <1>7, <1>8, <1>9 DEF CallAt

\* A call whose result is next, after no text: it is done as it is.
LEMMA AloneRound ==
  ASSUME NEW h \in Seq(Items), NEW s, NEW pre, NEW j, Merged(h, s, pre, j), j + 1 < Len(h),
         h[j + 1].type = "call", h[j + 2].type = "output", h[j + 2].content = h[j + 1].id,
         ~Standalone(s.ms, Len(pre))
  PROVE  Merged(h, MergeRound(s), Append(pre, ToMessage(h[j + 1])), j + 1)
<1> DEFINE m == ToMessage(h[j + 1])
           ms == s.ms
<1>1. PICK n \in Nat : n = Len(h)
  OBVIOUS
<1>0. CallAt(h, s, pre, j)
  <2>1. j \in Nat
    BY <1>1 DEF Merged, Laid
  <2>2. j < Len(h)
    BY <1>1, <2>1
  <2>. QED  BY <2>2, AtCall
<1>2. PICK p \in Nat : p = Len(pre)
  BY <1>0 DEF CallAt
<1>3. j \in Nat /\ j < n /\ j + 1 < n
  BY <1>0, <1>1 DEF CallAt
<1>4. /\ pre \in Seq(Messages) /\ ms \in Seq(Messages) /\ Len(ms) = p + (n - j)
      /\ s = [ms |-> ms, i |-> p + 1] /\ s.i = p + 1
      /\ (\A k \in 1..p : ms[k] = pre[k])
      /\ (\A k \in 1..(n - j) : ms[p + k] = ToMessage(h[j + k]))
      /\ h[j + 1] \in Items /\ ms[p + 1] = m
      /\ m = [role |-> "assistant", content |-> <<>>, calls |-> <<h[j + 1].id>>]
      /\ \A k \in 1..p : pre[k].calls # <<>> =>
           k < p /\ pre[k + 1].role = "tool" /\ pre[k].calls = <<pre[k + 1].content>>
  BY <1>0, <1>1, <1>2 DEF CallAt
<1>5. MergeAfter(ms, p + 1) = ms
  <2>1. 2 \in 1..(n - j) /\ p + 2 = (p + 1) + 1 /\ j + 2 \in 1..n
    BY <1>1, <1>2, <1>3
  <2>2. ms[(p + 1) + 1].role = "tool"
    <3>1. h[j + 2] \in Items
      BY <1>1, <2>1
    <3>2. ToMessage(h[j + 2]).role = "tool"
      BY <3>1, MessageType
    <3>. QED  BY <1>4, <2>1, <3>2
  <2>. QED  BY <2>2 DEF MergeAfter, Standalone
<1>6. MergeRound(s) = [ms |-> ms, i |-> p + 2]
  <2>1. ~(s.i > Len(ms)) /\ (p + 1) - 1 = p /\ (p + 1) + 1 = p + 2
    BY <1>1, <1>2, <1>3, <1>4
  <2>2. ms[s.i].calls # <<>>
    BY <1>4
  <2>3. ~Standalone(ms, s.i - 1) /\ MergeAfter(ms, s.i) = ms
    BY <1>2, <1>4, <1>5, <2>1
  <2> HIDE DEF m
  <2>. QED  BY <1>4, <2>1, <2>2, <2>3 DEF MergeRound
<1> HIDE DEF m, ms
<1>7. m \in Messages
  BY <1>4, MessageType DEF m
<1>8. PICK q \in Seq(Messages) : q = Append(pre, m)
  <2>1. Append(pre, m) \in Seq(Messages)
    BY <1>4, <1>7
  <2>. QED  BY <2>1
<1>9. Len(q) = p + 1 /\ q[p + 1] = m /\ \A k \in 1..p : q[k] = pre[k]
  BY <1>2, <1>4, <1>7, <1>8
<1>10. Laid(h, ms, q, j + 1)
  <2>1. \A k \in 1..(p + 1) : ms[k] = q[k]
    <3>1. \A k \in 1..(p + 1) : k \in 1..p \/ k = p + 1
      BY <1>2
    <3>. QED  BY <1>4, <1>9, <3>1
  <2>2. ASSUME NEW k \in 1..(n - (j + 1))
        PROVE  ms[(p + 1) + k] = ToMessage(h[(j + 1) + k])
    <3>1. k + 1 \in 1..(n - j) /\ p + (k + 1) = (p + 1) + k /\ j + (k + 1) = (j + 1) + k
      BY <1>2, <1>3
    <3>. QED  BY <1>4, <3>1
  <2>3. j + 1 \in 0..Len(h) /\ Len(ms) = Len(q) + (Len(h) - (j + 1))
    BY <1>1, <1>2, <1>3, <1>4, <1>9
  <2>. QED  BY <1>1, <1>4, <1>8, <1>9, <2>1, <2>2, <2>3 DEF Laid
<1>11. Paired(h, q, j + 1) /\ Loose(h, q, j + 1)
  <2>1. (j + 1) + 1 = j + 2 /\ j + 1 \in Nat
    BY <1>3
  <2>2. m.calls = <<h[(j + 1) + 1].content>> /\ m.role = "assistant" /\ h[(j + 1) + 1].type = "output"
    BY <1>4, <2>1
  <2>. QED  BY <1>1, <1>2, <1>3, <1>4, <1>7, <1>8, <2>1, <2>2, CallDone
<1>12. Said(q) = Written(SubSeq(h, 1, j + 1))
  <2>1. Said(pre) = Written(SubSeq(h, 1, j)) /\ Said(pre) \in Seq(Marks)
    BY <1>4, <1>7, SaidNext DEF Merged
  <2>2. Said(q) = Said(pre) \o <<>>
    <3>1. m.role = "assistant" /\ m.content = <<>>
      BY <1>4
    <3>2. Said(Append(pre, m)) = Said(pre) \o m.content
      BY <1>4, <1>7, <3>1, SaidNext
    <3>. QED  BY <1>8, <3>1, <3>2
  <2>3. Written(SubSeq(h, 1, j + 1)) = Written(SubSeq(h, 1, j))
    BY <1>1, <1>3, WrittenPrefix
  <2>. QED  BY <2>1, <2>2, <2>3
<1>. QED
  <2>1. [ms |-> ms, i |-> p + 2].ms = ms /\ Len(q) + 1 = p + 2
    BY <1>2, <1>9
  <2>2. Merged(h, MergeRound(s), q, j + 1)
    BY <1>6, <1>10, <1>11, <1>12, <2>1 DEF Merged
  <2>. QED  BY <1>8, <2>2 DEF m

\* One element of a sequence is another one.
LEMMA Replacement ==
  ASSUME NEW S, NEW q \in Seq(S), NEW i \in 1..Len(q), NEW y \in S
  PROVE  /\ [q EXCEPT ![i] = y] \in Seq(S) /\ Len([q EXCEPT ![i] = y]) = Len(q)
         /\ [q EXCEPT ![i] = y][i] = y
         /\ \A k \in 1..Len(q) : k # i => [q EXCEPT ![i] = y][k] = q[k]
OBVIOUS

\* Another content leaves the call.
LEMMA CallMessage ==
  ASSUME NEW m \in Messages, m.role = "assistant", NEW id \in Seq(Marks), m.calls = <<id>>,
         NEW c \in Seq(Marks)
  PROVE  /\ [m EXCEPT !.content = c] \in Messages
         /\ [m EXCEPT !.content = c].role = "assistant" /\ [m EXCEPT !.content = c].calls = <<id>>
         /\ [m EXCEPT !.content = c].content = c
BY DEF Messages

\* The text that comes between a call and its result goes into the call.
LEMMA BeforeRound ==
  ASSUME NEW h \in Seq(Items), NEW s, NEW pre, NEW j, Merged(h, s, pre, j), j + 2 < Len(h),
         h[j + 1].type = "call", h[j + 2].type = "text",
         h[j + 3].type = "output", h[j + 3].content = h[j + 1].id,
         ~Standalone(s.ms, Len(pre))
  PROVE  \E q : Merged(h, MergeRound(s), q, j + 2)
<1> DEFINE ms == s.ms
           t == h[j + 2].content
           m == [ms[Len(pre) + 1] EXCEPT !.content = t]
           r == [ms EXCEPT ![Len(pre) + 1] = m]
           ms1 == RemoveAt(r, Len(pre) + 2)
<1>1. PICK n \in Nat : n = Len(h)
  OBVIOUS
<1>0. CallAt(h, s, pre, j)
  <2>1. j \in Nat
    BY <1>1 DEF Merged, Laid
  <2>2. j < Len(h)
    BY <1>1, <2>1
  <2>. QED  BY <2>2, AtCall
<1>2. PICK p \in Nat : p = Len(pre)
  BY <1>0 DEF CallAt
<1>3. j \in Nat /\ j + 2 < n /\ j + 1 \in 1..n /\ j + 2 \in 1..n /\ j + 3 \in 1..n
  <2>1. j \in Nat
    BY <1>0 DEF CallAt
  <2>. QED  BY <1>1, <2>1
<1>4. /\ pre \in Seq(Messages) /\ ms \in Seq(Messages) /\ Len(ms) = p + (n - j)
      /\ s = [ms |-> ms, i |-> p + 1] /\ s.i = p + 1
      /\ (\A k \in 1..p : ms[k] = pre[k])
      /\ (\A k \in 1..(n - j) : ms[p + k] = ToMessage(h[j + k]))
      /\ h[j + 1] \in Items
      /\ ms[p + 1] = [role |-> "assistant", content |-> <<>>, calls |-> <<h[j + 1].id>>]
      /\ \A k \in 1..p : pre[k].calls # <<>> =>
           k < p /\ pre[k + 1].role = "tool" /\ pre[k].calls = <<pre[k + 1].content>>
  BY <1>0, <1>1, <1>2 DEF CallAt
<1>5. /\ h[j + 2] \in Items /\ t \in Seq(Marks) /\ h[j + 1].id \in Seq(Marks)
      /\ ms[p + 1] \in Messages /\ p + 1 \in 1..Len(ms) /\ p + 2 \in 1..Len(ms)
  <2>1. h[j + 2] \in Items
    BY <1>1, <1>3
  <2>2. p + 1 \in 1..Len(ms) /\ p + 2 \in 1..Len(ms)
    <3>1. Len(ms) = p + (n - j)
      BY <1>4
    <3>. QED  BY <1>2, <1>3, <3>1
  <2>3. ms[p + 1] \in Messages
    <3> HIDE DEF ms
    <3>1. ms \in Seq(Messages)
      BY <1>4
    <3>. QED  BY <2>2, <3>1
  <2>4. h[j + 1].id \in Seq(Marks) /\ h[j + 2].content \in Seq(Marks)
    BY <1>4, <2>1 DEF Items
  <2>. QED  BY <2>1, <2>2, <2>3, <2>4
<1>6. m \in Messages /\ m.role = "assistant" /\ m.calls = <<h[j + 1].id>> /\ m.content = t
  <2>1. ms[p + 1].role = "assistant" /\ ms[p + 1].calls = <<h[j + 1].id>>
    BY <1>4
  <2>2. m = [ms[p + 1] EXCEPT !.content = t]
    BY <1>2
  <2> HIDE DEF m, ms, t
  <2>3. PICK x \in Messages : x = ms[p + 1]
    BY <1>5
  <2>. QED  BY <1>5, <2>1, <2>2, <2>3, CallMessage
<1>7. ms[p + 2].role = "assistant" /\ ms[p + 2].calls = <<>> /\ ms[p + 2].content = t
  <2>1. 2 \in 1..(n - j)
    BY <1>1, <1>3
  <2>2. ms[p + 2] = ToMessage(h[j + 2])
    BY <1>4, <2>1
  <2>. QED  BY <1>5, <2>2, MessageType
<1>8. MergeAfter(ms, p + 1) = ms1
  <2>1. (p + 1) + 1 = p + 2 /\ p + 2 \in DOMAIN ms
    BY <1>2, <1>4, <1>5
  <2>2. Standalone(ms, (p + 1) + 1)
    BY <1>7, <2>1 DEF Standalone
  <2>3. ms[p + 1].content = <<>> /\ ms[(p + 1) + 1].content = t
    BY <1>4, <1>7, <2>1
  <2> HIDE DEF ms, t
  <2>4. MergeAfter(ms, p + 1) =
          RemoveAt([ms EXCEPT ![p + 1].content = IF @ = <<>> THEN ms[(p + 1) + 1].content ELSE @],
                   (p + 1) + 1)
    BY <2>2 DEF MergeAfter
  <2>5. [ms EXCEPT ![p + 1].content = IF @ = <<>> THEN ms[(p + 1) + 1].content ELSE @] = r
    BY <1>2, <2>3
  <2>. QED  BY <1>2, <2>1, <2>4, <2>5
<1> HIDE DEF m, t
<1>9. /\ r \in Seq(Messages) /\ Len(r) = Len(ms) /\ r[p + 1] = m
      /\ \A k \in 1..Len(ms) : k # p + 1 => r[k] = ms[k]
  <2> HIDE DEF ms
  <2>. QED  BY <1>2, <1>4, <1>5, <1>6, Replacement
<1> HIDE DEF r
<1>10. /\ ms1 \in Seq(Messages) /\ Len(ms1) = Len(ms) - 1
       /\ \A k \in 1..(p + 1) : ms1[k] = r[k]
       /\ \A k \in (p + 2)..(Len(ms) - 1) : ms1[k] = r[k + 1]
  <2> HIDE DEF ms
  <2>1. p + 2 \in 1..Len(r) /\ (p + 2) - 1 = p + 1
    BY <1>2, <1>5, <1>9
  <2>2. ms1 = RemoveAt(r, p + 2)
    BY <1>2
  <2>3. /\ RemoveAt(r, p + 2) \in Seq(Messages) /\ Len(RemoveAt(r, p + 2)) = Len(r) - 1
        /\ \A k \in 1..((p + 2) - 1) : RemoveAt(r, p + 2)[k] = r[k]
        /\ \A k \in (p + 2)..(Len(r) - 1) : RemoveAt(r, p + 2)[k] = r[k + 1]
    BY <1>9, <2>1, Removal
  <2>. QED  BY <1>9, <2>1, <2>2, <2>3
<1> HIDE DEF ms1, ms
<1>18. p \in Nat /\ n \in Nat /\ j \in Nat /\ j + 2 < n /\ Len(ms) = p + (n - j)
  BY <1>3, <1>4
<1>11. /\ \A k \in 1..p : ms1[k] = pre[k]
       /\ ms1[p + 1] = m
       /\ Len(ms1) = (p + 1) + (n - (j + 2))
       /\ \A k \in 1..(n - (j + 2)) : ms1[(p + 1) + k] = ToMessage(h[(j + 2) + k])
  <2>1. \A k \in 1..p : k \in 1..(p + 1) /\ k # p + 1 /\ k \in 1..Len(ms)
    BY <1>2, <1>3, <1>4
  <2>2. p + 1 \in 1..(p + 1)
    BY <1>2
  <2>3. ASSUME NEW k \in 1..(n - (j + 2))
        PROVE  ms1[(p + 1) + k] = ToMessage(h[(j + 2) + k])
    <3>1. /\ (p + 1) + k \in (p + 2)..(Len(ms) - 1) /\ ((p + 1) + k) + 1 = p + (k + 2)
          /\ p + (k + 2) \in 1..Len(ms) /\ p + (k + 2) # p + 1 /\ k + 2 \in 1..(n - j)
          /\ (j + 2) + k = j + (k + 2)
      <4>1. k \in Nat /\ 1 <= k /\ k + j + 2 <= n
        BY <1>18
      <4>2. Len(ms) \in Nat /\ p + k + 2 <= Len(ms)
        BY <1>18, <4>1
      <4>. QED  BY <1>18, <4>1, <4>2
    <3>. QED  BY <1>4, <1>9, <1>10, <3>1
  <2>4. Len(ms1) = (p + 1) + (n - (j + 2))
    BY <1>10, <1>18
  <2>. QED  BY <1>4, <1>9, <1>10, <2>1, <2>2, <2>3, <2>4
<1>12. MergeRound(s) = [ms |-> ms1, i |-> p + 2]
  <2>1. ~(s.i > Len(ms)) /\ s.i = p + 1 /\ (p + 1) - 1 = p /\ (p + 1) + 1 = p + 2
    BY <1>2, <1>3, <1>4
  <2>2. ms[s.i].calls # <<>>
    <3>1. ms[p + 1].calls # <<>>
      BY <1>4
    <3>. QED  BY <2>1, <3>1
  <2>3. ~Standalone(ms1, s.i - 1)
    <3>1. p = 0 => p \notin DOMAIN ms1
      BY <1>10
    <3>2. p # 0 => p \in 1..p /\ p \in DOMAIN ms
      BY <1>2, <1>3, <1>4
    <3>3. p # 0 => ms1[p] = ms[p]
      BY <1>4, <1>11, <3>2
    <3>. QED  BY <1>2, <2>1, <3>1, <3>2, <3>3 DEF Standalone, ms
  <2>4. s.ms = ms
    BY DEF ms
  <2>5. MergeAfter(s.ms, s.i) = ms1
    BY <1>8, <2>1, <2>4
  <2>. QED  BY <2>1, <2>2, <2>3, <2>4, <2>5 DEF MergeRound
<1>13. PICK q \in Seq(Messages) : q = Append(pre, m)
  <2>1. Append(pre, m) \in Seq(Messages)
    BY <1>4, <1>6
  <2>. QED  BY <2>1
<1>14. Len(q) = p + 1 /\ q[p + 1] = m /\ \A k \in 1..p : q[k] = pre[k]
  BY <1>2, <1>4, <1>6, <1>13
<1>15. Laid(h, ms1, q, j + 2)
  <2>1. \A k \in 1..(p + 1) : ms1[k] = q[k]
    <3>1. \A k \in 1..(p + 1) : k \in 1..p \/ k = p + 1
      BY <1>2, UpTo, Zenon
    <3>. QED  BY <1>11, <1>14, <3>1
  <2>2. j + 2 \in 0..Len(h)
    BY <1>1, <1>3
  <2>. QED  BY <1>1, <1>10, <1>11, <1>13, <1>14, <2>1, <2>2 DEF Laid
<1>16. Paired(h, q, j + 2) /\ Loose(h, q, j + 2)
  <2>1. (j + 2) + 1 = j + 3 /\ j + 2 \in Nat /\ j + 2 < Len(h)
    BY <1>1, <1>3
  <2>2. m.calls = <<h[(j + 2) + 1].content>> /\ h[(j + 2) + 1].type = "output"
    BY <1>6, <2>1
  <2>. QED  BY <1>2, <1>4, <1>6, <1>13, <2>1, <2>2, CallDone
<1>17. Said(q) = Written(SubSeq(h, 1, j + 2))
  <2>1. Said(pre) = Written(SubSeq(h, 1, j))
    BY DEF Merged
  <2>2. Said(q) = Said(pre) \o t
    <3>1. Said(Append(pre, m)) = Said(pre) \o m.content
      BY <1>4, <1>6, SaidNext
    <3>. QED  BY <1>6, <1>13, <3>1
  <2>3. Written(SubSeq(h, 1, j + 1)) = Written(SubSeq(h, 1, j))
    <3>1. j < Len(h)
      BY <1>1, <1>3
    <3>. QED  BY <1>3, <3>1, WrittenPrefix
  <2>4. Written(SubSeq(h, 1, j + 2)) = Written(SubSeq(h, 1, j + 1)) \o t
    <3>1. j + 1 < Len(h) /\ j + 1 \in Nat /\ (j + 1) + 1 = j + 2
      BY <1>1, <1>3
    <3>2. Written(SubSeq(h, 1, (j + 1) + 1)) = Written(SubSeq(h, 1, j + 1)) \o h[(j + 1) + 1].content
      BY <3>1, WrittenPrefix
    <3>. QED  BY <3>1, <3>2 DEF t
  <2>. QED  BY <2>1, <2>2, <2>3, <2>4
<1>. QED
  <2>1. [ms |-> ms1, i |-> p + 2].ms = ms1 /\ Len(q) + 1 = p + 2
    BY <1>2, <1>14
  <2>2. Merged(h, MergeRound(s), q, j + 2)
    BY <1>12, <1>15, <1>16, <1>17, <2>1 DEF Merged
  <2>. QED  BY <2>2

\* The text before a call goes into the call, behind what the call has.
LEMMA BehindRound ==
  ASSUME NEW h \in Seq(Items), NEW s, NEW pre, NEW j, Merged(h, s, pre, j), j + 1 < Len(h),
         h[j + 1].type = "call", h[j + 2].type = "output", h[j + 2].content = h[j + 1].id,
         Standalone(s.ms, Len(pre))
  PROVE  \E q : Merged(h, MergeRound(s), q, j + 1)
<1> DEFINE ms == s.ms
           t == ms[Len(pre)].content
           m == [ms[Len(pre) + 1] EXCEPT !.content = t]
           r == [ms EXCEPT ![Len(pre) + 1] = m]
           ms1 == RemoveAt(r, Len(pre))
           base == SubSeq(pre, 1, Len(pre) - 1)
<1>1. PICK n \in Nat : n = Len(h)
  OBVIOUS
<1>0. CallAt(h, s, pre, j)
  <2>1. j \in Nat
    BY <1>1 DEF Merged, Laid
  <2>2. j < Len(h)
    BY <1>1, <2>1
  <2>. QED  BY <2>2, AtCall
<1>2. PICK p \in Nat : p = Len(pre)
  BY <1>0 DEF CallAt
<1>3. j \in Nat /\ j + 1 < n /\ j + 1 \in 1..n /\ j + 2 \in 1..n
  <2>1. j \in Nat
    BY <1>0 DEF CallAt
  <2>. QED  BY <1>1, <2>1
<1>4. /\ pre \in Seq(Messages) /\ ms \in Seq(Messages) /\ Len(ms) = p + (n - j)
      /\ s = [ms |-> ms, i |-> p + 1] /\ s.i = p + 1
      /\ (\A k \in 1..p : ms[k] = pre[k])
      /\ (\A k \in 1..(n - j) : ms[p + k] = ToMessage(h[j + k]))
      /\ h[j + 1] \in Items
      /\ ms[p + 1] = [role |-> "assistant", content |-> <<>>, calls |-> <<h[j + 1].id>>]
      /\ \A k \in 1..p : pre[k].calls # <<>> =>
           k < p /\ pre[k + 1].role = "tool" /\ pre[k].calls = <<pre[k + 1].content>>
  BY <1>0, <1>1, <1>2 DEF CallAt
<1>5. /\ p \in 1..p /\ p \in 1..Len(ms) /\ p + 1 \in 1..Len(ms)
      /\ p \in Nat /\ n \in Nat /\ j \in Nat /\ j + 1 < n /\ Len(ms) = p + (n - j)
  <2>1. p # 0
    <3>1. p \in DOMAIN s.ms
      BY <1>2 DEF Standalone
    <3>. QED  BY <1>4, <3>1
  <2>. QED  BY <1>2, <1>3, <1>4, <2>1
<1>6. /\ ms[p] = pre[p] /\ pre[p] \in Messages /\ ms[p].role = "assistant" /\ ms[p].calls = <<>>
      /\ ms[p].content = t /\ t \in Seq(Marks)
      /\ ms[p + 1] \in Messages /\ h[j + 1].id \in Seq(Marks)
  <2>1. ms[p] = pre[p] /\ pre[p] \in Messages
    BY <1>2, <1>4, <1>5
  <2>2. ms[p].role = "assistant" /\ ms[p].calls = <<>>
    BY <1>2 DEF Standalone
  <2>3. ms[p].content = t
    BY <1>2
  <2>4. h[j + 1].id \in Seq(Marks) /\ pre[p].content \in Seq(Marks)
    BY <1>4, <2>1 DEF Items, Messages
  <2>5. ms[p + 1] \in Messages
    <3> HIDE DEF ms
    <3>. QED  BY <1>4, <1>5
  <2>. QED  BY <2>1, <2>2, <2>3, <2>4, <2>5
<1>7. m \in Messages /\ m.role = "assistant" /\ m.calls = <<h[j + 1].id>> /\ m.content = t
  <2>1. ms[p + 1].role = "assistant" /\ ms[p + 1].calls = <<h[j + 1].id>>
    BY <1>4
  <2>2. m = [ms[p + 1] EXCEPT !.content = t]
    BY <1>2
  <2> HIDE DEF m, ms, t
  <2>3. PICK x \in Messages : x = ms[p + 1]
    BY <1>6
  <2>4. PICK id \in Seq(Marks) : id = h[j + 1].id
    BY <1>6
  <2>5. x.role = "assistant" /\ x.calls = <<id>> /\ t \in Seq(Marks)
    BY <1>6, <2>1, <2>3, <2>4
  <2>6. /\ [x EXCEPT !.content = t] \in Messages /\ [x EXCEPT !.content = t].content = t
        /\ [x EXCEPT !.content = t].role = "assistant" /\ [x EXCEPT !.content = t].calls = <<id>>
    BY <2>4, <2>5, CallMessage
  <2>. QED  BY <2>2, <2>3, <2>4, <2>6
<1>8. MergeAfter(ms, p + 1) = ms
  <2>1. 2 \in 1..(n - j) /\ p + 2 = (p + 1) + 1
    BY <1>5
  <2>2. ms[(p + 1) + 1].role = "tool"
    <3>1. h[j + 2] \in Items
      BY <1>1, <1>3
    <3>2. ToMessage(h[j + 2]).role = "tool"
      BY <3>1, MessageType
    <3>. QED  BY <1>4, <2>1, <3>2
  <2>. QED  BY <2>2 DEF MergeAfter, Standalone
<1> HIDE DEF m, t
<1>9. /\ r \in Seq(Messages) /\ Len(r) = Len(ms) /\ r[p + 1] = m
      /\ \A k \in 1..Len(ms) : k # p + 1 => r[k] = ms[k]
  <2> HIDE DEF ms
  <2>. QED  BY <1>2, <1>4, <1>5, <1>7, Replacement
<1>10. MergeRound(s) = [ms |-> ms1, i |-> p + 1]
  <2>1. ~(s.i > Len(ms)) /\ s.i = p + 1 /\ (p + 1) - 1 = p
    BY <1>4, <1>5
  <2>2. ms[s.i].calls # <<>>
    <3>1. ms[p + 1].calls # <<>>
      BY <1>4
    <3>. QED  BY <2>1, <3>1
  <2>3. Standalone(ms, s.i - 1) /\ MergeAfter(ms, s.i) = ms
    BY <1>2, <1>8, <2>1
  <2>4. [ms EXCEPT ![s.i].content = @ \o ms[s.i - 1].content] = r
    <3>1. ms[p + 1].content \o ms[p].content = t
      BY <1>4, <1>6
    <3> HIDE DEF ms
    <3>. QED  BY <1>2, <2>1, <3>1 DEF m
  <2>5. s.ms = ms
    OBVIOUS
  <2> HIDE DEF ms, r
  <2>6. MergeRound(s) =
          [ms |-> RemoveAt([ms EXCEPT ![s.i].content = @ \o ms[s.i - 1].content], s.i - 1), i |-> s.i]
    BY <2>1, <2>2, <2>3, <2>5 DEF MergeRound
  <2>7. ms1 = RemoveAt(r, p)
    BY <1>2
  <2>. QED  BY <2>1, <2>4, <2>6, <2>7
<1> HIDE DEF r
<1>11. /\ ms1 \in Seq(Messages) /\ Len(ms1) = Len(ms) - 1
       /\ \A k \in 1..(p - 1) : ms1[k] = r[k]
       /\ \A k \in p..(Len(ms) - 1) : ms1[k] = r[k + 1]
  <2> HIDE DEF ms
  <2>2. ms1 = RemoveAt(r, p) /\ p \in 1..Len(r)
    BY <1>2, <1>5, <1>9
  <2>3. /\ RemoveAt(r, p) \in Seq(Messages) /\ Len(RemoveAt(r, p)) = Len(r) - 1
        /\ \A k \in 1..(p - 1) : RemoveAt(r, p)[k] = r[k]
        /\ \A k \in p..(Len(r) - 1) : RemoveAt(r, p)[k] = r[k + 1]
    BY <1>9, <2>2, Removal
  <2>. QED  BY <1>9, <2>2, <2>3
<1> HIDE DEF ms1
<1>12. PICK b \in Seq(Messages) : b = base /\ Len(b) = p - 1 /\ \A k \in 1..(p - 1) : b[k] = pre[k]
  <2>1. base \in Seq(Messages) /\ Len(base) = p - 1 /\ \A k \in 1..(p - 1) : base[k] = pre[k]
    BY <1>2, <1>4, <1>5
  <2>. QED  BY <2>1
<1>13. PICK q \in Seq(Messages) : q = Append(b, m)
  <2>1. Append(b, m) \in Seq(Messages)
    BY <1>7, <1>12
  <2>. QED  BY <2>1
<1>14. Len(q) = p /\ q[p] = m /\ \A k \in 1..(p - 1) : q[k] = pre[k]
  BY <1>5, <1>7, <1>12, <1>13
<1> HIDE DEF ms, base
<1>15. Laid(h, ms1, q, j + 1)
  <2>1. ASSUME NEW k \in 1..p
        PROVE  ms1[k] = q[k]
    <3>1. CASE k = p
      <4>1. p \in p..(Len(ms) - 1)
        BY <1>5
      <4>. QED  BY <1>9, <1>11, <1>14, <3>1, <4>1
    <3>2. CASE k # p
      <4>1. k \in 1..(p - 1) /\ k \in 1..Len(ms) /\ k # p + 1
        BY <1>5, <3>2
      <4>. QED  BY <1>4, <1>9, <1>11, <1>14, <4>1
    <3>. QED  BY <3>1, <3>2
  <2>2. ASSUME NEW k \in 1..(n - (j + 1))
        PROVE  ms1[p + k] = ToMessage(h[(j + 1) + k])
    <3>1. k \in Nat /\ 1 <= k /\ k + j + 1 <= n /\ Len(ms) \in Nat /\ p + k + 1 <= Len(ms)
      BY <1>5
    <3>2. /\ p + k \in p..(Len(ms) - 1) /\ (p + k) + 1 = p + (k + 1)
          /\ p + (k + 1) \in 1..Len(ms) /\ p + (k + 1) # p + 1 /\ k + 1 \in 1..(n - j)
          /\ (j + 1) + k = j + (k + 1)
      BY <1>5, <3>1
    <3>. QED  BY <1>4, <1>9, <1>11, <3>2
  <2>3. j + 1 \in 0..Len(h) /\ Len(ms1) = Len(q) + (Len(h) - (j + 1))
    BY <1>1, <1>5, <1>11, <1>14
  <2>. QED  BY <1>1, <1>11, <1>13, <1>14, <2>1, <2>2, <2>3 DEF Laid
<1>16. Paired(h, q, j + 1) /\ Loose(h, q, j + 1)
  <2>1. (j + 1) + 1 = j + 2 /\ j + 1 \in Nat /\ j + 1 < Len(h)
    BY <1>1, <1>3
  <2>2. m.calls = <<h[(j + 1) + 1].content>> /\ h[(j + 1) + 1].type = "output"
    BY <1>7, <2>1
  <2>3. ASSUME NEW k \in 1..(p - 1), b[k].calls # <<>>
        PROVE  k < p - 1 /\ b[k + 1].role = "tool" /\ b[k].calls = <<b[k + 1].content>>
    <3>1. k \in 1..p /\ pre[k].calls # <<>> /\ b[k] = pre[k]
      BY <1>5, <1>12, <2>3
    <3>2. pre[k + 1].role = "tool" /\ pre[k].calls = <<pre[k + 1].content>>
      BY <1>4, <3>1
    <3>3. k + 1 # p
      BY <1>6, <3>2
    <3>4. k + 1 \in 1..(p - 1)
      BY <1>5, <3>3
    <3>. QED  BY <1>5, <1>12, <3>1, <3>2, <3>4
  <2>. QED  BY <1>7, <1>12, <1>13, <2>1, <2>2, <2>3, CallDone
<1>17. Said(q) = Written(SubSeq(h, 1, j + 1))
  <2>1. Said(pre) = Written(SubSeq(h, 1, j))
    BY DEF Merged
  <2>2. Said(q) = Said(b) \o t
    <3>1. Said(Append(b, m)) = Said(b) \o m.content
      BY <1>7, <1>12, SaidNext
    <3>. QED  BY <1>7, <1>13, <3>1
  <2>3. Said(pre) = Said(b) \o t
    <3>1. pre = Append(b, pre[p])
      BY <1>2, <1>4, <1>5, <1>12 DEF base
    <3>2. Said(Append(b, pre[p])) = Said(b) \o pre[p].content
      BY <1>6, <1>12, SaidNext
    <3>. QED  BY <1>6, <3>1, <3>2
  <2>4. Written(SubSeq(h, 1, j + 1)) = Written(SubSeq(h, 1, j))
    <3>1. j < Len(h)
      BY <1>1, <1>3
    <3>. QED  BY <1>3, <3>1, WrittenPrefix
  <2>. QED  BY <2>1, <2>2, <2>3, <2>4
<1>. QED
  <2>1. [ms |-> ms1, i |-> p + 1].ms = ms1 /\ Len(q) + 1 = p + 1
    BY <1>14
  <2>2. Merged(h, MergeRound(s), q, j + 1)
    BY <1>10, <1>15, <1>16, <1>17, <2>1 DEF Merged
  <2>. QED  BY <2>2

\* One round: it finishes at least one item more.
LEMMA Round ==
  ASSUME NEW h \in Seq(Items), Answered(h), NEW s, NEW pre, NEW j, Merged(h, s, pre, j), j < Len(h)
  PROVE  \E q, l : l \in (j + 1)..Len(h) /\ Merged(h, MergeRound(s), q, l)
<1>1. PICK n \in Nat : n = Len(h)
  OBVIOUS
<1>2. j \in Nat /\ j + 1 \in 1..n /\ j + 1 \in (j + 1)..n
  <2>1. j \in 0..n
    BY <1>1 DEF Merged, Laid
  <2>. QED  BY <1>1, <2>1
<1>3. CASE h[j + 1].type # "call"
  BY <1>1, <1>2, <1>3, PlainRound
<1>4. CASE h[j + 1].type = "call"
  <2>1. (j + 1) + 1 = j + 2 /\ (j + 1) + 2 = j + 3 /\ (j + 1) - 1 = j /\ j + 1 \in DOMAIN h
    BY <1>1, <1>2
  <2>2. \/ j + 2 \in DOMAIN h /\ h[j + 2].type = "output" /\ h[j + 2].content = h[j + 1].id
        \/ /\ j + 3 \in DOMAIN h /\ h[j + 2].type = "text"
           /\ h[j + 3].type = "output" /\ h[j + 3].content = h[j + 1].id
           /\ j + 1 = 1 \/ h[j].type # "text"
    BY <1>4, <2>1 DEF Answered
  <2>3. CASE j + 2 \in DOMAIN h /\ h[j + 2].type = "output" /\ h[j + 2].content = h[j + 1].id
    <3>1. j + 1 < Len(h)
      BY <1>1, <1>2, <2>3
    <3>2. CASE Standalone(s.ms, Len(pre))
      BY <1>1, <1>2, <1>4, <2>3, <3>1, <3>2, BehindRound
    <3>3. CASE ~Standalone(s.ms, Len(pre))
      BY <1>1, <1>2, <1>4, <2>3, <3>1, <3>3, AloneRound
    <3>. QED  BY <3>2, <3>3
  <2>4. CASE /\ j + 3 \in DOMAIN h /\ h[j + 2].type = "text"
             /\ h[j + 3].type = "output" /\ h[j + 3].content = h[j + 1].id
             /\ j + 1 = 1 \/ h[j].type # "text"
    <3>1. j + 2 < Len(h) /\ j + 2 \in (j + 1)..n
      BY <1>1, <1>2, <2>4
    <3>2. ~Standalone(s.ms, Len(pre))
      <4>1. CallAt(h, s, pre, j)
        BY <1>1, <1>2, <1>4, AtCall
      <4>2. Loose(h, pre, j)
        BY DEF Merged
      <4>6. Len(pre) \in Nat /\ \A k \in 1..Len(pre) : s.ms[k] = pre[k]
        BY <4>1 DEF CallAt
      <4>3. Len(pre) > 0 => Len(pre) \in 1..Len(pre) /\ s.ms[Len(pre)] = pre[Len(pre)]
        BY <4>6
      <4>4. Len(pre) = 0 => Len(pre) \notin DOMAIN s.ms
        BY <4>1 DEF CallAt
      <4>5. Len(pre) > 0 \/ Len(pre) = 0
        BY <4>6
      <4>. QED  BY <1>2, <2>4, <4>2, <4>3, <4>4, <4>5 DEF Loose, Standalone
    <3>. QED  BY <1>1, <1>4, <2>4, <3>1, <3>2, BeforeRound
  <2>. QED  BY <2>2, <2>3, <2>4
<1>. QED  BY <1>3, <1>4

\* What the loop has before its first round.
Unmerged(h) == [ms |-> [n \in DOMAIN h |-> ToMessage(h[n])], i |-> 1]

\* The rounds are what MergeRound makes of each other.
LEMMA MergingIs ==
  ASSUME NEW h \in Seq(Items)
  PROVE  /\ Merging(h)[0] = Unmerged(h)
         /\ \A k \in 1..Len(h) : Merging(h)[k] = MergeRound(Merging(h)[k - 1])
<1>1. PICK n \in Nat : n = Len(h)
  OBVIOUS
<1> DEFINE Upto(f, m) == f = [k \in 0..m |-> IF k = 0 THEN Unmerged(h) ELSE MergeRound(f[k - 1])]
           S == {m \in Nat : \E f : Upto(f, m)}
<1>2. 0 \in S
  <2> DEFINE f == [k \in 0..0 |-> Unmerged(h)]
  <2>1. Upto(f, 0)
    OBVIOUS
  <2> HIDE DEF f, Upto
  <2>. QED  BY <2>1
<1>3. ASSUME NEW m \in Nat, m \in S
      PROVE  m + 1 \in S
  <2>1. PICK f : Upto(f, m)
    BY <1>3
  <2> DEFINE g == [k \in 0..(m + 1) |-> IF k = m + 1 THEN MergeRound(f[m]) ELSE f[k]]
  <2>2. ASSUME NEW k \in 0..(m + 1)
        PROVE  g[k] = IF k = 0 THEN Unmerged(h) ELSE MergeRound(g[k - 1])
    <3>1. CASE k = m + 1
      <4>1. k # 0 /\ k - 1 = m /\ m \in 0..(m + 1) /\ m # m + 1
        BY <3>1
      <4>. QED  BY <3>1, <4>1
    <3>2. CASE k = 0
      <4>1. 0 \in 0..m /\ 0 # m + 1
        OBVIOUS
      <4>2. f[0] = Unmerged(h)
        BY <2>1, <4>1
      <4>. QED  BY <3>2, <4>1, <4>2
    <3>3. CASE k # 0 /\ k # m + 1
      <4>1. k \in 0..m /\ k - 1 \in 0..(m + 1) /\ k - 1 # m + 1
        BY <3>3
      <4>2. f[k] = MergeRound(f[k - 1])
        BY <2>1, <3>3, <4>1
      <4>. QED  BY <3>3, <4>1, <4>2
    <3>. QED  BY <3>1, <3>2, <3>3
  <2>3. Upto(g, m + 1)
    BY <2>2
  <2> HIDE DEF g, Upto
  <2>. QED  BY <2>3
<1>4. \A m \in Nat : m \in S => m + 1 \in S
  BY <1>3
<1> HIDE DEF S
<1>5. n \in S
  BY <1>1, <1>2, <1>4, Induction
<1>6. \E f : Upto(f, n)
  BY <1>5 DEF S
<1>7. Merging(h) = CHOOSE f : Upto(f, n)
  BY <1>1 DEF Merging, Unmerged
<1>8. Upto(Merging(h), n)
  <2> HIDE DEF Upto
  <2>. QED  BY <1>6, <1>7
<1>9. 0 \in 0..n /\ \A k \in 1..n : k \in 0..n /\ k # 0
  BY <1>1
<1>. QED  BY <1>1, <1>8, <1>9

\* After the last round all is merged.
LEMMA MergingHolds ==
  ASSUME NEW h \in Seq(Items), Answered(h)
  PROVE  \E pre : Merged(h, Merging(h)[Len(h)], pre, Len(h))
<1>1. PICK n \in Nat : n = Len(h)
  OBVIOUS
<1> DEFINE Done(k) == \E pre, j : j \in k..n /\ Merged(h, Merging(h)[k], pre, j)
           S == {k \in Nat : k <= n => Done(k)}
<1>2. Done(0)
  <2>1. Merging(h)[0] = Unmerged(h)
    BY MergingIs
  <2>2. \A k \in 1..n : ToMessage(h[k]) \in Messages
    BY <1>1, MessageType
  <2>3. PICK ms \in Seq(Messages) : ms = [k \in DOMAIN h |-> ToMessage(h[k])]
    <3>1. [k \in 1..n |-> ToMessage(h[k])] \in Seq(Messages)
      BY <2>2
    <3>2. DOMAIN h = 1..n
      BY <1>1
    <3>. QED  BY <3>1, <3>2
  <2>4. Len(ms) = n /\ \A k \in 1..n : ms[k] = ToMessage(h[k])
    BY <1>1, <2>3
  <2>5. Laid(h, ms, <<>>, 0)
    <3>1. /\ <<>> \in Seq(Messages) /\ Len(<<>>) = 0 /\ n - 0 = n /\ 0 + n = n /\ 0 \in 0..n
          /\ 1..0 = {} /\ \A k \in 1..n : 0 + k = k
      BY <1>1
    <3>. QED  BY <1>1, <2>4, <3>1 DEF Laid
  <2>6. Paired(h, <<>>, 0) /\ Loose(h, <<>>, 0)
    BY DEF Paired, Loose
  <2>7. Said(<<>>) = Written(SubSeq(h, 1, 0))
    <3>1. SubSeq(h, 1, 0) = <<>>
      BY <1>1
    <3>. QED  BY <3>1, NothingSaid
  <2>8. Unmerged(h) = [ms |-> ms, i |-> Len(<<>>) + 1]
    BY <2>3 DEF Unmerged
  <2>9. Merged(h, Unmerged(h), <<>>, 0)
    BY <2>5, <2>6, <2>7, <2>8 DEF Merged
  <2>. QED  BY <1>1, <2>1, <2>9
<1>3. ASSUME NEW k \in Nat, Done(k), k + 1 <= n
      PROVE  Done(k + 1)
  <2>1. PICK pre, j : j \in k..n /\ Merged(h, Merging(h)[k], pre, j)
    BY <1>3
  <2>2. Merging(h)[k + 1] = MergeRound(Merging(h)[k])
    <3>1. k + 1 \in 1..n /\ (k + 1) - 1 = k
      BY <1>1, <1>3
    <3>2. Merging(h)[k + 1] = MergeRound(Merging(h)[(k + 1) - 1])
      BY <1>1, <3>1, MergingIs
    <3>. QED  BY <3>1, <3>2
  <2>3. CASE j < n
    <3>1. PICK q, l : l \in (j + 1)..n /\ Merged(h, MergeRound(Merging(h)[k]), q, l)
      BY <1>1, <2>1, <2>3, Round
    <3>2. l \in (k + 1)..n
      BY <1>1, <2>1, <3>1
    <3>. QED  BY <2>2, <3>1, <3>2
  <2>4. CASE ~(j < n)
    <3>1. j = n /\ n \in (k + 1)..n
      BY <1>1, <1>3, <2>1, <2>4
    <3>2. MergeRound(Merging(h)[k]) = Merging(h)[k]
      <4>1. PICK s : s = Merging(h)[k]
        OBVIOUS
      <4>2. s.i = Len(pre) + 1 /\ pre \in Seq(Messages) /\ Len(s.ms) = Len(pre) + (n - n)
        <5>1. s = [ms |-> s.ms, i |-> Len(pre) + 1]
          BY <2>1, <4>1 DEF Merged
        <5>2. Laid(h, s.ms, pre, n)
          BY <2>1, <3>1, <4>1 DEF Merged
        <5>3. s.i = Len(pre) + 1
          BY <5>1
        <5>. QED  BY <1>1, <5>2, <5>3 DEF Laid
      <4>3. s.i > Len(s.ms)
        BY <1>1, <4>2
      <4>. QED  BY <4>1, <4>3 DEF MergeRound
    <3>. QED  BY <2>1, <2>2, <3>1, <3>2
  <2>. QED  BY <2>3, <2>4
<1> HIDE DEF Done
<1>4. ASSUME NEW k \in Nat, k \in S
      PROVE  k + 1 \in S
  <2>1. k + 1 <= n => k <= n
    BY <1>1
  <2>. QED  BY <1>3, <1>4, <2>1
<1>5. \A k \in Nat : k \in S => k + 1 \in S
  BY <1>4
<1>6. 0 \in S
  BY <1>2
<1> HIDE DEF S
<1>7. n \in S
  BY <1>1, <1>5, <1>6, Induction
<1>8. PICK pre, j : j \in n..n /\ Merged(h, Merging(h)[n], pre, j)
  BY <1>1, <1>7 DEF S, Done
<1>. QED  BY <1>1, <1>8

\* What the loop makes of a conversation in which every call is answered.
LEMMA ChatBody ==
  ASSUME NEW h \in Seq(Items), Answered(h)
  PROVE  /\ \A k \in DOMAIN buildChatBody(h) : buildChatBody(h)[k].calls # <<>> =>
              /\ k < Len(buildChatBody(h)) /\ buildChatBody(h)[k + 1].role = "tool"
              /\ <<buildChatBody(h)[k + 1].content>> = buildChatBody(h)[k].calls
         /\ Said(buildChatBody(h)) = Written(h)
<1>1. PICK n \in Nat : n = Len(h)
  OBVIOUS
<1>2. PICK pre : Merged(h, Merging(h)[n], pre, n)
  BY <1>1, MergingHolds
<1>3. PICK ms : ms = buildChatBody(h)
  OBVIOUS
<1>4. ms = Merging(h)[n].ms
  BY <1>1, <1>3 DEF buildChatBody
<1>5. /\ pre \in Seq(Messages) /\ ms \in Seq(Messages) /\ Len(ms) = Len(pre) + (n - n)
      /\ \A k \in 1..Len(pre) : ms[k] = pre[k]
  BY <1>1, <1>2, <1>4 DEF Merged, Laid
<1>6. ms = pre
  BY <1>1, <1>5
<1>7. Said(pre) = Written(h)
  <2>1. SubSeq(h, 1, n) = h
    BY <1>1
  <2>. QED  BY <1>2, <2>1 DEF Merged
<1>8. ASSUME NEW k \in 1..Len(pre), pre[k].calls # <<>>
      PROVE  k < Len(pre) /\ pre[k + 1].role = "tool" /\ <<pre[k + 1].content>> = pre[k].calls
  <2>1. k # Len(pre)
    BY <1>1, <1>2, <1>8 DEF Merged, Paired
  <2>2. k < Len(pre)
    BY <1>5, <2>1
  <2>. QED  BY <1>2, <1>8, <2>1, <2>2 DEF Merged, Paired
<1>. QED  BY <1>3, <1>5, <1>6, <1>7, <1>8

-----------------------------------------------------------------------------
(* The conversation *)

\* What Codex keeps of an item: the item itself.
KeptItem(item) == [type |-> item.id[1], id |-> item.id, content |-> item.content]
KeptItems(output) == [k \in DOMAIN output |-> KeptItem(output[k])]
ResultsOf(output) == FlattenSeq([k \in DOMAIN output |-> Result(output[k])])

\* An item of an answer: a text or a call.
Answers == {item \in [id : Seq(Marks), content : Seq(Marks)] :
              item.id[1] \in {"text", "call"}}

\* One item more adds its result.
LEMMA ResultsNext ==
  ASSUME NEW output \in Seq(Answers), NEW item \in Answers
  PROVE  /\ ResultsOf(output) \in Seq(Items)
         /\ ResultsOf(Append(output, item)) = ResultsOf(output) \o Result(item)
<1> DEFINE f == [x \in Answers |-> Result(x)]
<1>1. Gives(f, Answers, Items)
  <2>1. ASSUME NEW x \in Answers
        PROVE  [type |-> "output", id |-> x.id, content |-> x.id] \in Items
    BY DEF Answers, Items
  <2>. QED  BY <2>1 DEF Result, Gives
<1>2. ASSUME NEW z \in Seq(Answers)
      PROVE  ResultsOf(z) = Gather(f, z)
  <2>1. \A k \in DOMAIN z : z[k] \in Answers
    OBVIOUS
  <2>. QED  BY <2>1 DEF ResultsOf, Gather
<1>3. f[item] = Result(item)
  OBVIOUS
<1> HIDE DEF f
<1>4. Grows(f, Items, output, item)
  BY <1>1, GatherNext
<1>5. Append(output, item) \in Seq(Answers)
  OBVIOUS
<1>. QED  BY <1>2, <1>3, <1>4, <1>5 DEF Grows

\* Of no items nothing is kept.
LEMMA NoResults == ResultsOf(<<>>) = <<>> /\ KeptItems(<<>>) = <<>>
<1>1. [k \in DOMAIN <<>> |-> Result(<<>>[k])] = <<>> /\ KeptItems(<<>>) = <<>>
  BY DEF KeptItems
<1>. QED  BY <1>1, FlattenNothing DEF ResultsOf

\* What is kept are items.
LEMMA ResultsType ==
  ASSUME NEW output \in Seq(Answers)
  PROVE  ResultsOf(output) \in Seq(Items) /\ KeptItems(output) \in Seq(Items)
<1>1. [id |-> <<"text">>, content |-> <<>>] \in Answers
  <2>1. <<"text">> \in Seq(Marks) /\ <<"text">>[1] = "text"
    <3>1. "text" \in Marks
      BY DEF Marks
    <3>. QED  BY <3>1
  <2>. QED  BY <2>1 DEF Answers
<1>2. \A k \in DOMAIN output : KeptItem(output[k]) \in Items
  <2>1. ASSUME NEW k \in DOMAIN output
        PROVE  KeptItem(output[k]) \in Items
    <3>1. output[k] \in Answers
      OBVIOUS
    <3>. QED  BY <3>1 DEF Answers, KeptItem, Items
  <2>. QED  BY <2>1
<1>3. PICK n \in Nat : n = Len(output)
  OBVIOUS
<1>4. [k \in 1..n |-> KeptItem(output[k])] \in Seq(Items)
  BY <1>2, <1>3
<1>5. DOMAIN output = 1..n
  BY <1>3
<1>6. KeptItems(output) \in Seq(Items)
  BY <1>4, <1>5 DEF KeptItems
<1>. QED  BY <1>1, <1>6, ResultsNext

\* Where the elements of a joined sequence come from.
LEMMA Joined ==
  ASSUME NEW S, NEW a \in Seq(S), NEW b \in Seq(S)
  PROVE  /\ a \o b \in Seq(S) /\ Len(a \o b) = Len(a) + Len(b)
         /\ \A k \in 1..Len(a) : (a \o b)[k] = a[k]
         /\ \A k \in 1..Len(b) : (a \o b)[Len(a) + k] = b[k]
<1>1. /\ a \o b \in Seq(S) /\ Len(a \o b) = Len(a) + Len(b)
      /\ \A k \in 1..(Len(a) + Len(b)) : (a \o b)[k] = IF k <= Len(a) THEN a[k] ELSE b[k - Len(a)]
  BY ConcatProperties
<1>2. PICK m \in Nat : m = Len(a)
  OBVIOUS
<1>3. PICK n \in Nat : n = Len(b)
  OBVIOUS
<1>4. ASSUME NEW k \in 1..m
      PROVE  (a \o b)[k] = a[k]
  <2>1. k \in 1..(m + n) /\ k <= m
    BY <1>2, <1>3
  <2>. QED  BY <1>1, <1>2, <1>3, <2>1
<1>5. ASSUME NEW k \in 1..n
      PROVE  (a \o b)[m + k] = b[k]
  <2>1. m + k \in 1..(m + n) /\ ~(m + k <= m) /\ (m + k) - m = k
    BY <1>2, <1>3
  <2>2. (a \o b)[m + k] = b[(m + k) - m]
    BY <1>1, <1>2, <1>3, <2>1
  <2>. QED  BY <2>1, <2>2
<1>. QED  BY <1>1, <1>2, <1>3, <1>4, <1>5

\* A sequence of one element,
LEMMA OneLong ==
  ASSUME NEW S, NEW s \in Seq(S), Len(s) = 1
  PROVE  s = <<s[1]>>
OBVIOUS

\* of two,
LEMMA TwoLong ==
  ASSUME NEW S, NEW s \in Seq(S), Len(s) = 2
  PROVE  s = <<s[1], s[2]>>
OBVIOUS

\* and of three.
LEMMA ThreeLong ==
  ASSUME NEW S, NEW s \in Seq(S), Len(s) = 3
  PROVE  s = <<s[1], s[2], s[3]>>
OBVIOUS

\* One element joined to another,
LEMMA OneMore ==
  ASSUME NEW S, NEW a \in S, NEW b \in S
  PROVE  <<a>> \o <<b>> = <<a, b>> /\ Append(<<a>>, b) = <<a, b>>
<1>1. <<a>> \in Seq(S) /\ <<b>> \in Seq(S)
  OBVIOUS
<1>2. PICK s \in Seq(S) : s = <<a>> /\ Len(s) = 1 /\ s[1] = a
  BY <1>1
<1>3. PICK t \in Seq(S) : t = <<b>> /\ Len(t) = 1 /\ t[1] = b
  BY <1>1
<1>4. s \o t \in Seq(S) /\ Len(s \o t) = 1 + 1 /\ (s \o t)[1] = a
  BY <1>2, <1>3, Joined
<1>5. (s \o t)[1 + 1] = b
  <2>1. \A k \in 1..Len(t) : (s \o t)[Len(s) + k] = t[k]
    BY Joined
  <2>2. (s \o t)[Len(s) + 1] = t[1]
    BY <1>3, <2>1
  <2>. QED  BY <1>2, <1>3, <2>2
<1>6. PICK z \in Seq(S) : z = s \o t
  BY <1>4
<1>7. z = <<z[1], z[2]>>
  <2>1. Len(z) = 2
    BY <1>4, <1>6
  <2>. QED  BY <2>1, TwoLong
<1>8. z = <<a, b>>
  BY <1>4, <1>5, <1>6, <1>7
<1>9. Append(s, b) \in Seq(S) /\ Len(Append(s, b)) = 2 /\ Append(s, b)[1] = a /\ Append(s, b)[2] = b
  BY <1>2
<1>10. PICK y \in Seq(S) : y = Append(s, b)
  BY <1>9
<1>11. y = <<a, b>>
  BY <1>9, <1>10, TwoLong
<1>. QED  BY <1>2, <1>3, <1>6, <1>8, <1>10, <1>11

\* and to two.
LEMMA TwoMore ==
  ASSUME NEW S, NEW a \in S, NEW b \in S, NEW c \in S
  PROVE  <<a, b>> \o <<c>> = <<a, b, c>>
<1>1. <<a, b>> \in Seq(S) /\ <<c>> \in Seq(S)
  OBVIOUS
<1>2. PICK s \in Seq(S) : s = <<a, b>> /\ Len(s) = 2 /\ s[1] = a /\ s[2] = b
  BY <1>1
<1>3. PICK t \in Seq(S) : t = <<c>> /\ Len(t) = 1 /\ t[1] = c
  BY <1>1
<1>4. s \o t \in Seq(S) /\ Len(s \o t) = 2 + 1 /\ (s \o t)[1] = a /\ (s \o t)[2] = b
  <2>1. s \o t \in Seq(S) /\ Len(s \o t) = Len(s) + Len(t) /\ \A k \in 1..Len(s) : (s \o t)[k] = s[k]
    BY Joined
  <2>2. 1 \in 1..Len(s) /\ 2 \in 1..Len(s)
    BY <1>2
  <2>. QED  BY <1>2, <1>3, <2>1, <2>2
<1>5. (s \o t)[2 + 1] = c
  <2>1. \A k \in 1..Len(t) : (s \o t)[Len(s) + k] = t[k]
    BY Joined
  <2>2. (s \o t)[Len(s) + 1] = t[1]
    BY <1>3, <2>1
  <2>. QED  BY <1>2, <1>3, <2>2
<1>6. PICK z \in Seq(S) : z = s \o t
  BY <1>4
<1>7. z = <<z[1], z[2], z[3]>>
  <2>1. Len(z) = 3
    BY <1>4, <1>6
  <2>. QED  BY <2>1, ThreeLong
<1>8. z = <<a, b, c>>
  BY <1>4, <1>5, <1>6, <1>7
<1>. QED  BY <1>2, <1>3, <1>6, <1>8

\* One item and its result, or two.
LEMMA OneKept ==
  ASSUME NEW item \in Answers
  PROVE  KeptItems(<<item>>) = <<KeptItem(item)>> /\ ResultsOf(<<item>>) = Result(item)
<1>1. KeptItems(<<item>>) = <<KeptItem(item)>>
  BY DEF KeptItems
<1>2. Append(<<>>, item) = <<item>> /\ <<>> \in Seq(Answers)
  OBVIOUS
<1>3. ResultsOf(<<item>>) = ResultsOf(<<>>) \o Result(item)
  BY <1>2, ResultsNext
<1>4. Result(item) \in Seq(Items)
  <2>1. [type |-> "output", id |-> item.id, content |-> item.id] \in Items
    BY DEF Answers, Items
  <2>. QED  BY <2>1 DEF Result
<1>5. <<>> \o Result(item) = Result(item)
  BY <1>4
<1>. QED  BY <1>1, <1>3, <1>5, NoResults

\* Two items and their results.
LEMMA TwoKept ==
  ASSUME NEW item \in Answers, NEW other \in Answers
  PROVE  /\ KeptItems(<<item, other>>) = <<KeptItem(item), KeptItem(other)>>
         /\ ResultsOf(<<item, other>>) = Result(item) \o Result(other)
<1>1. KeptItems(<<item, other>>) = <<KeptItem(item), KeptItem(other)>>
  BY DEF KeptItems
<1>2. <<item>> \in Seq(Answers)
  OBVIOUS
<1>3. Append(<<item>>, other) = <<item, other>>
  BY OneMore
<1>. QED  BY <1>1, <1>2, <1>3, ResultsNext, OneKept

\* OneAtATime, of any conversation.
Alone(h) == \A k \in 1..(Len(h) - 1) : h[k].type = "call" => h[k + 1].type # "call"

\* Calls that are alone were so before more came.
LEMMA AloneBefore ==
  ASSUME NEW a \in Seq(Items), NEW b \in Seq(Items), Alone(a \o b)
  PROVE  Alone(a)
<1>1. PICK m \in Nat : m = Len(a)
  OBVIOUS
<1>2. PICK n \in Nat : n = Len(b)
  OBVIOUS
<1>3. PICK c \in Seq(Items) : c = a \o b /\ Len(c) = m + n /\ \A k \in 1..m : c[k] = a[k]
  <2>1. a \o b \in Seq(Items) /\ Len(a \o b) = m + n /\ \A k \in 1..m : (a \o b)[k] = a[k]
    BY <1>1, <1>2, Joined
  <2>. QED  BY <2>1
<1>4. ASSUME NEW k \in 1..(m - 1), a[k].type = "call"
      PROVE  a[k + 1].type # "call"
  <2>1. k \in 1..(Len(c) - 1) /\ k \in 1..m /\ k + 1 \in 1..m
    BY <1>1, <1>2, <1>3
  <2>. QED  BY <1>3, <1>4, <2>1 DEF Alone
<1>. QED  BY <1>1, <1>4 DEF Alone

\* Two answered parts are answered together, unless a text meets a call.
LEMMA AnsweredBoth ==
  ASSUME NEW a \in Seq(Items), NEW b \in Seq(Items), Answered(a), Answered(b),
         Len(a) > 0 /\ Len(b) > 0 /\ b[1].type = "call" => a[Len(a)].type # "text"
  PROVE  Answered(a \o b)
<1>1. PICK m \in Nat : m = Len(a)
  OBVIOUS
<1>2. PICK n \in Nat : n = Len(b)
  OBVIOUS
<1>3. PICK c \in Seq(Items) :
        /\ c = a \o b /\ Len(c) = m + n
        /\ (\A k \in 1..m : c[k] = a[k])
        /\ \A k \in 1..n : c[m + k] = b[k]
  <2>1. a \o b \in Seq(Items) /\ Len(a \o b) = m + n /\ \A k \in 1..m : (a \o b)[k] = a[k]
    BY <1>1, <1>2, Joined
  <2>2. \A k \in 1..n : (a \o b)[m + k] = b[k]
    BY <1>1, <1>2, Joined
  <2>. QED  BY <2>1, <2>2
<1>4. DOMAIN a = 1..m /\ DOMAIN b = 1..n /\ DOMAIN c = 1..(m + n)
  BY <1>1, <1>2, <1>3
<1>5. ASSUME NEW k \in 1..m, c[k].type = "call"
      PROVE  \/ k + 1 \in DOMAIN c /\ c[k + 1].type = "output" /\ c[k + 1].content = c[k].id
             \/ /\ k + 2 \in DOMAIN c /\ c[k + 1].type = "text"
                /\ c[k + 2].type = "output" /\ c[k + 2].content = c[k].id
                /\ k = 1 \/ c[k - 1].type # "text"
  <2>1. c[k] = a[k]
    BY <1>3
  <2>2. CASE k + 1 \in 1..m /\ a[k + 1].type = "output" /\ a[k + 1].content = a[k].id
    <3>1. k + 1 \in 1..(m + n)
      BY <1>1, <1>2, <2>2
    <3>. QED  BY <1>3, <1>4, <2>1, <2>2, <3>1
  <2>3. CASE /\ k + 2 \in 1..m /\ a[k + 1].type = "text"
             /\ a[k + 2].type = "output" /\ a[k + 2].content = a[k].id
             /\ k = 1 \/ a[k - 1].type # "text"
    <3>1. k + 2 \in 1..(m + n) /\ k + 1 \in 1..m /\ (k # 1 => k - 1 \in 1..m)
      BY <1>1, <1>2, <2>3
    <3>. QED  BY <1>3, <1>4, <2>1, <2>3, <3>1
  <2>. QED  BY <1>4, <1>5, <2>1, <2>2, <2>3 DEF Answered
<1>6. ASSUME NEW k, NEW l \in 1..n, k = m + l, c[k].type = "call"
      PROVE  \/ k + 1 \in DOMAIN c /\ c[k + 1].type = "output" /\ c[k + 1].content = c[k].id
             \/ /\ k + 2 \in DOMAIN c /\ c[k + 1].type = "text"
                /\ c[k + 2].type = "output" /\ c[k + 2].content = c[k].id
                /\ k = 1 \/ c[k - 1].type # "text"
  <2>1. c[k] = b[l] /\ k + 1 = m + (l + 1) /\ k + 2 = m + (l + 2)
    BY <1>1, <1>2, <1>3, <1>6
  <2>2. CASE l + 1 \in 1..n /\ b[l + 1].type = "output" /\ b[l + 1].content = b[l].id
    <3>1. m + (l + 1) \in 1..(m + n)
      BY <1>1, <1>2, <2>2
    <3>. QED  BY <1>3, <1>4, <2>1, <2>2, <3>1
  <2>3. CASE /\ l + 2 \in 1..n /\ b[l + 1].type = "text"
             /\ b[l + 2].type = "output" /\ b[l + 2].content = b[l].id
             /\ l = 1 \/ b[l - 1].type # "text"
    <3>1. m + (l + 2) \in 1..(m + n) /\ l + 1 \in 1..n
      BY <1>1, <1>2, <2>3
    <3>2. k = 1 \/ c[k - 1].type # "text"
      <4>1. CASE l = 1 /\ m = 0
        BY <1>6, <4>1
      <4>2. CASE l = 1 /\ m # 0
        <5>1. k - 1 = m /\ m \in 1..m /\ Len(a) > 0 /\ Len(b) > 0
          BY <1>1, <1>2, <1>6, <4>2
        <5>2. c[m] = a[m] /\ b[1].type = "call"
          BY <1>3, <1>6, <2>1, <4>2, <5>1
        <5>. QED  BY <1>1, <5>1, <5>2
      <4>3. CASE l # 1
        <5>1. k - 1 = m + (l - 1) /\ l - 1 \in 1..n
          BY <1>1, <1>2, <1>6, <4>3
        <5>. QED  BY <1>3, <2>3, <4>3, <5>1
      <4>. QED  BY <4>1, <4>2, <4>3
    <3>. QED  BY <1>3, <1>4, <2>1, <2>3, <3>1, <3>2
  <2>. QED  BY <1>4, <1>6, <2>1, <2>2, <2>3 DEF Answered
<1>7. \A k \in 1..(m + n) : k \in 1..m \/ \E l \in 1..n : k = m + l
  <2>1. ASSUME NEW k \in 1..(m + n), k \notin 1..m
        PROVE  k - m \in 1..n /\ k = m + (k - m)
    BY <1>1, <1>2, <2>1
  <2>. QED  BY <2>1
<1>8. Answered(c)
  <2>1. ASSUME NEW k \in 1..(m + n), c[k].type = "call"
        PROVE  \/ k + 1 \in DOMAIN c /\ c[k + 1].type = "output" /\ c[k + 1].content = c[k].id
               \/ /\ k + 2 \in DOMAIN c /\ c[k + 1].type = "text"
                  /\ c[k + 2].type = "output" /\ c[k + 2].content = c[k].id
                  /\ k = 1 \/ c[k - 1].type # "text"
    <3>1. CASE k \in 1..m
      BY <1>5, <2>1, <3>1
    <3>2. CASE \E l \in 1..n : k = m + l
      BY <1>6, <2>1, <3>2
    <3>. QED  BY <1>7, <3>1, <3>2
  <2>. QED  BY <1>4, <2>1 DEF Answered
<1>. QED  BY <1>3, <1>8

\* An answer of at most one call, with the text before it or after it.
Single(output) ==
  \/ output = <<>>
  \/ \E x \in Answers : output = <<x>>
  \/ \E x, y \in Answers : output = <<x, y>> /\ x.id[1] # y.id[1]

\* What is kept of it is answered.
LEMMA KeptAnswered ==
  ASSUME NEW output \in Seq(Answers), Single(output)
  PROVE  Answered(KeptItems(output) \o ResultsOf(output))
<1> DEFINE Out(x) == [type |-> "output", id |-> x.id, content |-> x.id]
<1>0. \A x \in Answers : /\ x.id[1] = "call" => Result(x) = <<Out(x)>>
                         /\ x.id[1] = "text" => Result(x) = <<>>
                         /\ KeptItem(x).type = x.id[1] /\ KeptItem(x).id = x.id
                         /\ x.id[1] \in {"call", "text"}
  BY DEF Result, KeptItem, Answers
<1>4. \A x \in Answers : KeptItem(x) \in Items /\ Out(x) \in Items
  BY DEF KeptItem, Answers, Items
<1> HIDE DEF Out
<1>1. CASE output = <<>>
  <2>1. KeptItems(output) \o ResultsOf(output) = <<>>
    BY <1>1, NoResults
  <2>. QED  BY <2>1 DEF Answered
<1>2. ASSUME NEW x \in Answers, output = <<x>>
      PROVE  Answered(KeptItems(output) \o ResultsOf(output))
  <2>1. KeptItems(output) \o ResultsOf(output) = <<KeptItem(x)>> \o Result(x)
    BY <1>2, OneKept
  <2>2. CASE x.id[1] = "call"
    <3>1. <<KeptItem(x)>> \o Result(x) = <<KeptItem(x), Out(x)>>
      <4>1. Result(x) = <<Out(x)>>
        BY <1>0, <2>2
      <4>. QED  BY <1>4, <4>1, OneMore
    <3>2. Answered(<<KeptItem(x), Out(x)>>)
      BY <1>0, <2>2 DEF Answered, Out
    <3>. QED  BY <2>1, <3>1, <3>2
  <2>3. CASE x.id[1] = "text"
    <3>1. <<KeptItem(x)>> \o Result(x) = <<KeptItem(x)>>
      <4>1. Result(x) = <<>> /\ <<KeptItem(x)>> \in Seq(Items)
        BY <1>0, <1>4, <2>3
      <4>. QED  BY <4>1
    <3>2. Answered(<<KeptItem(x)>>)
      BY <1>0, <2>3 DEF Answered, Out
    <3>. QED  BY <2>1, <3>1, <3>2
  <2>. QED  BY <1>0, <2>2, <2>3
<1>3. ASSUME NEW x \in Answers, NEW y \in Answers, output = <<x, y>>, x.id[1] # y.id[1]
      PROVE  Answered(KeptItems(output) \o ResultsOf(output))
  <2>1. KeptItems(output) \o ResultsOf(output) = <<KeptItem(x), KeptItem(y)>> \o (Result(x) \o Result(y))
    BY <1>3, TwoKept
  <2>2. CASE x.id[1] = "call" /\ y.id[1] = "text"
    <3>1. <<KeptItem(x), KeptItem(y)>> \o (Result(x) \o Result(y)) = <<KeptItem(x), KeptItem(y), Out(x)>>
      <4>1. Result(x) = <<Out(x)>> /\ Result(y) = <<>> /\ <<Out(x)>> \in Seq(Items)
        BY <1>0, <1>4, <2>2
      <4>2. Result(x) \o Result(y) = <<Out(x)>>
        BY <4>1
      <4>. QED  BY <1>4, <4>2, TwoMore
    <3>2. Answered(<<KeptItem(x), KeptItem(y), Out(x)>>)
      BY <1>0, <2>2 DEF Answered, Out
    <3>. QED  BY <2>1, <3>1, <3>2
  <2>3. CASE x.id[1] = "text" /\ y.id[1] = "call"
    <3>1. <<KeptItem(x), KeptItem(y)>> \o (Result(x) \o Result(y)) = <<KeptItem(x), KeptItem(y), Out(y)>>
      <4>1. Result(x) = <<>> /\ Result(y) = <<Out(y)>> /\ <<Out(y)>> \in Seq(Items)
        BY <1>0, <1>4, <2>3
      <4>2. Result(x) \o Result(y) = <<Out(y)>>
        BY <4>1
      <4>. QED  BY <1>4, <4>2, TwoMore
    <3>2. Answered(<<KeptItem(x), KeptItem(y), Out(y)>>)
      BY <1>0, <2>3 DEF Answered, Out
    <3>. QED  BY <2>1, <3>1, <3>2
  <2>. QED  BY <1>0, <1>3, <2>2, <2>3
<1>. QED  BY <1>1, <1>2, <1>3 DEF Single

\* Two calls side by side are not one at a time.
LEMMA NotTwo ==
  ASSUME NEW h \in Seq(Items), NEW output \in Seq(Answers),
         Alone(h \o KeptItems(output) \o ResultsOf(output)),
         NEW i \in 1..Len(output), i + 1 \in 1..Len(output), output[i].id[1] = "call"
  PROVE  output[i + 1].id[1] # "call"
<1>1. PICK k \in Seq(Items) : k = KeptItems(output)
  BY ResultsType
<1>2. PICK r \in Seq(Items) : r = ResultsOf(output)
  BY ResultsType
<1>3. PICK m \in Nat : m = Len(h)
  OBVIOUS
<1>4. PICK n \in Nat : n = Len(output)
  OBVIOUS
<1>5. Len(k) = n /\ \A l \in 1..n : k[l].type = output[l].id[1]
  BY <1>1, <1>4 DEF KeptItems, KeptItem
<1>6. PICK a \in Seq(Items) : a = h \o k /\ Len(a) = m + n /\ \A l \in 1..n : a[m + l] = k[l]
  <2>1. h \o k \in Seq(Items) /\ Len(h \o k) = m + n
    BY <1>3, <1>5, Joined
  <2>2. \A l \in 1..n : (h \o k)[m + l] = k[l]
    BY <1>3, <1>5, Joined
  <2>. QED  BY <2>1, <2>2
<1>7. Alone(a)
  BY <1>1, <1>2, <1>6, AloneBefore
<1>8. m + i \in 1..(Len(a) - 1) /\ (m + i) + 1 = m + (i + 1) /\ i \in 1..n /\ i + 1 \in 1..n
  BY <1>3, <1>4, <1>6
<1>. QED  BY <1>5, <1>6, <1>7, <1>8 DEF Alone

\* What the streamed answer and the answer in one piece are made of.
Ids ==
  /\ \A k \in DOMAIN items : items[k].id[1] = "call"
  /\ callItem # NoItem => callItem.id[1] = "call"
  /\ textItem # NoItem => textItem.id[1] = "text"

\* A streamed answer with no two calls side by side has one call at most.
LEMMA StreamOutput ==
  ASSUME Streaming, Ids, history \in Seq(Items)
  PROVE  LET output == items \o Closed(callItem) \o Closed(textItem)
         IN  output \in Seq(Answers) /\ (Alone(Kept(output)) => Single(output))
<1>0. \A x \in ItemSet : x.id[1] \in {"call", "text"} => x \in Answers
  <2>1. Nat \subseteq Marks
    BY DEF Marks
  <2>2. \A s \in Seq(Nat) : s \in Seq(Marks)
    BY <2>1
  <2>. QED  BY <2>2 DEF ItemSet, Answers
<1>1. items \in Seq(ItemSet) /\ callItem \in ItemSet /\ textItem \in ItemSet
  BY DEF Streaming
<1>2. items \in Seq(Answers)
  <2>1. ASSUME NEW k \in DOMAIN items
        PROVE  items[k] \in Answers
    <3>1. items[k] \in ItemSet
      BY <1>1
    <3>2. items[k].id[1] = "call"
      BY DEF Ids
    <3>. QED  BY <1>0, <3>1, <3>2
  <2>. QED  BY <1>1, <2>1
<1>3. /\ callItem # NoItem => callItem \in Answers
      /\ textItem # NoItem => textItem \in Answers
  BY <1>0, <1>1 DEF Ids
<1>4. PICK p \in Seq(Answers) : p = items \o Closed(callItem) /\ \A k \in DOMAIN p : p[k].id[1] = "call"
  <2>1. CASE callItem = NoItem
    <3>1. items \o Closed(callItem) = items
      BY <1>2, <2>1 DEF Closed
    <3>. QED  BY <1>2, <3>1 DEF Ids
  <2>2. CASE callItem # NoItem
    <3>1. PICK n \in Nat : n = Len(items)
      BY <1>2
    <3>2. Append(items, callItem) \in Seq(Answers)
      BY <1>2, <1>3, <2>2
    <3>3. PICK p \in Seq(Answers) : p = Append(items, callItem)
      BY <3>2
    <3>4. Len(p) = n + 1 /\ p[n + 1] = callItem /\ \A k \in 1..n : p[k] = items[k]
      BY <1>2, <1>3, <2>2, <3>1, <3>3
    <3>5. \A k \in 1..(n + 1) : k \in 1..n \/ k = n + 1
      BY <3>1, UpTo, Zenon
    <3>6. \A k \in 1..n : items[k].id[1] = "call"
      BY <1>2, <3>1 DEF Ids
    <3>7. \A k \in 1..(n + 1) : p[k].id[1] = "call"
      BY <2>2, <3>4, <3>5, <3>6 DEF Ids
    <3>8. DOMAIN p = 1..(n + 1)
      BY <3>4
    <3>9. items \o Closed(callItem) = p
      BY <1>2, <1>3, <2>2, <3>3 DEF Closed
    <3>. QED  BY <3>7, <3>8, <3>9
  <2>. QED  BY <2>1, <2>2
<1>5. PICK z \in Seq(Answers) : z = p \o Closed(textItem) /\ \A k \in 1..Len(p) : k \in 1..Len(z) /\ z[k] = p[k]
  <2>1. Closed(textItem) \in Seq(Answers)
    <3>1. textItem # NoItem => <<textItem>> \in Seq(Answers)
      BY <1>3
    <3>2. <<>> \in Seq(Answers)
      OBVIOUS
    <3>. QED  BY <3>1, <3>2 DEF Closed
  <2>2. PICK c \in Seq(Answers) : c = Closed(textItem)
    BY <2>1
  <2>3. p \o c \in Seq(Answers) /\ Len(p \o c) = Len(p) + Len(c) /\ \A k \in 1..Len(p) : (p \o c)[k] = p[k]
    BY Joined
  <2>4. \A k \in 1..Len(p) : k \in 1..Len(p \o c)
    <3>1. Len(p) \in Nat /\ Len(c) \in Nat
      OBVIOUS
    <3>. QED  BY <2>3, <3>1
  <2>. QED  BY <2>2, <2>3, <2>4
<1>6. ASSUME Alone(Kept(z))
      PROVE  Single(z)
  <2>1. Kept(z) = history \o KeptItems(z) \o ResultsOf(z)
    BY DEF Kept, KeptItems, KeptItem, ResultsOf
  <2>2. ~(Len(p) > 1)
    <3> SUFFICES ASSUME Len(p) > 1 PROVE FALSE
      OBVIOUS
    <3>1. 1 \in 1..Len(p) /\ 1 + 1 \in 1..Len(p) /\ DOMAIN p = 1..Len(p)
      OBVIOUS
    <3>2. z[1].id[1] = "call" /\ z[1 + 1].id[1] = "call" /\ 1 \in 1..Len(z) /\ 1 + 1 \in 1..Len(z)
      BY <1>4, <1>5, <3>1
    <3>. QED  BY <1>6, <2>1, <3>2, NotTwo
  <2>3. p = <<>> \/ \E x \in Answers : p = <<x>> /\ x.id[1] = "call"
    <3>1. CASE Len(p) = 0
      BY <3>1
    <3>2. CASE Len(p) = 1
      <4>1. p = <<p[1]>>
        BY <3>2, OneLong
      <4>2. 1 \in DOMAIN p /\ p[1] \in Answers
        <5>1. DOMAIN p = 1..Len(p) /\ 1 \in 1..1
          OBVIOUS
        <5>2. 1 \in DOMAIN p
          BY <3>2, <5>1
        <5>. QED  BY <5>2
      <4>3. p[1].id[1] = "call"
        BY <1>4, <4>2
      <4>. QED  BY <4>1, <4>2, <4>3
    <3>3. Len(p) = 0 \/ Len(p) = 1
      <4>1. \A n \in Nat : ~(n > 1) => n = 0 \/ n = 1
        OBVIOUS
      <4>2. Len(p) \in Nat
        OBVIOUS
      <4>. QED  BY <2>2, <4>1, <4>2
    <3>. QED  BY <3>1, <3>2, <3>3
  <2>4. CASE textItem = NoItem
    <3>1. z = p
      BY <1>5, <2>4 DEF Closed
    <3>. QED  BY <2>3, <3>1 DEF Single
  <2>5. CASE textItem # NoItem
    <3>1. z = p \o <<textItem>> /\ textItem \in Answers /\ textItem.id[1] = "text"
      BY <1>3, <1>5, <2>5 DEF Closed, Ids
    <3>2. CASE p = <<>>
      <4>1. z = <<textItem>>
        BY <3>1, <3>2
      <4>. QED  BY <3>1, <4>1 DEF Single
    <3>3. ASSUME NEW x \in Answers, p = <<x>>, x.id[1] = "call"
          PROVE  Single(z)
      <4>1. z = <<x, textItem>>
        BY <3>1, <3>3, OneMore
      <4>. QED  BY <3>1, <3>3, <4>1 DEF Single
    <3>. QED  BY <2>3, <3>2, <3>3
  <2>. QED  BY <2>4, <2>5
<1>. QED  BY <1>4, <1>5, <1>6

\* The texts of an answer in one piece.
Texts == {<<>>, <<1>>}

\* An answer in one piece has the text before the calls.
LEMMA JsonOutput ==
  ASSUME NEW text \in Texts, NEW n \in Nat, NEW calls \in [1..n -> Calls],
         turn \in Nat, history \in Seq(Items)
  PROVE  LET output == Closed(IF text = <<>> THEN NoItem
                              ELSE [id |-> <<"text", turn>>, content |-> text])
               \o [k \in 1..n |->
                    [id |-> <<"call", turn, calls[k]>>, content |-> <<k>>]]
         IN  output \in Seq(Answers) /\ (Alone(Kept(output)) => Single(output))
<1> DEFINE Spoken == [id |-> <<"text", turn>>, content |-> text]
           Called(k) == [id |-> <<"call", turn, calls[k]>>, content |-> <<k>>]
           said == Closed(IF text = <<>> THEN NoItem ELSE Spoken)
           called == [k \in 1..n |-> Called(k)]
<1>1. Spoken \in Answers /\ Spoken.id[1] = "text" /\ Spoken # NoItem
  <2>1. turn \in Marks /\ "text" \in Marks /\ 1 \in Marks
    BY DEF Marks
  <2>2. /\ text \in Seq(Marks)
        /\ <<"text", turn>> \in Seq(Marks) /\ <<"text", turn>>[1] = "text"
    <3>1. text \in Seq(Marks)
      <4>1. <<1>> \in Seq(Marks) /\ <<>> \in Seq(Marks)
        BY <2>1
      <4>. QED  BY <4>1 DEF Texts
    <3>2. <<"text", turn>> \in Seq(Marks) /\ <<"text", turn>>[1] = "text"
      BY <2>1
    <3>. QED  BY <3>1, <3>2
  <2>3. Spoken.id = <<"text", turn>> /\ Spoken \in [id : Seq(Marks), content : Seq(Marks)]
    BY <2>2
  <2>. QED  BY <2>2, <2>3 DEF Answers, NoItem
<1>2. ASSUME NEW k \in 1..n
      PROVE  Called(k) \in Answers /\ Called(k).id[1] = "call"
  <2>1. turn \in Marks /\ "call" \in Marks /\ k \in Marks /\ calls[k] \in Marks /\ k + 1 \in Nat
    <3>1. calls[k] \in Calls /\ Calls \subseteq Nat
      BY ResponsesProxyAssumption
    <3>2. Nat \subseteq Marks /\ "call" \in Marks
      BY DEF Marks
    <3>3. calls[k] \in Nat
      BY <3>1
    <3>4. k \in Nat /\ k + 1 \in Nat
      OBVIOUS
    <3>. QED  BY <3>2, <3>3, <3>4
  <2>2. <<k>> \in Seq(Marks) /\ <<"call", turn, calls[k]>> \in Seq(Marks)
        /\ <<"call", turn, calls[k]>>[1] = "call"
    BY <2>1
  <2>. QED  BY <2>1, <2>2 DEF Answers
<1> HIDE DEF Spoken, Called
<1>3. PICK a \in Seq(Answers) :
        a = said /\ (a = <<>> \/ a = <<Spoken>>) /\ Len(a) \in {0, 1}
  <2>1. <<>> \in Seq(Answers) /\ <<Spoken>> \in Seq(Answers)
    BY <1>1
  <2>2. said = <<>> \/ said = <<Spoken>>
    BY <1>1 DEF Closed
  <2>. QED  BY <2>1, <2>2
<1>4. PICK b \in Seq(Answers) : b = called /\ Len(b) = n /\ \A k \in 1..n : b[k].id[1] = "call"
  <2>1. called \in Seq(Answers) /\ Len(called) = n
    BY <1>2
  <2>2. \A k \in 1..n : called[k].id[1] = "call"
    BY <1>2
  <2>. QED  BY <2>1, <2>2
<1> HIDE DEF said, called
<1>5. PICK z \in Seq(Answers) :
        z = a \o b /\ Len(z) = Len(a) + n /\ \A k \in 1..n : z[Len(a) + k] = b[k]
  <2>1. a \o b \in Seq(Answers) /\ Len(a \o b) = Len(a) + Len(b)
    BY Joined
  <2>2. \A k \in 1..Len(b) : (a \o b)[Len(a) + k] = b[k]
    BY Joined
  <2>. QED  BY <1>4, <2>1, <2>2
<1>6. ASSUME Alone(Kept(z))
      PROVE  Single(z)
  <2>1. Kept(z) = history \o KeptItems(z) \o ResultsOf(z)
    BY DEF Kept, KeptItems, KeptItem, ResultsOf
  <2>2. ~(n > 1)
    <3> SUFFICES ASSUME n > 1 PROVE FALSE
      OBVIOUS
    <3>1. PICK m \in {0, 1} : m = Len(a)
      BY <1>3
    <3>2. m + 1 \in 1..Len(z) /\ (m + 1) + 1 \in 1..Len(z) /\ (m + 1) + 1 = m + 2
      BY <1>5, <3>1
    <3>3. 1 \in 1..n /\ 2 \in 1..n
      OBVIOUS
    <3>4. z[m + 1].id[1] = "call" /\ z[m + 2].id[1] = "call"
      BY <1>4, <1>5, <3>1, <3>3
    <3>. QED  BY <1>6, <2>1, <3>2, <3>4, NotTwo
  <2>3. n = 0 \/ n = 1
    BY <2>2
  <2>4. CASE n = 0
    <3>1. b = <<>>
      BY <1>4, <2>4
    <3>2. z = a
      BY <1>5, <3>1
    <3>. QED  BY <1>1, <1>3, <3>2 DEF Single
  <2>5. CASE n = 1
    <3>1. b = <<b[1]>>
      BY <1>4, <2>5, OneLong
    <3>2. b[1] \in Answers /\ b[1].id[1] = "call"
      <4>1. 1 \in 1..n /\ DOMAIN b = 1..n
        BY <1>4, <2>5
      <4>. QED  BY <1>4, <4>1
    <3>3. PICK x \in Answers : x = b[1] /\ x.id[1] = "call" /\ b = <<x>>
      BY <3>1, <3>2
    <3>4. CASE a = <<>>
      <4>1. z = <<x>>
        BY <1>5, <3>3, <3>4
      <4>. QED  BY <4>1 DEF Single
    <3>5. CASE a = <<Spoken>>
      <4>1. z = <<Spoken, x>>
        BY <1>1, <1>5, <3>3, <3>5, OneMore
      <4>. QED  BY <1>1, <3>3, <4>1 DEF Single
    <3>. QED  BY <1>3, <3>4, <3>5
  <2>. QED  BY <2>3, <2>4, <2>5
<1>7. z = said \o called
  BY <1>3, <1>4, <1>5
<1>. QED  BY <1>6, <1>7 DEF said, called, Spoken, Called

\* What is kept of an answer that follows results or the words of the user.
Kind(h) == h # <<>> /\ Last(h).type \in {"output", "user"}

\* An answered part after results or the words of the user.
LEMMA AnsweredAfter ==
  ASSUME NEW h \in Seq(Items), NEW b \in Seq(Items), Kind(h),
         Alone(h) => Answered(h), Alone(h \o b) => Answered(b)
  PROVE  Alone(h \o b) => Answered(h \o b)
<1> SUFFICES ASSUME Alone(h \o b) PROVE Answered(h \o b)
  OBVIOUS
<1>1. Answered(h) /\ Answered(b)
  BY AloneBefore
<1>2. h[Len(h)].type # "text"
  BY DEF Kind, Last
<1>. QED  BY <1>1, <1>2, AnsweredBoth

\* What is kept of an answer leaves the conversation answered.
LEMMA KeptHolds ==
  ASSUME NEW output \in Seq(Answers), history \in Seq(Items), Kind(history),
         Alone(history) => Answered(history), Alone(Kept(output)) => Single(output)
  PROVE  Kept(output) \in Seq(Items) /\ (Alone(Kept(output)) => Answered(Kept(output)))
<1>1. PICK k \in Seq(Items) : k = KeptItems(output)
  BY ResultsType
<1>2. PICK r \in Seq(Items) : r = ResultsOf(output)
  BY ResultsType
<1>3. PICK b \in Seq(Items) : b = k \o r
  <2>1. k \o r \in Seq(Items)
    OBVIOUS
  <2>. QED  BY <2>1
<1>4. Kept(output) = history \o b
  <2>1. Kept(output) = (history \o k) \o r
    BY <1>1, <1>2 DEF Kept, KeptItems, KeptItem, ResultsOf
  <2>2. (history \o k) \o r = history \o (k \o r)
    BY ConcatAssociative
  <2>. QED  BY <1>3, <2>1, <2>2
<1>5. Alone(history \o b) => Answered(b)
  BY <1>1, <1>2, <1>3, <1>4, KeptAnswered
<1>6. history \o b \in Seq(Items)
  OBVIOUS
<1>. QED  BY <1>4, <1>5, <1>6, AnsweredAfter

\* The conversation, while it is had.
Talking ==
  /\ turn \in Nat
  /\ history \in Seq(Items)
  /\ Alone(history) => Answered(history)
  /\ phase # "idle" => Kind(history)
  /\ phase = "fetch" => messages = buildChatBody(history)
  /\ phase \in {"fetch", "stream"} => Ids

\* Nothing is said at the start.
LEMMA TalkingInit == Init => Talking
<1> SUFFICES ASSUME Init PROVE Talking
  OBVIOUS
<1>1. history \in Seq(Items) /\ Answered(history)
  BY DEF Init, Answered
<1>. QED  BY <1>1 DEF Init, Talking

\* A request takes the conversation as it is, or with words of the user.
LEMMA RequestTalks ==
  ASSUME Talking, Request
  PROVE  Talking'
<1> DEFINE user == [type |-> "user", id |-> <<turn>>, content |-> <<turn>>]
<1>1. /\ turn' = turn + 1 /\ turn \in Nat /\ phase' = "fetch" /\ messages' = buildChatBody(history')
      /\ history' = IF Kind(history) THEN history ELSE Append(history, user)
      /\ textItem' = NoItem /\ callItem' = NoItem /\ items' = <<>>
      /\ history \in Seq(Items)
  BY DEF Request, Talking, Kind
<1>2. user \in Items /\ user.type = "user"
  <2>1. turn \in Marks
    BY <1>1 DEF Marks
  <2>. QED  BY <2>1 DEF Items
<1> HIDE DEF user
<1>3. Ids'
  BY <1>1 DEF Ids
<1>4. CASE Kind(history)
  <2>1. history' = history
    BY <1>1, <1>4
  <2>. QED  BY <1>1, <1>3, <1>4, <2>1 DEF Talking
<1>5. CASE ~Kind(history)
  <2>1. PICK u \in Seq(Items) : u = <<user>> /\ Len(u) = 1 /\ u[1].type = "user"
    <3>1. <<user>> \in Seq(Items)
      BY <1>2
    <3>. QED  BY <1>2, <3>1
  <2>2. Append(history, user) = history \o u
    BY <1>1, <1>2, <2>1, AppendProperties, AppendIsConcat
  <2>3. Answered(u)
    <3>1. DOMAIN u = 1..1
      BY <2>1
    <3>2. \A k \in DOMAIN u : k = 1
      BY <3>1
    <3>. QED  BY <2>1, <3>2 DEF Answered
  <2>4. history \o u \in Seq(Items) /\ (Alone(history \o u) => Answered(history \o u))
    <3>1. history \o u \in Seq(Items)
      BY <1>1
    <3>2. ASSUME Alone(history \o u) PROVE Answered(history)
      BY <1>1, <3>2, AloneBefore DEF Talking
    <3>. QED  BY <1>1, <2>1, <2>3, <3>1, <3>2, AnsweredBoth
  <2>5. PICK z \in Seq(Items) : z = history' /\ (Alone(z) => Answered(z))
    BY <1>1, <1>5, <2>2, <2>4
  <2>6. Kind(z)
    <3>1. z = Append(history, user)
      BY <1>1, <1>5, <2>5
    <3>2. z # <<>> /\ Last(z) = user
      BY <1>1, <1>2, <3>1 DEF Last
    <3>. QED  BY <1>2, <3>2 DEF Kind
  <2>. QED  BY <1>1, <1>3, <2>5, <2>6 DEF Talking
<1>. QED  BY <1>4, <1>5

\* A delta leaves calls and text what they are.
LEMMA DeltaTalks ==
  ASSUME Talking, Streaming, NEW call \in Calls \cup {0}, NEW named \in BOOLEAN, NEW piece \in BOOLEAN,
         Delta(call, named, piece)
  PROVE  Talking'
<1>1. /\ phase = "stream" /\ phase' = "stream" /\ turn' = turn /\ history' = history /\ messages' = messages
      /\ history \in Seq(Items) /\ Ids
  BY DEF Delta, Talking
<1>2. textItem \in ItemSet /\ callItem \in ItemSet /\ items \in Seq(ItemSet)
  BY DEF Streaming
<1>3. PICK d : IF call = 0 THEN Text(d.piece) ELSE Call(d)
  BY DEF Delta
<1>4. Ids'
  <2>1. CASE Text(d.piece)
    <3>1. callItem' = callItem /\ items' = items
      BY <2>1 DEF Text
    <3>2. textItem'.id[1] = "text"
      <4>1. CASE textItem = NoItem
        <5>1. textItem'.id = <<"text", turn>>
          BY <2>1, <4>1 DEF Text
        <5>. QED  BY <5>1
      <4>2. CASE textItem # NoItem
        <5>1. textItem'.id = textItem.id
          BY <1>2, <2>1, <4>2 DEF Text, ItemSet
        <5>. QED  BY <1>1, <4>2, <5>1 DEF Ids
      <4>. QED  BY <4>1, <4>2
    <3>. QED  BY <1>1, <3>1, <3>2 DEF Ids
  <2>2. CASE Call(d)
    <3> DEFINE id == <<"call", turn, d.call>>
               opens == Opens(d, id)
               item == IF opens THEN [id |-> id, content |-> <<>>] ELSE callItem
    <3>1. /\ textItem' = textItem
          /\ callItem' = item \/ callItem' = [item EXCEPT !.content = Append(@, d.piece)]
          /\ item = NoItem => callItem' = item
          /\ items' = items \o (IF opens THEN Closed(callItem) ELSE <<>>)
      BY <2>2, Zenon DEF Call
    <3>2. item # NoItem => item.id[1] = "call"
      <4>1. CASE opens
        <5>1. item.id = id
          BY <4>1
        <5>. QED  BY <5>1
      <4>2. CASE ~opens
        BY <1>1, <4>2 DEF Ids
      <4>. QED  BY <4>1, <4>2
    <3>3. [item EXCEPT !.content = Append(@, d.piece)].id = item.id
      <4>1. CASE opens
        <5>1. item = [id |-> id, content |-> <<>>]
          BY <4>1
        <5>. QED  BY <5>1
      <4>2. CASE ~opens
        <5>1. item \in ItemSet
          BY <1>2, <4>2
        <5>. QED  BY <5>1 DEF ItemSet
      <4>. QED  BY <4>1, <4>2
    <3> HIDE DEF item, id, opens
    <3>4. callItem' # NoItem => callItem'.id[1] = "call"
      BY <3>1, <3>2, <3>3
    <3>5. \A k \in DOMAIN items' : items'[k].id[1] = "call"
      <4>1. CASE items' = items
        BY <1>1, <4>1 DEF Ids
      <4>2. CASE items' = items \o <<callItem>> /\ callItem # NoItem
        <5>1. PICK c \in Seq(ItemSet) : c = <<callItem>> /\ Len(c) = 1 /\ c[1] = callItem
          <6>1. <<callItem>> \in Seq(ItemSet)
            BY <1>2
          <6>. QED  BY <6>1
        <5>2. PICK n \in Nat : n = Len(items)
          BY <1>2
        <5>3. items \o c \in Seq(ItemSet) /\ Len(items \o c) = n + 1 /\ \A k \in 1..n : (items \o c)[k] = items[k]
          BY <1>2, <5>1, <5>2, Joined
        <5>4. (items \o c)[n + 1] = callItem
          <6>1. \A k \in 1..Len(c) : (items \o c)[Len(items) + k] = c[k]
            BY <1>2, Joined
          <6>. QED  BY <5>1, <5>2, <6>1
        <5>5. PICK z \in Seq(ItemSet) : z = items' /\ Len(z) = n + 1 /\ z[n + 1] = callItem
                /\ \A k \in 1..n : z[k] = items[k]
          BY <4>2, <5>1, <5>3, <5>4
        <5>6. \A k \in 1..n : items[k].id[1] = "call"
          BY <1>1, <1>2, <5>2 DEF Ids
        <5>7. callItem.id[1] = "call"
          BY <1>1, <4>2 DEF Ids
        <5>8. \A k \in 1..(n + 1) : k \in 1..n \/ k = n + 1
          BY <5>2, UpTo, Zenon
        <5>9. DOMAIN z = 1..(n + 1)
          BY <5>5
        <5>. QED  BY <5>5, <5>6, <5>7, <5>8, <5>9
      <4>3. items' = items \/ (items' = items \o <<callItem>> /\ callItem # NoItem)
        <5>1. items \o <<>> = items
          BY <1>2
        <5>. QED  BY <3>1, <5>1 DEF Closed
      <4>. QED  BY <4>1, <4>2, <4>3
    <3>. QED  BY <1>1, <3>1, <3>4, <3>5 DEF Ids
  <2>. QED  BY <1>3, <2>1, <2>2
<1>. QED  BY <1>1, <1>4 DEF Talking

\* Every step keeps the conversation answered.
LEMMA TalkingNext == Talking /\ Turning /\ [Next]_vars => Talking'
<1> SUFFICES ASSUME Talking, Turning, [Next]_vars PROVE Talking'
  OBVIOUS
<1>1. CASE Request
  BY <1>1, RequestTalks
<1>2. ASSUME NEW result \in {"ok", "limited", "refused", "down"}, Fetch(result)
      PROVE  Talking'
  <2>1. phase = "fetch" /\ history' = history /\ turn' = turn /\ messages' = messages /\ answer' = answer
    BY <1>2 DEF Fetch
  <2>2. Ids'
    BY <2>1 DEF Talking, Ids, answer
  <2>. QED  BY <2>1, <2>2 DEF Talking
<1>3. ASSUME NEW call \in Calls \cup {0}, NEW named \in BOOLEAN, NEW piece \in BOOLEAN,
             Delta(call, named, piece)
      PROVE  Talking'
  <2>1. Streaming
    BY <1>3 DEF Delta, Turning
  <2>. QED  BY <1>3, <2>1, DeltaTalks
<1>4. CASE EndOfStream
  <2> DEFINE output == items \o Closed(callItem) \o Closed(textItem)
  <2>1. /\ phase = "stream" /\ phase' = "idle" /\ turn' = turn /\ turn \in Nat /\ history' = Kept(output)
        /\ Streaming /\ Ids /\ history \in Seq(Items) /\ Kind(history)
        /\ Alone(history) => Answered(history)
    BY <1>4 DEF EndOfStream, Talking, Turning
  <2>2. output \in Seq(Answers) /\ (Alone(Kept(output)) => Single(output))
    BY <2>1, StreamOutput
  <2> HIDE DEF output
  <2>3. Kept(output) \in Seq(Items) /\ (Alone(Kept(output)) => Answered(Kept(output)))
    BY <2>1, <2>2, KeptHolds
  <2>4. PICK z \in Seq(Items) : z = history' /\ (Alone(z) => Answered(z))
    BY <2>1, <2>3
  <2>. QED  BY <2>1, <2>4 DEF Talking
<1>5. CASE BreakOfStream
  <2>1. phase' = "idle" /\ turn' = turn /\ history' = history
    BY <1>5 DEF BreakOfStream
  <2>. QED  BY <2>1 DEF Talking
<1>6. CASE Json
  <2>1. /\ phase = "json" /\ phase' = "idle" /\ turn' = turn /\ turn \in Nat
        /\ history \in Seq(Items) /\ Kind(history) /\ (Alone(history) => Answered(history))
    BY <1>6 DEF Json, Talking
  <2>2. CASE history' = history
    BY <2>1, <2>2 DEF Talking
  <2>3. CASE \E text \in {<<>>, <<1>>}, n \in 0..Cardinality(Calls) : \E calls \in Injection(1..n, Calls) :
               history' = Kept(Closed(IF text = <<>> THEN NoItem
                                      ELSE [id |-> <<"text", turn>>, content |-> text])
                            \o [k \in 1..n |->
                                 [id |-> <<"call", turn, calls[k]>>, content |-> <<k>>]])
    <3>1. PICK text \in {<<>>, <<1>>}, n \in 0..Cardinality(Calls) : \E calls \in Injection(1..n, Calls) :
               history' = Kept(Closed(IF text = <<>> THEN NoItem
                                      ELSE [id |-> <<"text", turn>>, content |-> text])
                            \o [k \in 1..n |->
                                 [id |-> <<"call", turn, calls[k]>>, content |-> <<k>>]])
      BY <2>3
    <3>2. PICK calls \in Injection(1..n, Calls) :
               history' = Kept(Closed(IF text = <<>> THEN NoItem
                                      ELSE [id |-> <<"text", turn>>, content |-> text])
                            \o [k \in 1..n |->
                                 [id |-> <<"call", turn, calls[k]>>, content |-> <<k>>]])
      BY <3>1
    <3> DEFINE output == Closed(IF text = <<>> THEN NoItem
                                ELSE [id |-> <<"text", turn>>, content |-> text])
                 \o [k \in 1..n |->
                      [id |-> <<"call", turn, calls[k]>>, content |-> <<k>>]]
    <3>3. n \in Nat /\ calls \in [1..n -> Calls]
      BY <3>1, <3>2 DEF Injection, IsInjective
    <3>4. output \in Seq(Answers) /\ (Alone(Kept(output)) => Single(output))
      <4>1. text \in Texts
        BY <3>1 DEF Texts
      <4>. QED  BY <2>1, <3>3, <4>1, JsonOutput
    <3>5. history' = Kept(output)
      BY <3>2
    <3> HIDE DEF output
    <3>6. Kept(output) \in Seq(Items) /\ (Alone(Kept(output)) => Answered(Kept(output)))
      BY <2>1, <3>4, KeptHolds
    <3>7. PICK z \in Seq(Items) : z = history' /\ (Alone(z) => Answered(z))
      BY <3>5, <3>6
    <3>. QED  BY <2>1, <3>7 DEF Talking
  <2>. QED  BY <1>6, <2>2, <2>3, Zenon DEF Json
<1>7. CASE UNCHANGED vars
  <2>1. /\ turn' = turn /\ phase' = phase /\ history' = history /\ messages' = messages
        /\ textItem' = textItem /\ callItem' = callItem /\ items' = items
    BY <1>7 DEF vars, answer
  <2>2. Ids' = Ids
    BY <2>1 DEF Ids
  <2>. QED  BY <2>1, <2>2 DEF Talking
<1>8. CASE Skip
  <2>1. /\ turn' = turn /\ phase' = phase /\ history' = history /\ messages' = messages
        /\ textItem' = textItem /\ callItem' = callItem /\ items' = items
    BY <1>8 DEF Skip
  <2>2. Ids' = Ids
    BY <2>1 DEF Ids
  <2>. QED  BY <2>1, <2>2 DEF Talking
<1>. QED  BY <1>1, <1>2, <1>3, <1>4, <1>5, <1>6, <1>7, <1>8 DEF Next

\* "Anthropic requires tool_result immediately after tool_use": in the messages
\* of a conversation whose answers have made one tool call at a time, the result
\* follows the call, and the text around the calls is all there, in its order.
THEOREM ResultsFollowCalls == Spec => []ToolResultsAdjacent
<1>1. Init => Turning /\ Talking
  BY TurningInit, TalkingInit
<1>2. Turning /\ Talking /\ [Next]_vars => (Turning /\ Talking)'
  BY TurningNext, TalkingNext
<1>3. Talking => ToolResultsAdjacent
  <2> SUFFICES ASSUME Talking, OneAtATime, phase = "fetch" PROVE ToolResultsAdjacent
    BY DEF ToolResultsAdjacent
  <2>1. history \in Seq(Items) /\ Answered(history) /\ messages = buildChatBody(history)
    BY DEF Talking, OneAtATime, Alone
  <2>. QED  BY <2>1, ChatBody DEF ToolResultsAdjacent
<1>. QED  BY <1>1, <1>2, <1>3, PTL DEF Spec
=============================================================================
