------------------------- MODULE ClaudeHealthProofs -------------------------
(***************************************************************************)
(* Proofs about ClaudeHealth, for any number of sessions and any window    *)
(* longer than the two timeouts together: the probes of a process are a    *)
(* window apart, a check is over before the next one begins, a session     *)
(* that is skipped has one in its window, and alerts say what is known.    *)
(***************************************************************************)
EXTENDS ClaudeHealth, TLAPS

Types ==
  /\ clock \in Nat /\ lastCheck \in Nat /\ lastCheck <= clock
  /\ turn \in [Turns -> {"idle", "skipped", "probe", "post", "over"}]
  /\ due \in [Turns -> Nat]
  /\ probes \in Seq(Nat)

\* The window was claimed by the latest probe, if there was one.
Claimed ==
  /\ \A i \in DOMAIN probes : probes[i] <= lastCheck
  /\ lastCheck = 0 \/ \E i \in DOMAIN probes : probes[i] = lastCheck
  /\ OneProbePerWindow

\* A call that is awaited times out within both timeouts of the claim, and is
\* not awaited beyond that.
Timely ==
  \A t \in UnderWay :
    /\ clock <= due[t]
    /\ turn[t] = "probe" => due[t] <= lastCheck + ProbeTimeout
    /\ due[t] <= lastCheck + ProbeTimeout + PostTimeout

Inv == Types /\ Claimed /\ Timely /\ OneCheckAtATime

-----------------------------------------------------------------------------
\* No check is under way when the process starts.
LEMMA InitInv == Init => Inv
BY ClaudeHealthAssumption
   DEF Init, Inv, Types, Claimed, Timely, OneProbePerWindow, OneCheckAtATime, UnderWay

\* The handler that begins a probe finds the last check a window behind, so
\* nobody awaits a call any more.
LEMMA StartStep ==
  ASSUME Inv, NEW t \in Turns, Start(t)
  PROVE  Inv'
<1>1. CASE Throttled
  <2>1. UNCHANGED <<clock, lastCheck, due, probes>>
        /\ turn' = [turn EXCEPT ![t] = "skipped"]
    BY <1>1 DEF Start
  <2>2. UnderWay' \subseteq UnderWay /\ \A u \in UnderWay' : turn'[u] = turn[u]
    BY <2>1 DEF UnderWay, Inv, Types
  <2>. QED
    BY <2>1, <2>2 DEF Inv, Types, Claimed, Timely, OneProbePerWindow, OneCheckAtATime
<1>2. CASE ~Throttled
  <2>1. /\ lastCheck' = clock /\ clock' = clock
        /\ turn' = [turn EXCEPT ![t] = "probe"]
        /\ due' = [due EXCEPT ![t] = clock + ProbeTimeout]
        /\ probes' = Append(probes, clock)
        /\ lastCheck + Throttle <= clock
    BY <1>2, ClaudeHealthAssumption DEF Start, Throttled, Inv, Types
  <2>2. UnderWay = {}
    BY <2>1, ClaudeHealthAssumption DEF Inv, Types, Timely, UnderWay
  <2>3. UnderWay' = {t}
    BY <2>1, <2>2 DEF UnderWay, Inv, Types
  <2>4. Types' /\ Timely' /\ OneCheckAtATime'
    BY <2>1, <2>3, ClaudeHealthAssumption DEF Inv, Types, Timely, OneCheckAtATime
  <2>5. Claimed'
    <3>1. /\ Len(probes') = Len(probes) + 1 /\ probes'[Len(probes) + 1] = clock
          /\ \A i \in 1..Len(probes) : probes'[i] = probes[i] /\ probes[i] \in Nat
          /\ \A i \in 1..Len(probes) : probes[i] <= lastCheck
      BY <2>1 DEF Inv, Types, Claimed
    <3>2. \A i, j \in 1..Len(probes) : i < j => probes[j] - probes[i] >= Throttle
      BY DEF Inv, Types, Claimed, OneProbePerWindow
    <3>3. DOMAIN probes' = 1..(Len(probes) + 1)
      BY <2>1 DEF Inv, Types
    <3>4. OneProbePerWindow'
      BY <2>1, <3>1, <3>2, <3>3, ClaudeHealthAssumption DEF Inv, Types, OneProbePerWindow
    <3>5. Len(probes) + 1 \in DOMAIN probes' /\ probes'[Len(probes) + 1] = lastCheck'
      BY <2>1, <3>1, <3>3 DEF Inv, Types
    <3>. QED
      BY <2>1, <3>1, <3>3, <3>4, <3>5, ClaudeHealthAssumption DEF Inv, Types, Claimed
  <2>. QED  BY <2>4, <2>5 DEF Inv
<1>. QED  BY <1>1, <1>2

\* A handler that has its answer posts it, or is over.
LEMMA AnswerStep ==
  ASSUME Inv, NEW t \in Turns, Read(t) \/ Posted(t)
  PROVE  Inv'
<1>1. /\ UNCHANGED <<clock, lastCheck, probes>> /\ t \in UnderWay
      /\ \/ /\ turn[t] = "probe" /\ turn' = [turn EXCEPT ![t] = "post"]
            /\ due' = [due EXCEPT ![t] = clock + PostTimeout]
         \/ /\ turn' = [turn EXCEPT ![t] = "over"]
            /\ due' = [due EXCEPT ![t] = 0]
  <2>1. CASE Read(t)
    <3>1. PICK post \in BOOLEAN :
            /\ turn' = [turn EXCEPT ![t] = IF post THEN "post" ELSE "over"]
            /\ due' = [due EXCEPT ![t] = IF post THEN clock + PostTimeout ELSE 0]
      <4>1. PICK reading \in Readings :
              LET k == Classify(reading) IN
                /\ turn' = [turn EXCEPT ![t] = IF Made(k) = "post" THEN "post" ELSE "over"]
                /\ due' = [due EXCEPT ![t] = IF Made(k) = "post" THEN clock + PostTimeout
                                             ELSE 0]
        BY <2>1 DEF Read
      <4>2. (Made(Classify(reading)) = "post") \in BOOLEAN
        OBVIOUS
      <4>. QED  BY <4>1, <4>2
    <3>2. turn[t] = "probe" /\ UNCHANGED <<clock, lastCheck, probes>>
      BY <2>1 DEF Read
    <3>. QED  BY <3>1, <3>2 DEF UnderWay
  <2>2. CASE Posted(t)
    BY <2>2 DEF Posted, UnderWay
  <2>. QED  BY <2>1, <2>2
<1>2. UnderWay' \subseteq UnderWay /\ UnderWay = {t}
  BY <1>1 DEF UnderWay, Inv, Types, OneCheckAtATime
<1>3. Types'
  <2>1. clock + PostTimeout \in Nat /\ 0 \in Nat
    BY ClaudeHealthAssumption DEF Inv, Types
  <2>2. \E d \in Nat : due' = [due EXCEPT ![t] = d]
    BY <1>1, <2>1
  <2>3. \E to \in {"post", "over"} : turn' = [turn EXCEPT ![t] = to]
    BY <1>1
  <2>. QED  BY <1>1, <2>2, <2>3 DEF Inv, Types
<1>4. Timely'
  BY <1>1, <1>2, ClaudeHealthAssumption DEF Inv, Types, Timely, UnderWay
<1>5. Claimed' /\ OneCheckAtATime'
  BY <1>1, <1>2 DEF Inv, Claimed, OneProbePerWindow, OneCheckAtATime
<1>. QED  BY <1>3, <1>4, <1>5 DEF Inv

\* The clock does not pass a timeout, and a new process has nothing under way.
LEMMA OtherSteps ==
  ASSUME Inv, Tick \/ Restart \/ UNCHANGED vars
  PROVE  Inv'
<1>1. CASE Tick
  <2>1. UNCHANGED <<lastCheck, turn, due, probes>> /\ clock' = clock + 1
        /\ UnderWay' = UnderWay /\ \A t \in UnderWay : clock < due[t]
    BY <1>1 DEF Tick, UnderWay
  <2>2. \A t \in UnderWay : due[t] \in Nat
    BY DEF Inv, Types, UnderWay
  <2>. QED
    BY <2>1, <2>2 DEF Inv, Types, Claimed, Timely, OneProbePerWindow, OneCheckAtATime
<1>2. CASE Restart
  <2>1. UnderWay' = {}
    BY <1>2 DEF Restart, UnderWay
  <2>. QED
    BY <1>2, <2>1
       DEF Restart, Inv, Types, Claimed, Timely, OneProbePerWindow, OneCheckAtATime
<1>3. CASE UNCHANGED vars
  BY <1>3
     DEF vars, Inv, Types, Claimed, Timely, OneProbePerWindow, OneCheckAtATime, UnderWay
<1>. QED  BY <1>1, <1>2, <1>3

-----------------------------------------------------------------------------
\* Inv is an invariant.
THEOREM Invariance == Spec => []Inv
<1>1. Inv /\ [Next]_vars => Inv'
  BY StartStep, AnswerStep, OtherSteps DEF Next
<1>. QED  BY <1>1, InitInv, PTL DEF Spec

\* However many sessions start, and whenever, two probes of a process are a
\* window apart, and a check is over before the next one begins
\* (handler.py:285-337).
THEOREM ChecksAreApart == Spec => []ChecksApart
<1>1. Inv => ChecksApart
  BY DEF Inv, Claimed, ChecksApart
<1>. QED  BY <1>1, Invariance, PTL

-----------------------------------------------------------------------------
(* What is made of a reading *)

\* Every branch of the classification, and what the handler does then, is
\* covered by evidence in the reading.
LEMMA ReadingIsJust ==
  ASSUME token \in BOOLEAN, UNCHANGED token, NEW r \in Readings,
         last' = [reading |-> r, kind |-> Classify(r), made |-> Made(Classify(r))]
  PROVE  AlertsAreJust'
<1> DEFINE k == Classify(r)
<1>1. last'.reading = r /\ last'.kind = k /\ last'.made = Made(k)
  OBVIOUS
<1>2. k \in Actionable => /\ token => Made(k) = "post"
                          /\ Made(k) = "post" \/ ~token
  BY DEF Made
<1>3. k \notin Actionable => Made(k) # "post"
  BY DEF Made
<1>4. CASE r.read # "body"
  <2>1. k = "provider_error" /\ ~Fresh(r)
    BY <1>4 DEF Classify, Fresh
  <2>. QED  BY <1>1, <1>2, <1>4, <2>1 DEF AlertsAreJust, Actionable
<1>5. CASE r.read = "body" /\ Fresh(r)
  <2>1. k = OutcomeKind[r.outcome] /\ r.outcome \in DOMAIN OutcomeKind
    BY <1>5 DEF Classify, Fresh
  <2>2. /\ r.outcome = "success" => k = "healthy"
        /\ r.outcome = "auth_rejected" => k = "auth_failure"
        /\ r.outcome = "usage_limited" => k = "usage_limit"
        /\ r.outcome = "other" => k = "provider_error"
    BY <2>1 DEF OutcomeKind
  <2>. QED  BY <1>1, <1>2, <1>3, <1>5, <2>2 DEF AlertsAreJust, Actionable
<1>6. CASE r.read = "body" /\ ~Fresh(r)
  <2>1. k = IF r.rejected THEN "auth_failure" ELSE IF ~r.binaryOk THEN "provider_error" ELSE "stale"
    BY <1>6 DEF Classify, Fresh
  <2>2. k \in {"auth_failure", "provider_error", "stale"}
    BY <2>1
  <2>3. k = "stale" => ~r.rejected /\ r.binaryOk
    BY <2>1
  <2>4. k = "auth_failure" => r.rejected
    BY <2>1
  <2>. QED  BY <1>1, <1>2, <1>3, <1>6, <2>2, <2>3, <2>4 DEF AlertsAreJust, Actionable
<1>. QED  BY <1>4, <1>5, <1>6

\* The latest reading, with the alert it led to, is just.
Just == token \in BOOLEAN /\ AlertsAreJust

\* Only a reading changes what was made of the latest one.
LEMMA JustStep == Just /\ [Next]_vars => Just'
<1> SUFFICES ASSUME Just, [Next]_vars PROVE Just'
  OBVIOUS
<1>1. CASE last' = last /\ token' = token
  BY <1>1 DEF Just, AlertsAreJust
<1>2. CASE Restart
  <2>1. last' = [made |-> "nothing"] /\ token' = token
    BY <1>2 DEF Restart
  <2>2. "reading" \notin DOMAIN last'
    BY <2>1
  <2>. QED  BY <2>1, <2>2 DEF Just, AlertsAreJust
<1>3. ASSUME NEW t \in Turns, Read(t)
      PROVE  Just'
  <2>1. PICK r \in Readings :
          last' = [reading |-> r, kind |-> Classify(r), made |-> Made(Classify(r))]
    BY <1>3 DEF Read
  <2>2. token' = token
    BY <1>3 DEF Read
  <2>. QED  BY <2>1, <2>2, ReadingIsJust DEF Just
<1>. QED
  BY <1>1, <1>2, <1>3 DEF Next, Tick, Start, Posted, vars

\* No reading of the proxy leads to an alert it is no evidence for, or is kept
\* silent about when it is evidence of a fault (handler.py:18-38, 141-255).
THEOREM AlertsAreEarned == Spec => []AlertsAreJust
<1>1. Init => Just
  <2> SUFFICES ASSUME Init PROVE Just
    OBVIOUS
  <2>1. last = [made |-> "nothing"] /\ token \in BOOLEAN
    BY DEF Init
  <2>2. "reading" \notin DOMAIN last
    BY <2>1
  <2>. QED  BY <2>1, <2>2 DEF Just, AlertsAreJust
<1>2. Just => AlertsAreJust
  BY DEF Just
<1>. QED  BY <1>1, <1>2, JustStep, PTL DEF Spec

\* A session is skipped only by a window that a probe of the same process has
\* claimed, or by the one the node came up with (handler.py:285-287).
THEOREM SkipsHaveCover == Spec => SkipsAreCovered
<1> DEFINE Covered ==
      \A t \in Turns : turn[t] = "idle" /\ turn'[t] = "skipped" =>
        clock < Throttle \/ \E i \in DOMAIN probes : clock - probes[i] < Throttle
<1>1. Inv /\ [Next]_vars => [Covered]_vars
  <2> SUFFICES ASSUME Inv, Next, NEW t \in Turns, turn[t] = "idle", turn'[t] = "skipped"
               PROVE  clock < Throttle \/ \E i \in DOMAIN probes : clock - probes[i] < Throttle
    BY DEF vars
  <2>1. turn \in [Turns -> {"idle", "skipped", "probe", "post", "over"}]
    BY DEF Inv, Types
  <2>2. ASSUME Tick \/ Restart
        PROVE  FALSE
    BY <2>1, <2>2 DEF Tick, Restart
  <2>3. ASSUME NEW u \in Turns, Read(u) \/ Posted(u)
        PROVE  FALSE
    <3>1. turn'[t] = turn[t] \/ turn'[t] \in {"post", "over"}
      BY <2>1, <2>3 DEF Read, Posted
    <3>. QED  BY <3>1
  <2>4. ASSUME NEW u \in Turns, Start(u)
        PROVE  Throttled
    BY <2>1, <2>4 DEF Start
  <2>5. Throttled
    BY <2>2, <2>3, <2>4 DEF Next
  <2>6. clock - lastCheck < Throttle /\ clock \in Nat /\ lastCheck \in Nat
    BY <2>5 DEF Throttled, Inv, Types
  <2>7. lastCheck = 0 \/ \E i \in DOMAIN probes : probes[i] = lastCheck
    BY DEF Inv, Claimed
  <2>. QED  BY <2>6, <2>7
<1>. QED  BY <1>1, Invariance, PTL DEF Spec, SkipsAreCovered
=============================================================================
