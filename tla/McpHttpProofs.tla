--------------------------- MODULE McpHttpProofs ---------------------------
(***************************************************************************)
(* Proofs about McpHttp, for every set of sessions and of response bodies: *)
(* type correctness, the invariant Inv, that a pass is earned and a        *)
(* failure just, and that the attempt implements McpAttempt.               *)
(***************************************************************************)
EXTENDS McpHttp, WellFoundedInduction, TLAPS

-----------------------------------------------------------------------------
\* A set of naturals that is not empty has a least element.
LEMMA Least ==
  ASSUME NEW S \in SUBSET Nat, S # {}
  PROVE  \E k \in S : \A m \in S : k <= m
<1>1. PICK k \in S : \A m \in S : ~(<<m, k>> \in OpToRel(<, Nat))
  BY NatLessThanWellFounded, WFMin
<1>2. \A m \in S : <<m, k>> \in OpToRel(<, Nat) <=> m < k
  BY DEF OpToRel
<1>3. \A m \in S : ~(m < k)
  BY <1>1, <1>2, Zenon
<1>. QED  BY <1>3

\* What the client reads in a body against what the server said: it reads
\* nothing where there is nothing, an error only where there is one, and the
\* answer itself where nothing follows it (http.go:60-82).
LEMMA ReadsWhatIsSaid ==
  ASSUME NEW body \in Bodies
  PROVE  /\ ParseBody(body) \in Events \cup {"nil"} /\ ParseBody(body) # "junk"
         /\ Spoken(body) \in Events \cup {"nil"}
         /\ ParseBody(body) = "nil" => Spoken(body) = "nil"
         /\ ParseBody(body) = "error" => Spoken(body) = "error"
         /\ AnswerIsLast(body) => ParseBody(body) = Spoken(body) /\ Spoken(body) \in Said
<1>. body \in Seq(Events)
  BY McpHttpAssumption
<1>. DEFINE Hits == {i \in 1..Len(body) : LastEvent(body, i)}
<1>1. \A i, j \in Hits : i = j
  BY DEF LastEvent, Events, Said
<1>2. ASSUME NEW i \in 1..Len(body), body[i] \in Said
      PROVE  Spoken(body) = body[i]
  <2>1. \A j \in 1..Len(body) : body[j] \in Said => body[j] = body[i]
    BY <1>2, McpHttpAssumption
  <2>. QED  BY <1>2, <2>1 DEF Spoken
<1>3. CASE Hits = {}
  <2>1. \A i \in 1..Len(body) : ~LastEvent(body, i)
    BY <1>3
  <2>2. ParseBody(body) = "nil" /\ ~AnswerIsLast(body)
    BY <2>1 DEF ParseBody, AnswerIsLast
  <2>3. \A i \in 1..Len(body) : body[i] = "junk"
    <3>. DEFINE S == {k \in Nat : k < Len(body) /\ body[Len(body) - k] # "junk"}
    <3>1. SUFFICES ASSUME S # {} PROVE FALSE
      <4>1. \A i \in 1..Len(body) :
              Len(body) - i \in Nat /\ Len(body) - i < Len(body) /\ Len(body) - (Len(body) - i) = i
        OBVIOUS
      <4>. QED  BY <4>1
    <3>2. PICK k \in S : \A m \in S : k <= m
      BY <3>1, Least
    <3>3. LastEvent(body, Len(body) - k)
      <4>1. ASSUME NEW j \in (Len(body) - k + 1)..Len(body), body[j] # "junk" PROVE FALSE
        <5>1. Len(body) - j \in S
          BY <4>1
        <5>. QED  BY <3>2, <4>1, <5>1
      <4>. QED  BY <3>2, <4>1 DEF LastEvent
    <3>. QED  BY <2>1, <3>2, <3>3
  <2>. QED  BY <2>2, <2>3 DEF Spoken, Said, Events
<1>4. ASSUME NEW i \in Hits
      PROVE  ParseBody(body) = body[i]
  BY <1>1 DEF ParseBody
<1>. QED  BY <1>2, <1>3, <1>4 DEF Spoken, AnswerIsLast, LastEvent, Said, Events

-----------------------------------------------------------------------------
\* The invariant holds initially.
LEMMA InitInv == Init => Inv
BY McpHttpAssumption
   DEF Init, Inv, TypeOK, Course, Delivery, Blame, AnswersSoFar, PassEarned, JustFailure,
       Steps, Said, Events, Posts, NoReply

\* A POST leaves the client with the session it has.
LEMMA PostStep == Inv /\ Post => Inv'
BY DEF Post, Inv, TypeOK, Course, Delivery, Blame, Blamed, AnswersSoFar, PassEarned,
       JustFailure, Steps, Posts, server, history

\* The server acts on a POST, awaited or not.
LEMMA ServerStep ==
  ASSUME Inv, NEW post \in Posts \cap onWay, Refuse(post) \/ Serve(post)
  PROVE  Inv'
<1>1. PICK response \in Replies, bad \in BOOLEAN :
        /\ Respond(post, response, bad)
        /\ issued' \in Sessions \cup {NoSession} /\ notified' \in BOOLEAN
        /\ post.step # "initialize" => issued' = issued
        /\ post.step = "initialize" /\ response.status = "2xx" => response.session = issued'
        /\ notified => notified'
        /\ post.step = "initialized" => notified' \/ bad \/ BreaksRule(post)
        /\ post.step # "initialized" =>
             (response.status = "4xx" \/ ParseBody(response.body) \in {"nil", "error"}
                => bad \/ BreaksRule(post))
  <2>1. CASE Refuse(post)
    <3>1. PICK body \in Bodies :
            Respond(post, [status |-> "4xx", session |-> NoSession, body |-> body],
                    ~BreaksRule(post))
      BY <2>1 DEF Refuse
    <3>2. (~BreaksRule(post)) \in BOOLEAN
      BY DEF BreaksRule
    <3>3. /\ UNCHANGED <<issued, notified>>
          /\ issued \in Sessions \cup {NoSession} /\ notified \in BOOLEAN
      BY <2>1 DEF Refuse, Inv, TypeOK
    <3>. QED  BY <3>1, <3>2, <3>3 DEF Replies
  <2>2. CASE Serve(post)
    <3>1. PICK body \in Bodies, given \in Sessions \cup {NoSession} :
            /\ Respond(post, [status |-> "2xx", session |-> given, body |-> body],
                       post.step # "initialized" /\ Spoken(body) \in {"nil", "error"})
            /\ issued' = IF post.step = "initialize" THEN given ELSE issued
            /\ notified' = (notified \/ post.step = "initialized")
      BY <2>2 DEF Serve
    <3>2. ParseBody(body) \in {"nil", "error"} => Spoken(body) \in {"nil", "error"}
      BY ReadsWhatIsSaid
    <3>3. (post.step # "initialized" /\ Spoken(body) \in {"nil", "error"}) \in BOOLEAN
      OBVIOUS
    <3>4. issued' \in Sessions \cup {NoSession} /\ notified' \in BOOLEAN
      BY <3>1 DEF Inv, TypeOK
    <3>5. [status |-> "2xx", session |-> given, body |-> body] \in Replies
      BY DEF Replies
    <3>. QED  BY <3>1, <3>2, <3>3, <3>4, <3>5
  <2>. QED  BY <2>1, <2>2
<1>2. TypeOK'
  BY <1>1 DEF Inv, TypeOK, Respond, client, Posts
<1>3. response # NoReply
  BY <1>1 DEF Replies, NoReply
<1>4. Course' /\ AnswersSoFar' /\ PassEarned'
  BY <1>1, <1>3 DEF Inv, Course, AnswersSoFar, PassEarned, Respond, client, Awaited
<1>5. Delivery'
  <2>1. \A other \in onWay \ {post} : step # "done" => other.step # post.step
    BY DEF Inv, TypeOK, Delivery, Posts
  <2>2. UNCHANGED client /\ onWay' = onWay \ {post}
    BY <1>1 DEF Respond
  <2>3. reply' = IF Awaited(post) THEN response ELSE reply
    BY <1>1 DEF Respond
  <2>4. post \in onWay
    OBVIOUS
  <2>. QED  BY <1>1, <1>3, <2>1, <2>2, <2>3, <2>4 DEF Inv, Delivery, client, Awaited
<1>6. faults \subseteq faults' /\ (Blamed => Blamed') /\ JustFailure'
  BY <1>1 DEF Inv, Blamed, JustFailure, Respond, client
<1>7. Blame'
  <2>1. CASE Awaited(post)
    <3>1. reply' = response /\ step' = step /\ waiting' = waiting /\ strict' = strict
          /\ post.step = step /\ step # "done"
      BY <1>1, <2>1 DEF Respond, client, Awaited, Posts, Steps
    <3>2. ~BreaksRule(post) \/ (step = "request" /\ strict /\ "notice" \in faults)
      BY <3>1 DEF BreaksRule, Inv, Delivery, Blame
    <3>3. bad => IF step = "initialized" THEN "notice" \in faults' ELSE "server" \in faults'
      BY <1>1, <3>1 DEF Respond
    <3>. QED  BY <1>1, <1>6, <3>1, <3>2, <3>3 DEF Blame, Blamed, Inv
  <2>2. CASE ~Awaited(post)
    BY <1>1, <1>6, <2>2 DEF Respond, client, Inv, Blame
  <2>. QED  BY <2>1, <2>2
<1>. QED  BY <1>2, <1>4, <1>5, <1>6, <1>7 DEF Inv

\* The client takes a response: one judgement, by what it read.
LEMMA ReceiveStep == Inv /\ Receive => Inv'
<1> SUFFICES ASSUME Inv, Receive PROVE Inv'
  OBVIOUS
<1>. DEFINE message == ParseBody(reply.body)
<1>1. reply \in Replies /\ reply.body \in Bodies
  BY DEF Inv, TypeOK, Receive, Replies
<1>2. /\ message \in Events \cup {"nil"} /\ message # "junk"
      /\ Spoken(reply.body) \in Events \cup {"nil"}
      /\ AnswerIsLast(reply.body) => message = Spoken(reply.body) /\ message \in Said
  BY <1>1, ReadsWhatIsSaid
<1>3. message # "nil" => Reading(message) \in Said
  BY <1>2 DEF Reading, Events, Said
<1>4. step # "done"
  BY DEF Receive, Inv, Course
<1>5. CASE step = "initialized"
  <2>1. /\ step' = "request" /\ waiting' = FALSE /\ reply' = NoReply
        /\ UNCHANGED <<mode, verdict, session, answered, last, history, onWay, server>>
    BY <1>5 DEF Receive
  <2>2. TypeOK' /\ Course' /\ AnswersSoFar' /\ PassEarned' /\ JustFailure'
    BY <1>4, <1>5, <2>1 DEF Inv, TypeOK, Course, AnswersSoFar, PassEarned, JustFailure, server,
                            history, Steps
  <2>3. Blame' /\ Delivery'
    BY <1>5, <2>1 DEF Receive, Inv, Blame, Blamed, Delivery, server, history
  <2>. QED  BY <2>2, <2>3 DEF Inv
<1>6. CASE step # "initialized" /\ (reply.status = "4xx" \/ message = "nil") /\ Fail /\ UNCHANGED <<last, history>>
  BY <1>1, <1>4, <1>6 DEF Receive, Fail, Inv, TypeOK, Course, Delivery, Blame, Blamed, AnswersSoFar, PassEarned,
         JustFailure, server, history, Steps, Said
<1>7. CASE /\ step # "initialized" /\ reply.status = "2xx" /\ message # "nil"
           /\ Take(Reading(message)) /\ last' = Reading(message)
           /\ answers' = answers \cup {Spoken(reply.body)}
           /\ masked' = (masked \/ ~AnswerIsLast(reply.body))
           /\ UNCHANGED faults
  <2>1. /\ waiting' = FALSE /\ reply' = NoReply /\ UNCHANGED <<mode, onWay, server>>
        /\ step \in {"initialize", "request"}
    BY <1>4, <1>7 DEF Receive, Inv, TypeOK, Steps
  <2>2. AnswerIsLast(reply.body) \in BOOLEAN
    BY DEF AnswerIsLast
  <2>3. TypeOK'
    BY <1>1, <1>2, <1>3, <1>7, <2>1, <2>2 DEF Take, Inv, TypeOK, server, Steps, Said, Events, Replies
  <2>4. Course'
    BY <1>4, <1>7, <2>1 DEF Take, Inv, Course
  <2>5. Delivery'
    <3>1. \A post \in onWay : post.step \notin {"initialize", "request"} /\ post.session = session
      BY <1>4, <2>1 DEF Inv, Delivery, Receive
    <3>2. step' # "initialize"
      BY <1>4, <1>7, <2>1 DEF Take
    <3>3. step' # "done" => session' = issued
      BY <1>4, <1>7, <2>1 DEF Take, Inv, Delivery, Receive
    <3>4. step = "request" => UNCHANGED session /\ step' \in {"request", "done"}
      BY <1>7 DEF Take
    <3>5. step = "initialize" => onWay = {} /\ step' \in {"initialized", "done"}
      BY <1>4, <1>7, <2>1, <3>1 DEF Take, Continues, Inv, TypeOK, Posts, Steps, Delivery
    <3>. QED  BY <2>1, <3>1, <3>2, <3>3, <3>4, <3>5 DEF Delivery, server
  <2>6. Reading(message) = "error" => Blamed
    BY <1>2, <1>4, <1>7, <2>1 DEF Reading, Inv, Blame, Receive
  <2>7. Blame' /\ JustFailure'
    BY <1>4, <1>7, <2>1, <2>6 DEF Take, Inv, Blame, Blamed, JustFailure, server, Course, Continues
  <2>8. AnswersSoFar' /\ PassEarned'
    BY <1>2, <1>3, <1>4, <1>7, <2>1 DEF Take, Continues, Reading, Inv, AnswersSoFar, PassEarned, Said, Course
  <2>. QED  BY <2>3, <2>4, <2>5, <2>7, <2>8 DEF Inv
<1>. QED  BY <1>4, <1>5, <1>6, <1>7 DEF Receive

\* The timer fires, or the transport breaks.
LEMMA BreakStep == Inv /\ Break => Inv'
<1> SUFFICES ASSUME Inv, Break PROVE Inv'
  OBVIOUS
<1>1. /\ waiting' = FALSE /\ reply' = NoReply
      /\ UNCHANGED <<mode, last, onWay, server, answers, masked>> /\ step # "done"
  BY DEF Break, Inv, Course
<1>2. CASE step = "initialized"
  <2>1. /\ step' = "request" /\ UNCHANGED <<verdict, session, answered>>
        /\ faults' = faults \cup {"notice"}
    BY <1>2 DEF Break
  <2>2. TypeOK' /\ Course' /\ AnswersSoFar' /\ PassEarned' /\ JustFailure'
    BY <1>1, <1>2, <2>1 DEF Inv, TypeOK, Course, AnswersSoFar, PassEarned, JustFailure, server, Steps
  <2>3. Blame' /\ Delivery'
    BY <1>1, <1>2, <2>1 DEF Inv, Blame, Delivery, server
  <2>. QED  BY <2>2, <2>3 DEF Inv
<1>3. CASE step # "initialized"
  <2>1. Fail /\ faults' = faults \cup {"transport"}
    BY <1>3 DEF Break
  <2>. QED  BY <1>1, <2>1 DEF Fail, Inv, TypeOK, Course, Delivery, Blame, AnswersSoFar, PassEarned,
                              JustFailure, server, Steps
<1>. QED  BY <1>2, <1>3

\* The invariant holds in every reachable state.
THEOREM Invariance == Spec => []Inv
<1>1. Inv /\ [Next]_vars => Inv'
  <2>1. Inv /\ UNCHANGED vars => Inv'
    BY DEF Inv, TypeOK, Course, Delivery, Blame, Blamed, AnswersSoFar, PassEarned, JustFailure,
           vars, client, server, history
  <2>. QED  BY <2>1, PostStep, ServerStep, ReceiveStep, BreakStep DEF Next, Client
<1>. QED  BY <1>1, InitInv, PTL DEF Spec

\* Type correctness.
THEOREM TypeCorrect == Spec => []TypeOK
<1>1. Inv => TypeOK
  BY DEF Inv
<1>. QED  BY <1>1, Invariance, PTL

\* A pass is what the server said, unless a later message took its place.
THEOREM PassIsEarned == Spec => []PassEarned
<1>1. Inv => PassEarned
  BY DEF Inv
<1>. QED  BY <1>1, Invariance, PTL

\* A server is failed only for something that went wrong outside the client.
THEOREM FailureIsJust == Spec => []JustFailure
<1>1. Inv => JustFailure
  BY DEF Inv
<1>. QED  BY <1>1, Invariance, PTL

\* The HTTP attempt implements the abstract one: taking a message is an
\* Answer, a failure without one a GiveUp, and all else leaves it alone.
THEOREM Refinement == Spec => ImplementsAttempt
<1>1. Init => Attempt!Init
  BY DEF Init, Attempt!Init
<1>2. Inv /\ [Next]_vars => [Attempt!Next]_Attempt!vars
  <2> SUFFICES ASSUME Inv, [Next]_vars PROVE [Attempt!Next]_Attempt!vars
    OBVIOUS
  <2>1. CASE UNCHANGED <<mode, answered, last, verdict>>
    BY <2>1 DEF Attempt!vars
  <2>2. CASE /\ verdict = "none" /\ verdict' = "failed" /\ UNCHANGED <<mode, answered, last>>
    BY <2>2 DEF Attempt!Next, Attempt!GiveUp
  <2>3. ASSUME NEW said \in Said, Take(said), last' = said, UNCHANGED mode,
               step \in {"initialize", "request"}, verdict = "none"
        PROVE  Attempt!Next
    <3>1. answered <=> step # "initialize"
      BY <2>3 DEF Inv, Course
    <3>2. (IF verdict' = "none" THEN "open" ELSE verdict') = Attempt!Judge(said)
      BY <2>3, <3>1 DEF Take, Continues, Attempt!Judge, Inv, TypeOK
    <3>. QED  BY <2>3, <3>2 DEF Attempt!Next, Attempt!Answer, Take, Said
  <2>4. CASE Receive
    <3>1. reply.body \in Bodies /\ step # "done" /\ verdict = "none" /\ step \in Steps
      BY <2>4 DEF Receive, Inv, TypeOK, Course, Replies
    <3>2. ParseBody(reply.body) # "nil" => Reading(ParseBody(reply.body)) \in Said
      BY <3>1, ReadsWhatIsSaid DEF Reading, Events, Said
    <3>. QED  BY <2>1, <2>2, <2>3, <2>4, <3>1, <3>2 DEF Receive, Fail, Steps
  <2>5. CASE Break
    BY <2>1, <2>2, <2>5 DEF Break, Fail, Inv, Course
  <2>6. CASE Post \/ (\E post \in Posts \cap onWay : Refuse(post) \/ Serve(post)) \/ UNCHANGED vars
    BY <2>1, <2>6 DEF Post, Refuse, Serve, Respond, client, vars
  <2>. QED  BY <2>4, <2>5, <2>6 DEF Next, Client
<1>. QED  BY <1>1, <1>2, Invariance, PTL DEF Spec, ImplementsAttempt, Attempt!Spec
=============================================================================
