------------------------------ MODULE McpHttp ------------------------------
(***************************************************************************)
(* One Streamable HTTP attempt of `gitopsctl mcp verify`                   *)
(* (internal/mcp/http.go): initialize, the initialized notification whose  *)
(* fate is ignored, then tools/list until a page has no cursor             *)
(* (HandshakeHTTP) or one tools/call (ProbeHTTP).  Every message is a POST *)
(* with a timer of its own.  A POST that was given up may still reach the  *)
(* server, which keeps sessions and handshakes apart as it sees fit.       *)
(***************************************************************************)
EXTENDS Integers, Sequences

CONSTANTS
  Sessions,   \* session ids a server may issue
  NoSession,  \* no Mcp-Session-Id header
  Bodies      \* what the body of a response may hold: sequences of events

Said   == {"ok", "more", "error"}         \* the answer to the POST
Events == Said \cup {"junk", "note"}      \* no JSON; a message that answers nothing

ASSUME McpHttpAssumption ==
  /\ NoSession \notin Sessions
  /\ Bodies \subseteq Seq(Events)
  \* a response answers its POST once
  /\ \A body \in Bodies : \A i, j \in 1..Len(body) :
       body[i] \in Said /\ body[j] \in Said => i = j

VARIABLES
  mode,      \* "handshake" (HandshakeHTTP) or "probe" (ProbeHTTP)
  step,      \* the POST the client is at: "initialize", "initialized",
             \* "request"; "done" once it has returned
  waiting,   \* client.Do has been called for it
  verdict,   \* "none", "ok" or "failed"
  session,   \* the session id the client sends
  answered,  \* the answer to initialize was accepted
  last,      \* what the client made of the last message it took
  onWay,     \* POSTs the server has not seen yet
  reply,     \* the response to the client's POST, NoReply while there is none
  strict,    \* the server refuses a request without its session, or before
             \* it was told initialized
  issued,    \* the session the server gave to this client
  notified,  \* the server was told initialized
  answers,   \* history: what the server said in the responses taken
  masked,    \* history: a response was taken in which a message follows the
             \* answer, or stands in its place
  faults     \* history: what went wrong: "transport", "server", "notice"
             \* (initialized was not acknowledged)

client  == <<mode, step, waiting, verdict, session, answered, last>>
server  == <<strict, issued, notified>>
history == <<answers, masked, faults>>
vars == <<client, onWay, reply, server, history>>

Steps   == {"initialize", "initialized", "request"}
Posts   == [step : Steps, session : Sessions \cup {NoSession}]
Replies == [status : {"2xx", "4xx"}, session : Sessions \cup {NoSession}, body : Bodies]
NoReply == [status |-> "none"]

-----------------------------------------------------------------------------
\* Mutant: the first event of the response wins.
ParseBodyFirst(body) ==
  LET First(i) == body[i] # "junk" /\ \A j \in 1..(i - 1) : body[j] = "junk"
  IN IF \E i \in 1..Len(body) : First(i)
       THEN body[CHOOSE i \in 1..Len(body) : First(i)]
       ELSE "nil"

LastEvent(body, i) ==
  body[i] # "junk" /\ \A j \in (i + 1)..Len(body) : body[j] = "junk"

\* parseBody: the last event that parses, or nothing.
ParseBody(body) ==
  IF \E i \in 1..Len(body) : LastEvent(body, i)
    THEN body[CHOOSE i \in 1..Len(body) : LastEvent(body, i)]
    ELSE "nil"

\* What the code looks at in a message: a notification has no error and no
\* cursor, like a last page.
Reading(message) == IF message = "note" THEN "ok" ELSE message

Init ==
  /\ mode \in {"handshake", "probe"}
  /\ step = "initialize" /\ waiting = FALSE /\ verdict = "none"
  /\ session = NoSession /\ answered = FALSE /\ last = "none"
  /\ onWay = {} /\ reply = NoReply
  /\ strict \in BOOLEAN /\ issued = NoSession /\ notified = FALSE
  /\ answers = {} /\ masked = FALSE /\ faults = {}

\* Mutant: the session id is not sent.
PostNoSession ==
  /\ step # "done" /\ ~waiting
  /\ waiting' = TRUE
  /\ onWay' = onWay \cup {[step |-> step, session |-> NoSession]}
  /\ UNCHANGED <<mode, step, verdict, session, answered, last, reply, server, history>>

Post ==
  /\ step # "done" /\ ~waiting
  /\ waiting' = TRUE
  /\ onWay' = onWay \cup {[step |-> step, session |-> session]}
  /\ UNCHANGED <<mode, step, verdict, session, answered, last, reply, server, history>>

-----------------------------------------------------------------------------
(* The server.                                                             *)

\* A POST the client has given up is served all the same.
Awaited(post) == waiting /\ post.step = step /\ reply = NoReply

Respond(post, response, bad) ==
  /\ onWay' = onWay \ {post}
  /\ reply' = IF Awaited(post) THEN response ELSE reply
  /\ faults' = IF bad THEN faults \cup {IF post.step = "initialized" THEN "notice" ELSE "server"}
                ELSE faults
  /\ UNCHANGED <<client, strict, answers, masked>>

\* What the server's response says: its answer, or nothing that is JSON.
Spoken(body) ==
  IF \E i \in 1..Len(body) : body[i] \in Said
    THEN CHOOSE e \in Said : \E i \in 1..Len(body) : body[i] = e
    ELSE IF \E i \in 1..Len(body) : body[i] = "note" THEN "note" ELSE "nil"

\* A strict server wants its session, and a request only once initialized.
BreaksRule(post) ==
  /\ strict /\ post.step # "initialize"
  /\ post.session # issued \/ (post.step = "request" /\ ~notified)

Refuse(post) ==
  /\ \E body \in Bodies :
       Respond(post, [status |-> "4xx", session |-> NoSession, body |-> body],
               ~BreaksRule(post))
  /\ UNCHANGED <<issued, notified>>

Serve(post) ==
  /\ ~BreaksRule(post)
  /\ \E body \in Bodies, given \in Sessions \cup {NoSession} :
       /\ post.step # "initialize" => given = NoSession
       /\ Respond(post, [status |-> "2xx", session |-> given, body |-> body],
                  post.step # "initialized" /\ Spoken(body) \in {"nil", "error"})
       /\ issued' = IF post.step = "initialize" THEN given ELSE issued
       /\ notified' = (notified \/ post.step = "initialized")

-----------------------------------------------------------------------------
(* The client.                                                             *)

\* Mutant: a page without a cursor does not end the walk.
ContinuesAlways(said) == step = "initialize" \/ mode = "handshake"
Continues(said) == step = "initialize" \/ (mode = "handshake" /\ said = "more")

Fail == verdict' = "failed" /\ step' = "done" /\ UNCHANGED <<session, answered>>

\* Mutant: the error member of a tools/call answer is not looked at.
TakeUnchecked(said) ==
  \/ said = "error" /\ step = "initialize" /\ Fail
  \/ /\ said # "error" \/ step = "request"
     /\ answered' = TRUE
     /\ session' = IF step = "initialize" THEN reply.session ELSE session
     /\ IF Continues(said)
          THEN /\ step' = IF step = "initialize" THEN "initialized" ELSE "request"
               /\ UNCHANGED verdict
          ELSE step' = "done" /\ verdict' = "ok"

Take(said) ==
  \/ /\ said = "error"
     /\ verdict' = "failed" /\ step' = "done"
     /\ answered' = TRUE /\ UNCHANGED session
  \/ /\ said # "error"
     /\ answered' = TRUE
     /\ session' = IF step = "initialize" THEN reply.session ELSE session
     /\ IF Continues(said)
          THEN /\ step' = IF step = "initialize" THEN "initialized" ELSE "request"
               /\ UNCHANGED verdict
          ELSE step' = "done" /\ verdict' = "ok"

AnswerIsLast(body) ==
  \E i \in 1..Len(body) : body[i] \in Said /\ LastEvent(body, i)

\* The response arrives in time.
Receive ==
  /\ waiting /\ reply # NoReply
  /\ waiting' = FALSE /\ reply' = NoReply
  /\ LET message == ParseBody(reply.body) IN
       \/ /\ step = "initialized"
          /\ step' = "request"
          /\ UNCHANGED <<verdict, session, answered, last, history>>
       \/ /\ step # "initialized"
          /\ reply.status = "4xx" \/ message = "nil"
          /\ Fail /\ UNCHANGED <<last, history>>
       \/ /\ step # "initialized"
          /\ reply.status = "2xx" /\ message # "nil"
          /\ Take(Reading(message))
          /\ last' = Reading(message)
          /\ answers' = answers \cup {Spoken(reply.body)}
          /\ masked' = (masked \/ ~AnswerIsLast(reply.body))
          /\ UNCHANGED faults
  /\ UNCHANGED <<mode, onWay, server>>

\* client.Timeout, or a transport error before or after the server acted.
Break ==
  /\ waiting
  /\ waiting' = FALSE /\ reply' = NoReply
  /\ \/ step = "initialized" /\ step' = "request" /\ UNCHANGED <<verdict, session, answered>>
     \/ step # "initialized" /\ Fail
  /\ faults' = faults \cup {IF step = "initialized" THEN "notice" ELSE "transport"}
  /\ UNCHANGED <<mode, last, onWay, server, answers, masked>>

Client == Post \/ Receive \/ Break

Next == Client \/ \E post \in Posts \cap onWay : Refuse(post) \/ Serve(post)

Spec == Init /\ [][Next]_vars

\* The client runs, and the timer of a POST it waits for fires; nothing is
\* assumed of the server.
FairSpec == Spec /\ WF_vars(Client)

-----------------------------------------------------------------------------
(***************************************************************************)
(* Properties.                                                             *)
(***************************************************************************)

\* The types of the variables, and what a POST may still wait for.
TypeOK ==
  /\ mode \in {"handshake", "probe"}
  /\ step \in Steps \cup {"done"}
  /\ waiting \in BOOLEAN /\ answered \in BOOLEAN /\ strict \in BOOLEAN
  /\ notified \in BOOLEAN /\ masked \in BOOLEAN
  /\ verdict \in {"none", "ok", "failed"}
  /\ {session, issued} \subseteq Sessions \cup {NoSession}
  /\ last \in Said \cup {"none"}
  /\ onWay \subseteq Posts
  /\ reply \in Replies \cup {NoReply}
  /\ answers \subseteq Events \cup {"nil"}
  /\ faults \subseteq {"transport", "server", "notice"}

\* The attempt as McpVerify uses it.
Attempt == INSTANCE McpAttempt WITH
  outcome <- IF verdict = "none" THEN "open" ELSE verdict

\* The HTTP attempt implements the abstract attempt, as the stdio one does:
\* one judgement per message taken, a verdict that is never revised
\* (http.go:87-194).
ImplementsAttempt == Attempt!Spec

\* A passing verdict is what the server said: no answer was an error and the
\* last one had no cursor to follow - except that a message which follows an
\* answer in the same response is taken in its place, ids being compared
\* nowhere (http.go:60-82, 138-194).
PassEarned ==
  verdict = "ok" /\ ~masked =>
    /\ answers \subseteq {"ok", "more"}
    /\ mode = "handshake" => last = "ok" /\ "ok" \in answers

\* A server is failed only for something that went wrong outside the client:
\* a broken POST, or a server that refused, could not be read or reported an
\* error.  A client that forgets its session or its turn would be refused by
\* a strict server; the one thing it does let pass, an initialized that got
\* lost (http.go:120), fails it with such a server only.
JustFailure ==
  verdict = "failed" =>
    \/ {"transport", "server"} \cap faults # {}
    \/ strict /\ "notice" \in faults

\* The timer of each POST ends the attempt, unless the server keeps sending
\* cursors: the walk itself has no bound (http.go:43, 157-194).
EndsUnlessCursors ==
  \/ <>(step = "done")
  \/ mode = "handshake" /\ []<><<Receive /\ last' = "more">>_vars

-----------------------------------------------------------------------------
(***************************************************************************)
(* The inductive invariant the proofs use.                                 *)
(***************************************************************************)
Course ==
  /\ verdict = "none" <=> step # "done"
  /\ step # "done" => (answered <=> step # "initialize")
  /\ reply # NoReply => waiting
  /\ step = "done" => ~waiting

\* While the client is at work, a POST on its way is the current one or an
\* initialized that was given up, and it carries the session there is.
Delivery == step # "done" =>
  /\ \A post \in onWay :
       /\ post.step = step => waiting /\ reply = NoReply
       /\ post.step \in {"initialize", "request"} => post.step = step
       /\ post.step = "initialized" => step # "initialize"
       /\ post.session = session
  /\ step # "initialize" => session = issued
  /\ step = "initialize" /\ reply # NoReply /\ reply.status = "2xx" => reply.session = issued

Blamed == {"transport", "server"} \cap faults # {} \/ (strict /\ "notice" \in faults)

\* What is about to fail the attempt has been somebody's fault.
Blame ==
  /\ reply # NoReply /\ step # "initialized" =>
       (reply.status = "4xx" \/ ParseBody(reply.body) \in {"nil", "error"} => Blamed)
  /\ step = "initialized" /\ reply # NoReply => notified \/ "notice" \in faults
  /\ step = "request" => notified \/ "notice" \in faults

AnswersSoFar == step # "done" /\ ~masked => answers \subseteq {"ok", "more"}

Inv == TypeOK /\ Course /\ Delivery /\ Blame /\ AnswersSoFar /\ PassEarned /\ JustFailure
=============================================================================
