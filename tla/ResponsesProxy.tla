--------------------------- MODULE ResponsesProxy ---------------------------
(***************************************************************************)
(* The responses proxy (services/helm/openagent/templates/                 *)
(* responses-proxy-configmap.yaml) between Codex, which speaks the         *)
(* Responses API, and LiteLLM, which speaks chat completions, over the     *)
(* turns of one conversation: the items of the conversation become chat    *)
(* messages, the request is tried on the primary model and then on the     *)
(* fallbacks, and the answer, streamed or not, becomes items again, which  *)
(* Codex adds to the conversation with the results of its tool calls.      *)
(***************************************************************************)
EXTENDS Integers, SequencesExt, FiniteSetsExt

CONSTANTS
  FALLBACK_RETRIES,  \* delayed retries of the primary model
  FALLBACK_MODELS,   \* the sequence of models asked after these
  Calls,             \* numbers of the tool calls of one answer
  MaxDeltas,         \* bound on the deltas of an answer, divided among the turns
  MaxTurns           \* bound on the requests of the conversation

ASSUME ResponsesProxyAssumption ==
  /\ FALLBACK_RETRIES \in Nat /\ MaxDeltas \in Nat /\ MaxTurns \in Nat
  /\ FALLBACK_MODELS \in Seq(STRING)
  /\ Calls \subseteq Nat \ {0}

VARIABLES
  history,   \* the items Codex has: [type, id, content]
  turn,      \* requests so far
  messages,  \* the chat messages of this request: [role, content, calls]
  phase,     \* "idle", "fetch", "stream", "json"
  stream,    \* whether this request asks for a stream
  asked,     \* the attempts of this request: the model and what came of each
  reply,     \* what Codex was told: "none", an error, or "completed"
  chunks,    \* the lines of LiteLLM's answer: [call, named, piece]
  textItem,  \* the open text item and the open tool call; NoItem if there is
  callItem,  \*   none: [id, content]
  items,     \* the items that are done
  sent       \* the events sent: [type, id, content]

answer == <<chunks, textItem, callItem, items, sent>>
vars == <<history, turn, messages, phase, stream, asked, reply, answer>>

NoItem == [id |-> <<>>, content |-> <<>>]

-----------------------------------------------------------------------------
(* Items to chat messages *)

\* itemToMessages, for the items Codex sends: a tool call is an item of its own.
ToMessage(item) ==
  [role    |-> CASE item.type = "output" -> "tool"
                 [] item.type \in {"call", "text"} -> "assistant"
                 [] OTHER -> "user",
   content |-> IF item.type = "call" THEN <<>> ELSE item.content,
   calls   |-> IF item.type = "call" THEN <<item.id>> ELSE <<>>]

Standalone(ms, i) ==
  i \in DOMAIN ms /\ ms[i].role = "assistant" /\ ms[i].calls = <<>>

\* Mutant: a text between a tool call and its result stays there.
MergeAfterNot(ms, i) == ms

\* The text after the tool call at i goes into it unless it has some.
MergeAfter(ms, i) ==
  IF ~Standalone(ms, i + 1) THEN ms
  ELSE RemoveAt([ms EXCEPT ![i].content = IF @ = <<>> THEN ms[i + 1].content ELSE @], i + 1)

\* One round of buildChatBody's loop, at message s.i; the text before a tool
\* call goes behind its own.
MergeRound(s) ==
  IF s.i > Len(s.ms) THEN s
  ELSE IF s.ms[s.i].calls = <<>> THEN [s EXCEPT !.i = @ + 1]
  ELSE LET ms == MergeAfter(s.ms, s.i)
       IN IF Standalone(ms, s.i - 1)
          THEN [ms |-> RemoveAt([ms EXCEPT ![s.i].content = @ \o ms[s.i - 1].content], s.i - 1),
                i |-> s.i]
          ELSE [ms |-> ms, i |-> s.i + 1]

\* What the loop has after each round; there are never more than items.
Merging(input) ==
  LET s[k \in 0..Len(input)] ==
        IF k = 0 THEN [ms |-> [n \in DOMAIN input |-> ToMessage(input[n])], i |-> 1]
        ELSE MergeRound(s[k - 1])
  IN s

buildChatBody(input) == Merging(input)[Len(input)].ms

-----------------------------------------------------------------------------
(* The request *)

Init ==
  /\ history = <<>> /\ turn = 0 /\ messages = <<>>
  /\ phase = "idle" /\ stream = TRUE /\ asked = <<>> /\ reply = "none"
  /\ chunks = <<>> /\ textItem = NoItem /\ callItem = NoItem /\ items = <<>> /\ sent = <<>>

\* Codex asks again after the results of its tool calls or a failure, and with
\* the next words of its user after anything else.
Request ==
  /\ phase = "idle" /\ turn < MaxTurns
  /\ turn' = turn + 1
  /\ history' = IF history # <<>> /\ Last(history).type \in {"output", "user"} THEN history
                ELSE Append(history, [type |-> "user", id |-> <<turn>>, content |-> <<turn>>])
  /\ messages' = buildChatBody(history')
  /\ phase' = "fetch" /\ stream' \in BOOLEAN
  /\ asked' = <<>> /\ reply' = "none"
  /\ chunks' = <<>> /\ textItem' = NoItem /\ callItem' = NoItem /\ items' = <<>> /\ sent' = <<>>

\* The models in the order they are asked.
Plan == [k \in 1..(1 + FALLBACK_RETRIES) |-> "primary"] \o FALLBACK_MODELS

\* Mutant: an attempt that is refused ends the recovery.
GivesUpRefused(n, result) == n = Len(Plan) \/ result = "refused"

\* Whether the nth attempt is the last one: only what came of the first is
\* looked at.
GivesUp(n, result) == n = Len(Plan) \/ (n = 1 /\ result = "refused")

\* One fetch: "limited" is a 429 or a 5xx, "refused" another error, and "down"
\* a failure of the transport, which nothing but the handler catches.
Fetch(result) ==
  LET n == Len(asked) + 1 IN
  /\ phase = "fetch"
  /\ asked' = Append(asked, [model |-> Plan[n], result |-> result])
  /\ \/ result = "ok" /\ phase' = (IF stream THEN "stream" ELSE "json") /\ UNCHANGED reply
     \/ result = "down" /\ phase' = "idle" /\ reply' = "500"
     \/ /\ result \in {"limited", "refused"} /\ GivesUp(n, result)
        /\ phase' = "idle" /\ reply' = result
     \/ /\ result \in {"limited", "refused"} /\ ~GivesUp(n, result)
        /\ UNCHANGED <<phase, reply>>
  /\ UNCHANGED <<history, turn, messages, stream, answer>>

-----------------------------------------------------------------------------
(* The streamed answer: translateStream *)

\* An event names its item by the id alone: "fc_" and the id of the call, or
\* "msg_" and a random one; its index in the output is always 0.
Event(type, item) == [type |-> type, id |-> item.id, content |-> item.content]

\* closeCall and closeText: the item, and what is sent for it.
Closed(item) == IF item = NoItem THEN <<>> ELSE <<item>>
DoneEvents(item) == IF item = NoItem THEN <<>> ELSE <<Event("done", item)>>

\* A delta of the text: it opens the text item, which stays open to the end.
Text(piece) ==
  LET item == IF textItem = NoItem
              THEN [id |-> <<"text", turn>>, content |-> <<>>] ELSE textItem IN
  /\ textItem' = [item EXCEPT !.content = Append(@, piece)]
  /\ sent' = sent
       \o (IF textItem = NoItem THEN <<Event("added", item)>> ELSE <<>>)
       \o <<Event("delta", [item EXCEPT !.content = <<piece>>])>>
  /\ UNCHANGED <<callItem, items>>

\* Mutant: an id that is repeated opens a second item.
OpensAgain(d, id) == d.named

\* A name opens an item, unless it comes with the id of the open one.
Opens(d, id) == d.named /\ (callItem = NoItem \/ callItem.id # id)

\* A delta of a tool call: the id with a name closes the call that is open and
\* opens another one; arguments go to whichever is open.  The index that
\* chat completions give every delta is not looked at.
Call(d) ==
  LET id == <<"call", turn, d.call>>
      opens == Opens(d, id)
      item == IF opens THEN [id |-> id, content |-> <<>>] ELSE callItem
      takes == d.piece # 0 /\ item # NoItem IN
  /\ callItem' = IF takes THEN [item EXCEPT !.content = Append(@, d.piece)] ELSE item
  /\ items' = items \o (IF opens THEN Closed(callItem) ELSE <<>>)
  /\ sent' = sent
       \o (IF opens THEN DoneEvents(callItem) \o <<Event("added", item)>> ELSE <<>>)
       \o (IF takes THEN <<Event("delta", [item EXCEPT !.content = <<d.piece>>])>> ELSE <<>>)
  /\ UNCHANGED textItem

\* A delta LiteLLM sends: of the text (call 0) or of a tool call, with its id
\* and name or not, and with a piece of the arguments (its number) or not.
Delta(call, named, piece) ==
  LET d == [call |-> call, named |-> named, piece |-> IF piece THEN Len(chunks) + 1 ELSE 0] IN
  /\ phase = "stream" /\ turn * Len(chunks) < MaxDeltas /\ (named \/ piece)
  /\ chunks' = Append(chunks, d)
  /\ IF call = 0 THEN piece /\ ~named /\ Text(d.piece) ELSE Call(d)
  /\ UNCHANGED <<history, turn, messages, phase, stream, asked, reply>>

\* A line that leaves nothing behind.
Blank == [call |-> 0, named |-> FALSE, piece |-> 0]

\* The proxy passes over it without a word: no data, no JSON, a chunk without a
\* delta (an error is one), the last line when it breaks off; or the delta is
\* empty.
Skip ==
  /\ phase = "stream" /\ turn * Len(chunks) < MaxDeltas
  /\ chunks' = Append(chunks, Blank)
  /\ UNCHANGED <<history, turn, messages, phase, stream, asked, reply, textItem, callItem, items, sent>>

\* What Codex makes of the output: it keeps the items, and runs the calls.
Result(item) ==
  IF item.id[1] = "call" THEN <<[type |-> "output", id |-> item.id, content |-> item.id]>> ELSE <<>>
Kept(output) ==
  history \o [k \in DOMAIN output |->
                [type |-> output[k].id[1], id |-> output[k].id, content |-> output[k].content]]
    \o FlattenSeq([k \in DOMAIN output |-> Result(output[k])])

\* The end of the body, after [DONE] or without it, whatever is open by then.
EndOfStream ==
  LET output == items \o Closed(callItem) \o Closed(textItem) IN
  /\ phase = "stream" /\ phase' = "idle" /\ reply' = "completed"
  /\ items' = output /\ callItem' = NoItem /\ textItem' = NoItem
  /\ sent' = sent \o DoneEvents(callItem) \o DoneEvents(textItem)
               \o <<[type |-> "completed", id |-> <<>>, content |-> output]>>
  /\ history' = Kept(output)
  /\ UNCHANGED <<turn, messages, stream, asked, chunks>>

\* The body breaks off with an error: the stream of Codex does so too.
BreakOfStream ==
  /\ phase = "stream" /\ phase' = "idle" /\ reply' = "broken"
  /\ UNCHANGED <<history, turn, messages, stream, asked, answer>>

\* The answer in one piece, the text before the calls: chatMessageToItems.  A
\* body that is no JSON is caught by the handler.
Json ==
  /\ phase = "json" /\ phase' = "idle"
  /\ \/ \E text \in {<<>>, <<1>>}, n \in 0..Cardinality(Calls) : \E calls \in Injection(1..n, Calls) :
          LET output == Closed(IF text = <<>> THEN NoItem
                               ELSE [id |-> <<"text", turn>>, content |-> text])
                \o [k \in 1..n |-> [id |-> <<"call", turn, calls[k]>>, content |-> <<k>>]]
          IN history' = Kept(output) /\ items' = output /\ reply' = "completed"
     \/ UNCHANGED <<history, items>> /\ reply' = "500"
  /\ UNCHANGED <<turn, messages, stream, asked, chunks, textItem, callItem, sent>>

Next ==
  \/ Request
  \/ \E result \in {"ok", "limited", "refused", "down"} : Fetch(result)
  \/ \E call \in Calls \cup {0}, named, piece \in BOOLEAN : Delta(call, named, piece)
  \/ Skip \/ EndOfStream \/ BreakOfStream \/ Json

Spec == Init /\ [][Next]_vars

-----------------------------------------------------------------------------
\* Codex is told of a failure only when the first attempt was refused, the
\* transport failed, or every model has been asked in turn; no model is asked
\* after one that answered; and the failure Codex is told is the last one
\* (proxy.ts, "Rate-limit / upstream-error recovery").
RecoveryInOrder ==
  LET n == Len(asked)
      failed == {k \in 1..n : asked[k].result # "ok"} IN
  /\ \A k \in 1..n : asked[k].model = Plan[k] /\ (k < n => k \in failed)
  /\ \A k \in 1..(n - 1) : asked[k].result # "down" /\ (k = 1 => asked[k].result = "limited")
  /\ reply \in {"limited", "refused"} =>
       asked[n].result = reply /\ (Len(Plan) = n \/ (n = 1 /\ reply = "refused"))
  /\ reply \in {"completed", "broken"} => n \notin failed
  /\ phase \in {"stream", "json"} => n \notin failed

\* Every tool call of LiteLLM's answer comes in one piece: it is named first, and the
\* other calls come before it or after it.
Orderly ==
  \A k \in DOMAIN chunks : chunks[k].call # 0 =>
    LET of == {j \in DOMAIN chunks : chunks[j].call = chunks[k].call} IN
    /\ chunks[Min(of)].named
    /\ \A j \in Min(of)..Max(of) : chunks[j].call \in {0, chunks[k].call}

Pieces(call) ==
  FlattenSeq([k \in DOMAIN chunks |->
    IF chunks[k].call = call /\ chunks[k].piece # 0 THEN <<chunks[k].piece>> ELSE <<>>])

\* What one who reads the events has of the items, and makes of one event more.
Read(r, e) ==
  CASE e.type = "added" -> [r EXCEPT !.open = @ \cup {[id |-> e.id, content |-> <<>>]}]
    [] e.type = "delta" ->
         [r EXCEPT !.open = {IF item.id = e.id THEN [item EXCEPT !.content = @ \o e.content] ELSE item :
                               item \in @}]
    [] e.type = "done" ->
         [open |-> {item \in r.open : item.id # e.id},
          done |-> Append(r.done, [id |-> e.id, content |-> e.content])]
    [] OTHER -> r

Reading(events) ==
  LET r[k \in 0..Len(events)] ==
        IF k = 0 THEN [open |-> {}, done |-> <<>>] ELSE Read(r[k - 1], events[k])
  IN r

\* An item is announced while none of its id is open, told in deltas while it
\* is, and done with just what they told; the response is completed when
\* nothing is open, with the items that were done, in that order.
Follows(r, e) ==
  CASE e.type = "added" -> \A item \in r.open : item.id # e.id
    [] e.type = "delta" -> \E item \in r.open : item.id = e.id
    [] e.type = "done" -> [id |-> e.id, content |-> e.content] \in r.open
    [] OTHER -> r = [open |-> {}, done |-> e.content]

WellFormed ==
  LET r == Reading(sent) IN
  \A k \in DOMAIN sent : Follows(r[k - 1], sent[k]) /\ (sent[k].type = "completed" => k = Len(sent))

\* LiteLLM named the call, another one, and the call again.
ComesBack(call) ==
  \E i, j, k \in DOMAIN chunks :
    /\ i < j /\ j < k /\ chunks[i].named /\ chunks[j].named /\ chunks[k].named
    /\ chunks[i].call = call /\ chunks[j].call # call /\ chunks[k].call = call

\* Two items of one id are of a call that came back.
AnnouncedOnce ==
  \A k, l \in DOMAIN sent :
    k < l /\ sent[k].type = "added" /\ sent[l].type = "added" /\ sent[k].id = sent[l].id
      => \E call \in Calls : sent[k].id = <<"call", turn, call>> /\ ComesBack(call)

\* The stream Codex reads is well formed by the ids of its items, whatever lines
\* LiteLLM sends and wherever it stops; no id is announced twice, but that of a
\* call that is named again after another one; and the deltas that are read, when
\* they come in order, are neither lost, nor doubled, nor given to another
\* call (proxy.ts, translateStream).
StreamFaithful ==
  /\ WellFormed /\ AnnouncedOnce
  /\ Orderly /\ reply = "completed" /\ sent # <<>> =>
       LET named == {chunks[k].call : k \in {j \in DOMAIN chunks : chunks[j] # Blank}} IN
       /\ \A call \in named \ {0} :
            {items[k].content : k \in {j \in DOMAIN items : items[j].id = <<"call", turn, call>>}}
              = {Pieces(call)}
       /\ Len(items) = Cardinality(named)
       /\ 0 \in named => Last(items).content = Pieces(0)

\* The answers have made one tool call at a time.
OneAtATime ==
  \A k \in 1..(Len(history) - 1) : history[k].type = "call" => history[k + 1].type # "call"
\* The texts of the assistant, in messages and in items.
Said(ms) ==
  FlattenSeq([k \in DOMAIN ms |-> IF ms[k].role = "assistant" THEN ms[k].content ELSE <<>>])
Written(input) ==
  FlattenSeq([k \in DOMAIN input |-> IF input[k].type = "text" THEN input[k].content ELSE <<>>])

\* "Anthropic requires tool_result immediately after tool_use" (proxy.ts,
\* buildChatBody): in the messages of a conversation whose answers have made
\* one tool call at a time, the result follows the call; and the text around
\* the calls is all there, in its order.
ToolResultsAdjacent ==
  OneAtATime /\ phase = "fetch" =>
    /\ \A k \in DOMAIN messages : messages[k].calls # <<>> =>
         /\ k < Len(messages) /\ messages[k + 1].role = "tool"
         /\ <<messages[k + 1].content>> = messages[k].calls
    /\ Said(messages) = Written(history)
=============================================================================
