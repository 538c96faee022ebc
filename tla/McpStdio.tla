------------------------------ MODULE McpStdio ------------------------------
(***************************************************************************)
(* One stdio connection of `gitopsctl mcp verify`                          *)
(* (internal/mcp/stdio.go): the child server and the processes it spawns   *)
(* in its group, the goroutine that scans its stdout into the bounded      *)
(* channel, and the client that opens the connection, walks tools/list     *)
(* (HandshakeStdio) or makes one tools/call (ProbeStdio), and closes it.   *)
(*                                                                         *)
(* Time is the single event "the deadline has passed"; sleeps and the      *)
(* flush and reap timeouts are choices the client may take at any moment.  *)
(***************************************************************************)
EXTENDS Integers, Sequences

CONSTANTS
  Procs,     \* processes that may ever live in the child's group
  Leader,    \* the process cmd.Start forks: session and group leader
  ChanCap,   \* capacity of the messages channel (64 in the code)
  ProbeId,   \* request id of the auth probe's tools/call (4242 in the code)
  MaxLines,  \* bound: lines the server writes in all
  MaxReqs    \* bound: the reply to this request has no further cursor

ASSUME McpStdioAssumption ==
  /\ Leader \in Procs
  /\ ChanCap \in Nat \ {0}
  /\ ProbeId \in Nat \ {0, 1}
  /\ MaxLines \in Nat
  /\ MaxReqs \in Nat

VARIABLES
  mode,      \* "handshake" (HandshakeStdio) or "probe" (ProbeStdio)
  pc,        \* control point of the client
  verdict,   \* "none", "ok", or why the attempt failed
  opened,    \* openStdio returned a live client
  asked,     \* requests written so far; the last one is outstanding
  answers,   \* messages Read has returned, in order
  expired,   \* the deadline handed to Read has passed
  live,      \* processes of the child's group still running
  holders,   \* those of them that hold the child's stdin and stdout
  killed,    \* the group was sent SIGKILL
  reaped,    \* cmd.Wait has collected the leader and closed the pipes
  pipe,      \* lines in the child's stdout pipe
  scanner,   \* scanStdout: "idle" (not started), "reading", "sending" (blocked on the channel), "done"
  held,      \* the message scanStdout is sending, NoLine when there is none
  channel,   \* the messages channel
  emitted    \* lines the server has written (bound only)

client == <<mode, pc, verdict, opened, asked, answers>>
group  == <<live, holders, killed, reaped>>
stream == <<pipe, scanner, held, channel>>
vars   == <<client, expired, group, stream, emitted>>

-----------------------------------------------------------------------------
(* What a line of the child's stdout can be.  "req" is the request a reply *)
(* answers (0 for a line that answers none); the code never sees it.       *)

Bodies == {"ok", "more", "error"}
Line == [kind : {"banner", "notification", "request", "reply"},
         id : Nat, req : Nat, body : Bodies]

NoId == 0    \* fmt.Sprint of a missing id: equal to no request id

\* Mutant: rpcID++ forgotten, every page is requested as 2.
RpcIdNotCounted(k) == IF k = 1 THEN 1 ELSE 2

\* initialize is 1, tools/list pages count up from 2, tools/call is ProbeId.
RpcId(k) == IF mode = "probe" /\ k = 2 THEN ProbeId ELSE k

Banner       == [kind |-> "banner", id |-> NoId, req |-> 0, body |-> "ok"]
Notification == [kind |-> "notification", id |-> NoId, req |-> 0, body |-> "ok"]
ServerRequest(i) == [kind |-> "request", id |-> i, req |-> 0, body |-> "ok"]
Reply(k, b)  == [kind |-> "reply", id |-> RpcId(k), req |-> k, body |-> b]

NoLine == Banner    \* a banner is never sent to the channel

IsMessage(line) == line.kind # "banner"      \* parses as a JSON object
IsAnswer(line)  == line.id = RpcId(asked)    \* the id Read is waiting for

ServerLines ==
  {Banner, Notification}
    \cup {ServerRequest(i) : i \in 1..MaxReqs}
    \cup {Reply(k, b) : k \in 1..asked, b \in {"ok", "error"}}
    \cup {Reply(k, "more") : k \in (1..asked) \ {MaxReqs}}

-----------------------------------------------------------------------------
Init ==
  /\ mode \in {"handshake", "probe"}
  /\ pc = "start"
  /\ verdict = "none"
  /\ opened = FALSE
  /\ asked = 0
  /\ answers = <<>>
  /\ expired = FALSE
  /\ live = {} /\ holders = {}
  /\ killed = FALSE /\ reaped = FALSE
  /\ pipe = <<>> /\ scanner = "idle" /\ held = NoLine /\ channel = <<>>
  /\ emitted = 0

(***************************************************************************)
(* The child's process group and the kernel.                               *)
(***************************************************************************)

\* A running process writes a line: a reply to any request it was asked
\* (late, repeated or out of order), or something nobody asked for.
Emit ==
  /\ holders # {} /\ ~killed /\ ~reaped
  /\ emitted < MaxLines
  /\ \E line \in ServerLines : pipe' = Append(pipe, line)
  /\ emitted' = emitted + 1
  /\ UNCHANGED <<client, expired, group, scanner, held, channel>>

\* npx, uvx and deno launchers run the real server as a descendant, which
\* inherits the pipes of the process that spawns it.
Spawn(p, q) ==
  /\ p \in live /\ q \in Procs \ (live \cup {Leader}) /\ ~killed
  /\ live' = live \cup {q}
  /\ holders' = IF p \in holders THEN holders \cup {q} ELSE holders
  /\ UNCHANGED <<client, expired, killed, reaped, stream, emitted>>

CloseStdout(p) ==
  /\ p \in holders /\ ~killed
  /\ holders' = holders \ {p}
  /\ UNCHANGED <<client, expired, live, killed, reaped, stream, emitted>>

Exit(p) ==
  /\ p \in live
  /\ live' = live \ {p}
  /\ holders' = holders \ {p}
  /\ UNCHANGED <<client, expired, killed, reaped, stream, emitted>>

DeadlinePasses ==
  /\ pc \notin {"start", "done"} /\ ~expired
  /\ expired' = TRUE
  /\ UNCHANGED <<client, group, stream, emitted>>

(***************************************************************************)
(* scanStdout.                                                             *)
(***************************************************************************)

\* A banner line goes to the diagnostics; a message goes to the channel,
\* and the goroutine blocks while the channel is full.
ScanLine ==
  /\ scanner = "reading" /\ ~reaped /\ pipe # <<>>
  /\ pipe' = Tail(pipe)
  /\ IF IsMessage(Head(pipe))
       THEN /\ scanner' = "sending"
            /\ held' = Head(pipe)
       ELSE UNCHANGED <<scanner, held>>
  /\ UNCHANGED <<client, expired, group, channel, emitted>>

\* Mutant: the channel has no bound.
ScanSendUnbounded ==
  /\ scanner = "sending"
  /\ channel' = Append(channel, held)
  /\ held' = NoLine
  /\ scanner' = "reading"
  /\ UNCHANGED <<client, expired, group, pipe, emitted>>

ScanSend ==
  /\ scanner = "sending" /\ Len(channel) < ChanCap
  /\ channel' = Append(channel, held)
  /\ held' = NoLine
  /\ scanner' = "reading"
  /\ UNCHANGED <<client, expired, group, pipe, emitted>>

\* End of file once nobody holds the pipe and it is drained, or a read error
\* once cmd.Wait has closed the read end.
ScanEnd ==
  /\ scanner = "reading"
  /\ \/ holders = {} /\ pipe = <<>>
     \/ reaped
  /\ scanner' = "done"
  /\ UNCHANGED <<client, expired, group, pipe, held, channel, emitted>>

InFlight == {pipe[i] : i \in 1..Len(pipe)} \cup {held}
              \cup {channel[i] : i \in 1..Len(channel)}

\* Mutant: eof is closed by cmd.Wait, not when stdout ends.
eofAtWait == reaped

eof == scanner = "done"    \* the eof channel is closed

(***************************************************************************)
(* The client.                                                             *)
(***************************************************************************)

\* The attempt ends with verdict v.  HandshakeStdio and ProbeStdio defer
\* Close only for the client openStdio handed them.
Finish(v) ==
  /\ verdict' = v
  /\ pc' = IF opened THEN "term" ELSE "done"

Start ==
  /\ pc = "start"
  /\ \/ /\ live' = {Leader} /\ holders' = {Leader}
        /\ pc' = "send" /\ scanner' = "reading"
        /\ UNCHANGED verdict
     \/ /\ Finish("start")
        /\ UNCHANGED <<live, holders, scanner>>
  /\ UNCHANGED <<mode, opened, asked, answers, expired, killed, reaped,
                 pipe, held, channel, emitted>>

\* A write succeeds while a process can read it, and fails (EPIPE) once the
\* other end is closed.
SendRequest ==
  /\ pc = "send"
  /\ \/ /\ live # {}
        /\ asked' = asked + 1
        /\ pc' = "top"
        /\ UNCHANGED verdict
     \/ /\ holders = {}
        /\ Finish("write")
        /\ UNCHANGED asked
  /\ UNCHANGED <<mode, opened, answers, expired, group, stream, emitted>>

\* notifications/initialized; ProbeStdio then takes a fresh deadline.
SendInitialized ==
  /\ pc = "notify"
  /\ \/ /\ live # {}
        /\ opened' = TRUE
        /\ pc' = "send"
        /\ expired' = (expired /\ mode # "probe")
        /\ UNCHANGED verdict
     \/ /\ holders = {}
        /\ Finish("write")
        /\ UNCHANGED <<opened, expired>>
  /\ UNCHANGED <<mode, asked, answers, group, stream, emitted>>

\* Read: the deadline is looked at before each select.
CheckDeadline ==
  /\ pc = "top"
  /\ \/ expired /\ Finish("timeout")
     \/ ~expired /\ pc' = "select" /\ UNCHANGED verdict
  /\ UNCHANGED <<mode, opened, asked, answers, expired, group, stream, emitted>>

\* What the caller does with the message Read returns: openStdio checks the
\* error and notifies, listToolsStdio follows the cursor, callToolStdio
\* checks error and isError.
\* Mutant: the cursor is ignored.
ContinuesOnce(msg) == asked = 1

Continues(msg) == asked = 1 \/ (mode = "handshake" /\ msg.body = "more")

\* Mutant: the error member of the answer is not looked at.
DispatchNoErrorCheck(msg) ==
  \/ /\ Continues(msg)
     /\ pc' = IF asked = 1 THEN "notify" ELSE "send"
     /\ UNCHANGED verdict
  \/ ~Continues(msg) /\ Finish("ok")

Dispatch(msg) ==
  \/ msg.body = "error" /\ Finish("error")
  \/ /\ msg.body # "error" /\ Continues(msg)
     /\ pc' = IF asked = 1 THEN "notify" ELSE "send"
     /\ UNCHANGED verdict
  \/ msg.body # "error" /\ ~Continues(msg) /\ Finish("ok")

Accept(msg) ==
  /\ answers' = Append(answers, msg)
  /\ Dispatch(msg)

SelectMessage ==
  /\ pc = "select" /\ channel # <<>>
  /\ channel' = Tail(channel)
  /\ IF IsAnswer(Head(channel))
       THEN Accept(Head(channel))
       ELSE pc' = "top" /\ UNCHANGED <<verdict, answers>>
  /\ UNCHANGED <<mode, opened, asked, expired, group, pipe, scanner, held, emitted>>

\* drainBuffered: the first buffered answer counts, and what precedes it is
\* discarded; with none, the whole buffer is.
Buffered == {i \in 1..Len(channel) : IsAnswer(channel[i])}

\* Mutant: eof gives up at once, without drainBuffered.
SelectEofUndrained ==
  /\ pc = "select" /\ eof
  /\ pc' = "flush"
  /\ UNCHANGED <<mode, verdict, opened, asked, answers, expired, group, stream, emitted>>

SelectEof ==
  /\ pc = "select" /\ eof
  /\ \/ /\ Buffered = {}
        /\ channel' = <<>>
        /\ pc' = "flush"
        /\ UNCHANGED <<verdict, answers>>
     \/ \E i \in Buffered :
          /\ \A j \in Buffered : i <= j
          /\ channel' = SubSeq(channel, i + 1, Len(channel))
          /\ Accept(channel[i])
  /\ UNCHANGED <<mode, opened, asked, expired, group, pipe, scanner, held, emitted>>

\* Mutant: only the opening's Read arms the timer.
SelectTimerOpening ==
  /\ pc = "select" /\ expired /\ ~opened
  /\ Finish("timeout")
  /\ UNCHANGED <<mode, opened, asked, answers, expired, group, stream, emitted>>

SelectTimer ==
  /\ pc = "select" /\ expired
  /\ Finish("timeout")
  /\ UNCHANGED <<mode, opened, asked, answers, expired, group, stream, emitted>>

\* Wait for stderr to end, at most a second, so that the crash reason is seen.
FlushStderr ==
  /\ pc = "flush"
  /\ Finish("exited")
  /\ UNCHANGED <<mode, opened, asked, answers, expired, group, stream, emitted>>

\* Mutant: the group is spared when its leader has exited by itself.
CloseTermLeaderOnly ==
  /\ pc = "term"
  /\ pc' = IF Leader \notin live THEN "reap" ELSE "grace"
  /\ UNCHANGED <<mode, verdict, opened, asked, answers, expired, group, stream, emitted>>

\* Close: SIGTERM to the group, half a second, SIGKILL; both only while the
\* leader can still be signalled (it is running, or not yet waited for).
CloseTerm ==
  /\ pc = "term"
  /\ pc' = IF reaped THEN "reap" ELSE "grace"
  /\ UNCHANGED <<mode, verdict, opened, asked, answers, expired, group, stream, emitted>>

CloseKill ==
  /\ pc = "grace"
  /\ killed' = TRUE
  /\ pc' = "reap"
  /\ UNCHANGED <<mode, verdict, opened, asked, answers, expired, live, holders,
                 reaped, stream, emitted>>

\* Close returns when cmd.Wait has, or after five seconds.
CloseReturn ==
  /\ pc = "reap"
  /\ pc' = "done"
  /\ UNCHANGED <<mode, verdict, opened, asked, answers, expired, group, stream, emitted>>

\* Mutant: the wait is abandoned when Close stops waiting for it.
ReapBeforeReturn ==
  /\ opened /\ pc = "reap"
  /\ Leader \notin live /\ ~reaped
  /\ reaped' = TRUE
  /\ UNCHANGED <<client, expired, live, holders, killed, stream, emitted>>

\* The goroutine in cmd.Wait, which goes on after Close has given up on it.
Reap ==
  /\ opened /\ pc \in {"reap", "done"}
  /\ Leader \notin live /\ ~reaped
  /\ reaped' = TRUE
  /\ UNCHANGED <<client, expired, live, holders, killed, stream, emitted>>

-----------------------------------------------------------------------------
Client ==
  \/ Start \/ SendRequest \/ SendInitialized \/ CheckDeadline
  \/ SelectMessage \/ SelectEof \/ SelectTimer \/ FlushStderr
  \/ CloseTerm \/ CloseKill \/ CloseReturn

Scanner == ScanLine \/ ScanSend \/ ScanEnd

Environment ==
  \/ Emit \/ DeadlinePasses
  \/ \E p, q \in Procs : Spawn(p, q)
  \/ \E p \in Procs : CloseStdout(p) \/ Exit(p)

Next == Client \/ Scanner \/ Reap \/ Environment

Spec == Init /\ [][Next]_vars

\* The Go runtime schedules both goroutines and the waiter; a killed process
\* dies.  Nothing is assumed of a server that was not killed, nor that the
\* deadline passes.
KilledExit == killed /\ \E p \in Procs : Exit(p)
Fairness ==
  /\ WF_vars(Client) /\ WF_vars(Scanner) /\ WF_vars(Reap)
  /\ WF_vars(KilledExit)

FairSpec == Spec /\ Fairness

-----------------------------------------------------------------------------
(***************************************************************************)
(* Properties.                                                             *)
(***************************************************************************)

Points == {"start", "send", "top", "select", "notify", "flush",
           "term", "grace", "reap", "done"}
Verdicts == {"none", "ok", "start", "write", "timeout", "exited", "error"}

\* The types of the variables (stdio.go:28-44 and the locals of Read,
\* openStdio and listToolsStdio).
TypeOK ==
  /\ mode \in {"handshake", "probe"}
  /\ pc \in Points
  /\ verdict \in Verdicts
  /\ opened \in BOOLEAN
  /\ asked \in Nat
  /\ answers \in Seq(Line)
  /\ expired \in BOOLEAN
  /\ live \subseteq Procs
  /\ holders \subseteq live
  /\ killed \in BOOLEAN
  /\ reaped \in BOOLEAN
  /\ pipe \in Seq(Line)
  /\ scanner \in {"idle", "reading", "sending", "done"}
  /\ held \in Line
  /\ channel \in Seq(Line)
  /\ Len(channel) <= ChanCap
  /\ emitted \in 0..MaxLines

\* No frame is read as the answer to another request, however late, repeated
\* or reordered the server's replies are: the n-th message Read returned
\* carries the n-th request's id and, if it is a reply, answers that request;
\* a request of the server that has this id is taken for one
\* (manifest.go:23-26, stdio.go:152-168 and 230-255).
AnswersInOrder ==
  \A n \in 1..Len(answers) :
    /\ answers[n].id = RpcId(n)
    /\ answers[n].kind = "reply" => answers[n].req = n

\* "A reply that was already buffered still counts" (stdio.go:170-171): when
\* Read gives up because the child closed its stdout, no answer to the
\* outstanding request is left anywhere between the child and the client.
BufferedReplyCounts ==
  pc = "flush" => \A line \in InFlight : ~IsAnswer(line)

\* The attempt as McpVerify uses it.
Attempt == INSTANCE McpAttempt WITH
  answered <- answers # <<>>,
  last     <- IF answers = <<>> THEN "none" ELSE answers[Len(answers)].body,
  outcome  <- IF verdict = "none" THEN "open"
             ELSE IF verdict = "ok" THEN "ok" ELSE "failed"

\* The connection implements the abstract attempt: answers are taken one at
\* a time, the verdict is passed once and never revised.
ImplementsAttempt == Attempt!Spec

\* A passing verdict is earned: initialize was answered without an error and
\* so was every later request; a handshake followed every cursor to the last
\* page, a probe made exactly one call.
VerdictEarned ==
  verdict = "ok" =>
    /\ Len(answers) = asked /\ asked >= 2
    /\ \A n \in 1..Len(answers) : answers[n].body # "error"
    /\ mode = "handshake" =>
         /\ \A n \in 2..(asked - 1) : answers[n].body = "more"
         /\ answers[asked].body = "ok"
    /\ mode = "probe" => asked = 2

\* Once the connection was opened, nothing of the child's group is left
\* running when the attempt is over, except what SIGKILL is about to end
\* (stdio.go:208-225).
ClosedMeansKilled == opened /\ pc = "done" => killed

\* The deadline bounds the attempt whatever the server does
\* (stdio.go:383-384): once it has passed, the attempt ends, or the probe
\* goes on to its call with a deadline of its own.
DeadlineEndsIt == expired ~> (pc = "done" \/ ~expired)

\* A server that has exited is noticed without waiting for the deadline,
\* which nothing forces to pass here (stdio.go:169-180).
ExitIsNoticed == (live = {} /\ pc # "start") ~> (pc = "done")

\* Close ends with the whole group dead and its leader reaped, even if the
\* five seconds it waits are not enough (stdio.go:208-225).
ClosedIsReaped == (pc = "term") ~> (live = {} /\ reaped)

\* "nothing can outlive the handshake" (stdio.go:26-27), for every attempt.
NothingOutlives == pc = "done" => live = {} \/ killed

-----------------------------------------------------------------------------
(***************************************************************************)
(* The inductive invariant the proofs use.                                 *)
(***************************************************************************)
Ended   == {"term", "grace", "reap", "done"}
Waiting == {"top", "select", "flush"}

\* A reply names a request that was sent, by that request's id.
Honest(line) ==
  line.kind = "reply" => line.req \in 1..asked /\ line.id = RpcId(line.req)

LinesAreHonest ==
  /\ Honest(held)
  /\ \A i \in 1..Len(pipe) : Honest(pipe[i])
  /\ \A i \in 1..Len(channel) : Honest(channel[i])
  /\ \A i \in 1..Len(answers) : Honest(answers[i])

\* End of file means that the pipe is drained and nothing can refill it.
ScannerState ==
  /\ scanner = "sending" \/ held = NoLine
  /\ pc = "start" => scanner = "idle"
  /\ scanner = "done" /\ ~reaped => pipe = <<>> /\ holders = {}
  /\ reaped => pc \in {"reap", "done"}
  /\ pc = "flush" => scanner = "done" /\ channel = <<>>

\* Where the client is, against what it has asked and been answered.
ClientState ==
  /\ verdict = "none" <=> pc \notin Ended
  /\ pc \in {"start", "send", "notify"} => Len(answers) = asked
  /\ pc \in Waiting => asked = Len(answers) + 1
  /\ pc = "notify" => asked = 1 /\ ~opened
  /\ pc \in {"start", "send"} /\ ~opened => asked = 0
  /\ pc \in Waiting /\ ~opened => asked = 1
  /\ pc = "send" /\ opened => asked >= 1
  /\ pc \in Waiting /\ opened => asked >= 2
  /\ pc = "start" => ~opened
  /\ pc \in Ended \ {"done"} => opened
  /\ mode = "probe" => asked <= 2 /\ (pc = "send" => asked <= 1)
  /\ opened /\ pc \in {"reap", "done"} => killed

AnswersSoFar ==
  /\ \A n \in 1..Len(answers) : answers[n].id = RpcId(n) /\ n <= asked
  /\ pc \notin Ended =>
       \A n \in 1..Len(answers) :
         /\ answers[n].body # "error"
         /\ n >= 2 => mode = "handshake" /\ answers[n].body = "more"

Inv == TypeOK /\ LinesAreHonest /\ ScannerState /\ ClientState /\ AnswersSoFar /\ VerdictEarned
=============================================================================
