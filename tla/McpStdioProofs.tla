--------------------------- MODULE McpStdioProofs ---------------------------
(***************************************************************************)
(* McpStdio for every group, channel capacity and number of lines: its     *)
(* types, the safety of its verdicts, and that it implements McpAttempt.   *)
(***************************************************************************)
EXTENDS McpStdio, SequenceTheorems, TLAPS

\* Lines are well formed.
LEMMA LineTypes ==
  /\ Banner \in Line
  /\ Banner.id = 0 /\ Banner.kind = "banner"
  /\ TypeOK => \A line \in ServerLines : line \in Line
<1> USE DEF Banner, Line, NoId, Bodies
<1>1. Banner \in Line /\ Banner.id = 0 /\ Banner.kind = "banner"
  OBVIOUS
<1>2. ASSUME TypeOK, NEW line \in ServerLines PROVE line \in Line
  BY <1>2, McpStdioAssumption
     DEF ServerLines, Notification, ServerRequest, Reply, RpcId, TypeOK
<1>. QED  BY <1>1, <1>2

\* Request ids tell the requests of one connection apart.
LEMMA RpcIdInjective ==
  ASSUME NEW m \in Nat \ {0}, NEW n \in Nat \ {0}, RpcId(m) = RpcId(n),
         mode = "probe" => m <= 2 /\ n <= 2
  PROVE  m = n
BY McpStdioAssumption DEF RpcId

\* The initial state satisfies the invariant.
LEMMA InitInv == Init => Inv
<1> SUFFICES ASSUME Init PROVE Inv
  OBVIOUS
<1> USE DEF Init
<1>1. TypeOK
  <2>1. NoLine \in Line
    BY LineTypes DEF NoLine
  <2>2. <<>> \in Seq(Line) /\ Len(<<>>) <= ChanCap
    BY McpStdioAssumption
  <2>3. 0 \in 0..MaxLines
    BY McpStdioAssumption
  <2>. QED  BY <2>1, <2>2, <2>3 DEF TypeOK, Verdicts, Points
<1>2. LinesAreHonest /\ ScannerState
  BY LineTypes DEF LinesAreHonest, Honest, ScannerState, NoLine
<1>3. ClientState /\ AnswersSoFar /\ VerdictEarned
  BY DEF ClientState, AnswersSoFar, VerdictEarned, Ended, Waiting
<1>. QED  BY <1>1, <1>2, <1>3 DEF Inv

\* What taking an answer does to the client's types.
LEMMA AcceptTypes ==
  ASSUME TypeOK, NEW msg \in Line, Accept(msg)
  PROVE  answers' \in Seq(Line) /\ pc' \in Points /\ verdict' \in Verdicts
<1>1. answers' \in Seq(Line)
  BY DEF Accept, TypeOK
<1>2. pc' \in Points /\ verdict' \in Verdicts
  BY DEF Accept, Dispatch, Finish, TypeOK, Points, Verdicts
<1>. QED  BY <1>1, <1>2

\* Types are preserved.
LEMMA TypeStep == TypeOK /\ [Next]_vars => TypeOK'
<1> SUFFICES ASSUME TypeOK, [Next]_vars PROVE TypeOK'
  OBVIOUS
<1> USE DEF TypeOK
<1>1. CASE Start
  BY <1>1, McpStdioAssumption DEF Start, Finish, Verdicts, Points, stream
<1>2. CASE SendRequest
  BY <1>2 DEF SendRequest, Finish, Verdicts, Points, group, stream
<1>3. CASE SendInitialized
  BY <1>3 DEF SendInitialized, Finish, Verdicts, Points, group, stream
<1>4. CASE CheckDeadline
  BY <1>4 DEF CheckDeadline, Finish, Verdicts, Points, group, stream
<1>5. CASE SelectMessage
  <2>1. channel # <<>> /\ channel' = Tail(channel)
    BY <1>5 DEF SelectMessage
  <2>2. Head(channel) \in Line /\ channel' \in Seq(Line) /\ Len(channel') <= ChanCap
    BY <2>1, McpStdioAssumption
  <2>3. answers' \in Seq(Line) /\ pc' \in Points /\ verdict' \in Verdicts
    <3>1. CASE Accept(Head(channel))
      BY <2>2, <3>1, AcceptTypes
    <3>2. CASE pc' = "top" /\ UNCHANGED <<verdict, answers>>
      BY <3>2 DEF Points
    <3>. QED  BY <1>5, <3>1, <3>2 DEF SelectMessage
  <2>. QED  BY <1>5, <2>2, <2>3 DEF SelectMessage, group
<1>6. CASE SelectEof
  <2>1. CASE Buffered = {} /\ channel' = <<>> /\ pc' = "flush" /\ UNCHANGED <<verdict, answers>>
    BY <1>6, <2>1, McpStdioAssumption DEF SelectEof, Points, group
  <2>2. ASSUME NEW i \in Buffered, channel' = SubSeq(channel, i + 1, Len(channel)),
               Accept(channel[i])
        PROVE  TypeOK'
    <3>1. i \in 1..Len(channel) /\ channel[i] \in Line
      BY DEF Buffered
    <3>2. channel' \in Seq(Line) /\ Len(channel') <= ChanCap
      BY <2>2, <3>1, McpStdioAssumption
    <3>3. answers' \in Seq(Line) /\ pc' \in Points /\ verdict' \in Verdicts
      BY <2>2, <3>1, AcceptTypes
    <3>. QED  BY <1>6, <3>2, <3>3 DEF SelectEof, group
  <2>. QED  BY <1>6, <2>1, <2>2 DEF SelectEof
<1>7. CASE SelectTimer
  BY <1>7 DEF SelectTimer, Finish, Verdicts, Points, group, stream
<1>8. CASE FlushStderr
  BY <1>8 DEF FlushStderr, Finish, Verdicts, Points, group, stream
<1>9. CASE CloseTerm \/ CloseKill \/ CloseReturn
  BY <1>9 DEF CloseTerm, CloseKill, CloseReturn, Points, group, stream
<1>10. CASE ScanLine
  BY <1>10 DEF ScanLine, client, group
<1>11. CASE ScanSend
  BY <1>11, LineTypes, McpStdioAssumption DEF ScanSend, client, group, NoLine
<1>12. CASE ScanEnd
  BY <1>12 DEF ScanEnd, client, group
<1>13. CASE Reap
  BY <1>13 DEF Reap, client, stream
<1>14. CASE Emit
  BY <1>14, LineTypes, McpStdioAssumption DEF Emit, client, group
<1>15. CASE DeadlinePasses
  BY <1>15 DEF DeadlinePasses, client, group, stream
<1>16. CASE \E p, q \in Procs : Spawn(p, q)
  BY <1>16 DEF Spawn, client, stream
<1>17. CASE \E p \in Procs : CloseStdout(p) \/ Exit(p)
  BY <1>17 DEF CloseStdout, Exit, client, stream
<1>18. CASE UNCHANGED vars
  BY <1>18 DEF vars, client, group, stream
<1>. QED
  BY <1>1, <1>2, <1>3, <1>4, <1>5, <1>6, <1>7, <1>8, <1>9, <1>10, <1>11, <1>12,
     <1>13, <1>14, <1>15, <1>16, <1>17, <1>18
     DEF Next, Client, Scanner, Environment

\* Taking an honest answer to the outstanding request keeps the client's
\* bookkeeping right, and only the last page or the probe's answer passes.
LEMMA AcceptStep ==
  ASSUME Inv, pc = "select", NEW msg \in Line, Honest(msg), msg.id = RpcId(asked),
         Accept(msg), UNCHANGED <<mode, opened, asked, killed, reaped>>
  PROVE  /\ ClientState' /\ AnswersSoFar' /\ VerdictEarned'
         /\ \A i \in 1..Len(answers') : Honest(answers[i])'
         /\ pc' \notin {"start", "flush"} /\ ~reaped'
<1> DEFINE n == Len(answers)
<1>1. /\ n \in Nat /\ asked = n + 1 /\ asked \in Nat \ {0}
      /\ Len(answers') = n + 1
      /\ answers'[n + 1] = msg
      /\ \A i \in 1..n : answers'[i] = answers[i]
  BY DEF Inv, TypeOK, ClientState, Waiting, Accept
<1>2. \A i \in 1..Len(answers') : Honest(answers[i])'
  BY <1>1 DEF Inv, LinesAreHonest, Honest, RpcId
<1>3. /\ pc' \notin {"start", "flush"} /\ ~reaped
      /\ pc' \in {"notify", "send", "term", "done"}
  BY DEF Inv, ScannerState, Accept, Dispatch, Finish
<1>4. ClientState'
  <2>1. verdict = "none" /\ (asked = 1 <=> ~opened) /\ (mode = "probe" => asked <= 2)
    BY DEF Inv, ClientState, Ended, Waiting, TypeOK
  <2>2. CASE msg.body = "error" /\ Finish("error")
    BY <1>1, <2>1, <2>2 DEF ClientState, Ended, Waiting, Finish, Inv, TypeOK
  <2>3. CASE /\ Continues(msg)
             /\ pc' = IF asked = 1 THEN "notify" ELSE "send"
             /\ UNCHANGED verdict
    BY <1>1, <2>1, <2>3 DEF ClientState, Ended, Waiting, Continues, Inv, TypeOK
  <2>4. CASE ~Continues(msg) /\ Finish("ok")
    BY <1>1, <2>1, <2>4 DEF ClientState, Ended, Waiting, Finish, Continues, Inv, TypeOK
  <2>. QED  BY <2>2, <2>3, <2>4 DEF Accept, Dispatch
<1>5. /\ \A i \in 1..n : /\ answers[i].body # "error"
                         /\ i >= 2 => mode = "handshake" /\ answers[i].body = "more"
      /\ \A i \in 1..n : answers[i].id = RpcId(i) /\ i <= asked
  BY DEF Inv, ClientState, AnswersSoFar, Ended
<1>6. AnswersSoFar'
  <2>1. \A i \in 1..Len(answers') : (answers[i].id = RpcId(i) /\ i <= asked)'
    BY <1>1, <1>5 DEF RpcId, Inv, TypeOK
  <2>2. ASSUME pc' \notin Ended
        PROVE  /\ msg.body # "error"
               /\ n + 1 >= 2 => mode = "handshake" /\ msg.body = "more"
    BY <1>1, <2>2 DEF Accept, Dispatch, Continues, Finish, Ended
  <2>. QED  BY <1>1, <1>5, <2>1, <2>2 DEF AnswersSoFar, Ended
<1>7. VerdictEarned'
  <2>1. SUFFICES ASSUME verdict' = "ok"
                 PROVE  VerdictEarned'
    BY DEF VerdictEarned
  <2>2. msg.body # "error" /\ ~Continues(msg)
    BY <2>1 DEF Accept, Dispatch, Finish, Inv, ClientState, Ended
  <2>3. asked >= 2 /\ Len(answers') = asked /\ (mode = "handshake" => msg.body = "ok")
    BY <1>1, <2>2 DEF Continues, Line, Bodies
  <2>4. mode = "probe" => asked = 2
    BY <2>3 DEF Inv, ClientState, TypeOK
  <2>. QED  BY <1>1, <1>5, <2>2, <2>3, <2>4 DEF VerdictEarned, Inv, TypeOK
<1>. QED  BY <1>2, <1>3, <1>4, <1>6, <1>7

\* Whatever a server writes, its replies name requests it was sent.
LEMMA ServerIsHonest == TypeOK => \A line \in ServerLines : Honest(line)
BY DEF ServerLines, Honest, Banner, Notification, ServerRequest, Reply, TypeOK

\* A step that leaves the client alone keeps what is said of the client.
LEMMA ClientUnchanged ==
  ASSUME Inv, UNCHANGED client, UNCHANGED killed
  PROVE  ClientState' /\ AnswersSoFar' /\ VerdictEarned'
         /\ \A i \in 1..Len(answers') : Honest(answers[i])'
<1>1. ClientState'
  BY DEF Inv, ClientState, client
<1>2. AnswersSoFar' /\ VerdictEarned'
  BY DEF Inv, AnswersSoFar, VerdictEarned, client, RpcId
<1>3. \A i \in 1..Len(answers') : Honest(answers[i])'
  BY DEF Inv, LinesAreHonest, Honest, client, RpcId
<1>. QED  BY <1>1, <1>2, <1>3

\* A step that only moves the client's control point or passes a failing
\* verdict keeps what is said of its answers.
LEMMA AnswersUnchanged ==
  ASSUME Inv, UNCHANGED <<mode, answers>>, asked' >= asked, asked' \in Nat,
         pc \in Ended => pc' \in Ended,
         (verdict' = verdict /\ asked' = asked) \/ verdict' # "ok"
  PROVE  AnswersSoFar' /\ VerdictEarned' /\ \A i \in 1..Len(answers') : Honest(answers[i])'
<1>1. AnswersSoFar'
  BY DEF Inv, TypeOK, AnswersSoFar, RpcId
<1>2. VerdictEarned'
  BY DEF Inv, VerdictEarned
<1>3. \A i \in 1..Len(answers') : Honest(answers[i])'
  BY DEF Inv, TypeOK, LinesAreHonest, Honest, RpcId
<1>. QED  BY <1>1, <1>2, <1>3

\* The lines between child and client stay honest when none is added.
LEMMA StreamUnchanged ==
  ASSUME Inv, UNCHANGED <<mode, pipe, held, channel>>, asked' >= asked, asked' \in Nat
  PROVE  /\ Honest(held)'
         /\ \A i \in 1..Len(pipe') : Honest(pipe[i])'
         /\ \A i \in 1..Len(channel') : Honest(channel[i])'
BY DEF Inv, TypeOK, LinesAreHonest, Honest, RpcId

\* The client's steps preserve the invariant.
LEMMA ClientStep == Inv /\ TypeOK' /\ Client => Inv'
<1> SUFFICES ASSUME Inv, TypeOK', Client PROVE Inv'
  OBVIOUS
<1> USE DEF ClientState, Ended, Waiting
<1>0. TypeOK /\ ScannerState /\ ClientState
  BY DEF Inv
<1>1. CASE Start
  <2>1. ClientState' /\ ScannerState'
    BY <1>0, <1>1 DEF Start, Finish, ScannerState, TypeOK
  <2>2. LinesAreHonest' /\ AnswersSoFar' /\ VerdictEarned'
    BY <1>0, <1>1, AnswersUnchanged, StreamUnchanged DEF Start, Finish, LinesAreHonest, TypeOK
  <2>. QED  BY <2>1, <2>2 DEF Inv
<1>2. CASE SendRequest
  <2>1. ClientState' /\ ScannerState'
    BY <1>0, <1>2 DEF SendRequest, Finish, ScannerState, TypeOK, group, stream
  <2>2. LinesAreHonest' /\ AnswersSoFar' /\ VerdictEarned'
    BY <1>0, <1>2, AnswersUnchanged, StreamUnchanged
       DEF SendRequest, Finish, LinesAreHonest, TypeOK, stream
  <2>. QED  BY <2>1, <2>2 DEF Inv
<1>3. CASE SendInitialized
  <2>1. ClientState' /\ ScannerState'
    BY <1>0, <1>3 DEF SendInitialized, Finish, ScannerState, TypeOK, group, stream
  <2>2. LinesAreHonest' /\ AnswersSoFar' /\ VerdictEarned'
    BY <1>0, <1>3, AnswersUnchanged, StreamUnchanged
       DEF SendInitialized, Finish, LinesAreHonest, TypeOK, stream
  <2>. QED  BY <2>1, <2>2 DEF Inv
<1>4. CASE CheckDeadline \/ SelectTimer \/ FlushStderr
  <2>1. ClientState' /\ ScannerState'
    BY <1>0, <1>4 DEF CheckDeadline, SelectTimer, FlushStderr, Finish, ScannerState, TypeOK, group, stream
  <2>2. LinesAreHonest' /\ AnswersSoFar' /\ VerdictEarned'
    BY <1>0, <1>4, AnswersUnchanged, StreamUnchanged
       DEF CheckDeadline, SelectTimer, FlushStderr, Finish, LinesAreHonest, TypeOK, stream
  <2>. QED  BY <2>1, <2>2 DEF Inv
<1>5. CASE CloseTerm \/ CloseKill \/ CloseReturn
  <2>1. ClientState' /\ ScannerState'
    BY <1>0, <1>5 DEF CloseTerm, CloseKill, CloseReturn, ScannerState, TypeOK, group, stream
  <2>2. LinesAreHonest' /\ AnswersSoFar' /\ VerdictEarned'
    BY <1>0, <1>5, AnswersUnchanged, StreamUnchanged
       DEF CloseTerm, CloseKill, CloseReturn, LinesAreHonest, TypeOK, stream
  <2>. QED  BY <2>1, <2>2 DEF Inv
<1>6. CASE SelectMessage
  <2>1. /\ channel # <<>> /\ channel' = Tail(channel) /\ Head(channel) \in Line
        /\ Honest(Head(channel))
        /\ \A i \in 1..Len(channel') : Honest(channel'[i])
        /\ UNCHANGED <<mode, opened, asked, killed, reaped, pipe, held, scanner, holders>>
    BY <1>0, <1>6 DEF SelectMessage, TypeOK, Inv, LinesAreHonest, group
  <2>2. /\ Honest(held)' /\ \A i \in 1..Len(pipe') : Honest(pipe[i])'
        /\ \A i \in 1..Len(channel') : Honest(channel[i])'
    BY <2>1 DEF Inv, LinesAreHonest, Honest, RpcId
  <2>3. CASE IsAnswer(Head(channel)) /\ Accept(Head(channel))
    <3>1. /\ ClientState' /\ AnswersSoFar' /\ VerdictEarned'
          /\ \A i \in 1..Len(answers') : Honest(answers[i])'
          /\ pc' \notin {"start", "flush"} /\ ~reaped'
      BY <1>6, <2>1, <2>3, AcceptStep DEF SelectMessage, IsAnswer
    <3>2. ScannerState'
      BY <1>0, <2>1, <3>1 DEF ScannerState
    <3>. QED  BY <2>2, <3>1, <3>2 DEF Inv, LinesAreHonest
  <2>4. CASE pc' = "top" /\ UNCHANGED <<verdict, answers>>
    <3>1. ClientState' /\ ScannerState'
      BY <1>0, <1>6, <2>1, <2>4 DEF SelectMessage, ScannerState, TypeOK
    <3>2. AnswersSoFar' /\ VerdictEarned' /\ \A i \in 1..Len(answers') : Honest(answers[i])'
      BY <1>0, <1>6, <2>1, <2>4, AnswersUnchanged DEF SelectMessage, TypeOK
    <3>. QED  BY <2>2, <3>1, <3>2 DEF Inv, LinesAreHonest
  <2>. QED  BY <1>6, <2>3, <2>4 DEF SelectMessage
<1>7. CASE SelectEof
  <2>1. UNCHANGED <<mode, opened, asked, killed, reaped, pipe, held, scanner, holders>>
        /\ eof /\ pc = "select"
    BY <1>7 DEF SelectEof, group
  <2>2. Honest(held)' /\ \A i \in 1..Len(pipe') : Honest(pipe[i])'
    BY <2>1 DEF Inv, LinesAreHonest, Honest, RpcId
  <2>3. CASE channel' = <<>> /\ pc' = "flush" /\ UNCHANGED <<verdict, answers>>
    <3>1. ClientState' /\ ScannerState'
      BY <1>0, <2>1, <2>3 DEF ScannerState, TypeOK, eof
    <3>2. AnswersSoFar' /\ VerdictEarned' /\ \A i \in 1..Len(answers') : Honest(answers[i])'
      BY <1>0, <2>1, <2>3, AnswersUnchanged DEF TypeOK
    <3>. QED  BY <2>2, <2>3, <3>1, <3>2 DEF Inv, LinesAreHonest
  <2>4. ASSUME NEW i \in Buffered, channel' = SubSeq(channel, i + 1, Len(channel)),
               Accept(channel[i])
        PROVE  Inv'
    <3>1. /\ i \in 1..Len(channel) /\ channel[i] \in Line /\ Honest(channel[i])
          /\ channel[i].id = RpcId(asked)
      BY <1>0 DEF Buffered, TypeOK, Inv, LinesAreHonest, IsAnswer
    <3>2. /\ ClientState' /\ AnswersSoFar' /\ VerdictEarned'
          /\ \A k \in 1..Len(answers') : Honest(answers[k])'
          /\ pc' \notin {"start", "flush"} /\ ~reaped'
      BY <2>1, <2>4, <3>1, AcceptStep
    <3>3. ScannerState'
      BY <1>0, <2>1, <3>2 DEF ScannerState
    <3>4. \A k \in 1..Len(channel') : channel'[k] = channel[i + k] /\ i + k \in 1..Len(channel)
      BY <1>0, <2>4, <3>1 DEF TypeOK
    <3>5. \A k \in 1..Len(channel') : Honest(channel[k])'
      BY <2>1, <3>4 DEF Inv, LinesAreHonest, Honest, RpcId
    <3>. QED  BY <2>2, <3>2, <3>3, <3>5 DEF Inv, LinesAreHonest
  <2>. QED  BY <1>7, <2>3, <2>4 DEF SelectEof
<1>. QED  BY <1>1, <1>2, <1>3, <1>4, <1>5, <1>6, <1>7 DEF Client

\* The steps of the scanner, the waiter and the environment preserve it.
LEMMA OtherStep == Inv /\ TypeOK' /\ (Scanner \/ Reap \/ Environment) => Inv'
<1> SUFFICES ASSUME Inv, TypeOK', Scanner \/ Reap \/ Environment PROVE Inv'
  OBVIOUS
<1>0. TypeOK /\ ScannerState /\ LinesAreHonest
  BY DEF Inv
<1>1. UNCHANGED <<client, killed>>
  BY DEF Scanner, Reap, Environment, ScanLine, ScanSend, ScanEnd, Emit, DeadlinePasses,
         Spawn, CloseStdout, Exit, group
<1>2. /\ ClientState' /\ AnswersSoFar' /\ VerdictEarned'
      /\ \A i \in 1..Len(answers') : Honest(answers[i])'
  BY <1>1, ClientUnchanged
<1>3. pc' = pc /\ mode' = mode /\ asked' = asked /\ opened' = opened
  BY <1>1 DEF client
<1>4. SUFFICES /\ ScannerState' /\ Honest(held)'
               /\ \A i \in 1..Len(pipe') : Honest(pipe[i])'
               /\ \A i \in 1..Len(channel') : Honest(channel[i])'
  BY <1>2 DEF Inv, LinesAreHonest
<1>5. ASSUME UNCHANGED <<pipe, held, channel>>
      PROVE  /\ Honest(held)' /\ \A i \in 1..Len(pipe') : Honest(pipe[i])'
             /\ \A i \in 1..Len(channel') : Honest(channel[i])'
  BY <1>0, <1>3, <1>5, StreamUnchanged DEF TypeOK
<1>6. CASE ScanLine
  <2>1. /\ pipe # <<>> /\ pipe' = Tail(pipe) /\ channel' = channel
        /\ held' \in {held, Head(pipe)} /\ Honest(Head(pipe))
    BY <1>0, <1>6 DEF ScanLine, TypeOK, LinesAreHonest
  <2>2. \A i \in 1..Len(pipe') : pipe'[i] = pipe[i + 1] /\ i + 1 \in 1..Len(pipe)
    BY <1>0, <2>1 DEF TypeOK
  <2>3. ScannerState'
    BY <1>0, <1>3, <1>6 DEF ScanLine, ScannerState, group
  <2>. QED  BY <1>0, <1>3, <2>1, <2>2, <2>3 DEF LinesAreHonest, Honest, RpcId
<1>7. CASE ScanSend
  <2>1. channel' = Append(channel, held) /\ pipe' = pipe /\ held' = NoLine
    BY <1>7 DEF ScanSend
  <2>2. ScannerState'
    BY <1>0, <1>3, <1>7 DEF ScanSend, ScannerState, group
  <2>3. Honest(held)'
    BY <2>1 DEF Honest, NoLine, Banner
  <2>4. \A i \in 1..Len(channel') : channel'[i] = held \/ (i \in 1..Len(channel) /\ channel'[i] = channel[i])
    <3>1. channel \in Seq(Line) /\ held \in Line
      BY <1>0 DEF TypeOK
    <3>2. /\ Len(channel') = Len(channel) + 1 /\ channel'[Len(channel) + 1] = held
          /\ \A i \in 1..Len(channel) : channel'[i] = channel[i]
      BY <2>1, <3>1, AppendProperties
    <3>. QED  BY <3>1, <3>2
  <2>. QED  BY <1>0, <1>3, <2>1, <2>2, <2>3, <2>4 DEF LinesAreHonest, Honest, RpcId
<1>8. CASE ScanEnd
  BY <1>0, <1>3, <1>5, <1>8 DEF ScanEnd, ScannerState, group
<1>9. CASE Reap
  BY <1>0, <1>3, <1>5, <1>9 DEF Reap, ScannerState, stream
<1>10. CASE Emit
  <2>1. PICK line \in ServerLines : pipe' = Append(pipe, line)
    BY <1>10 DEF Emit
  <2>2. Honest(line)
    BY <1>0, ServerIsHonest
  <2>3. \A i \in 1..Len(pipe') : pipe'[i] = line \/ (i \in 1..Len(pipe) /\ pipe'[i] = pipe[i])
    <3>1. pipe \in Seq(Line) /\ line \in Line
      BY <1>0, LineTypes DEF TypeOK
    <3>2. /\ Len(pipe') = Len(pipe) + 1 /\ pipe'[Len(pipe) + 1] = line
          /\ \A i \in 1..Len(pipe) : pipe'[i] = pipe[i]
      BY <2>1, <3>1, AppendProperties
    <3>. QED  BY <3>1, <3>2
  <2>4. ScannerState'
    BY <1>0, <1>3, <1>10 DEF Emit, ScannerState, group
  <2>5. UNCHANGED <<held, channel>>
    BY <1>10 DEF Emit
  <2>. QED  BY <1>0, <1>3, <2>2, <2>3, <2>4, <2>5 DEF LinesAreHonest, Honest, RpcId
<1>11. CASE DeadlinePasses
  BY <1>0, <1>3, <1>5, <1>11 DEF DeadlinePasses, ScannerState, stream, group
<1>12. CASE \E p, q \in Procs : Spawn(p, q)
  BY <1>0, <1>3, <1>5, <1>12 DEF Spawn, ScannerState, stream
<1>13. CASE \E p \in Procs : CloseStdout(p) \/ Exit(p)
  BY <1>0, <1>3, <1>5, <1>13 DEF CloseStdout, Exit, ScannerState, stream
<1>. QED
  BY <1>6, <1>7, <1>8, <1>9, <1>10, <1>11, <1>12, <1>13 DEF Scanner, Environment

\* The invariant is inductive.
LEMMA InvStep == Inv /\ [Next]_vars => Inv'
<1> SUFFICES ASSUME Inv, [Next]_vars PROVE Inv'
  OBVIOUS
<1>1. TypeOK'
  BY TypeStep DEF Inv
<1>2. CASE UNCHANGED vars
  <2>1. UNCHANGED client /\ UNCHANGED killed /\ ScannerState'
    BY <1>2 DEF vars, client, group, stream, Inv, ScannerState
  <2>2. LinesAreHonest'
    BY <1>2, ClientUnchanged, StreamUnchanged DEF vars, client, group, stream, LinesAreHonest, Inv, TypeOK
  <2>. QED  BY <1>1, <2>1, <2>2, ClientUnchanged DEF Inv
<1>. QED  BY <1>1, <1>2, ClientStep, OtherStep DEF Next

-----------------------------------------------------------------------------
(***************************************************************************)
(* The theorems.                                                           *)
(***************************************************************************)

\* The inductive invariant holds in every state of a connection.
THEOREM Invariance == Spec => []Inv
BY InitInv, InvStep, PTL DEF Spec

\* Every variable keeps its type, the channel its capacity.
THEOREM TypeCorrect == Spec => []TypeOK
<1>1. Inv => TypeOK
  BY DEF Inv
<1>. QED  BY <1>1, Invariance, PTL

\* No frame is read as the answer to another request.
THEOREM AnswersAreInOrder == Spec => []AnswersInOrder
<1>1. Inv => AnswersInOrder
  <2> SUFFICES ASSUME Inv, NEW n \in 1..Len(answers)
               PROVE  /\ answers[n].id = RpcId(n)
                      /\ answers[n].kind = "reply" => answers[n].req = n
    BY DEF AnswersInOrder
  <2>1. answers[n].id = RpcId(n) /\ n <= asked /\ Honest(answers[n])
    BY DEF Inv, AnswersSoFar, LinesAreHonest
  <2>2. ASSUME answers[n].kind = "reply" PROVE answers[n].req = n
    <3>1. answers[n].req \in 1..asked /\ RpcId(answers[n].req) = RpcId(n)
      BY <2>1, <2>2 DEF Honest
    <3>2. asked \in Nat /\ (mode = "probe" => asked <= 2) /\ n \in Nat \ {0}
      BY DEF Inv, TypeOK, ClientState
    <3>. QED  BY <2>1, <3>1, <3>2, RpcIdInjective
  <2>. QED  BY <2>1, <2>2
<1>. QED  BY <1>1, Invariance, PTL

\* A reply that was already buffered still counts.
THEOREM BufferedRepliesCount == Spec => []BufferedReplyCounts
<1>1. Inv => BufferedReplyCounts
  <2> SUFFICES ASSUME Inv, pc = "flush", NEW line \in InFlight
               PROVE  ~IsAnswer(line)
    BY DEF BufferedReplyCounts
  <2>1. pipe = <<>> /\ channel = <<>> /\ held = Banner
    BY DEF Inv, ScannerState, NoLine
  <2>2. line = Banner
    BY <2>1 DEF InFlight
  <2>3. asked \in Nat \ {0}
    BY DEF Inv, TypeOK, ClientState, Waiting
  <2>. QED  BY <2>2, <2>3, McpStdioAssumption DEF IsAnswer, Banner, NoId, RpcId
<1>. QED  BY <1>1, Invariance, PTL

\* A passing verdict is earned.
THEOREM PassIsEarned == Spec => []VerdictEarned
<1>1. Inv => VerdictEarned
  BY DEF Inv
<1>. QED  BY <1>1, Invariance, PTL

\* An attempt whose connection was opened ends with its group killed.
THEOREM ClosedIsKilled == Spec => []ClosedMeansKilled
<1>1. Inv => ClosedMeansKilled
  BY DEF Inv, ClientState, ClosedMeansKilled
<1>. QED  BY <1>1, Invariance, PTL

\* The connection implements the abstract attempt: each answer it takes is
\* an Answer step, each failure without one a GiveUp step, and every other
\* step leaves the attempt as it is.
THEOREM Refinement == Spec => ImplementsAttempt
<1> USE DEF Attempt!Judge
<1>1. Init => Attempt!Init
  BY DEF Init, Attempt!Init
<1>2. Inv /\ [Next]_vars => [Attempt!Next]_Attempt!vars
  <2> SUFFICES ASSUME Inv, [Next]_vars PROVE [Attempt!Next]_Attempt!vars
    OBVIOUS
  <2>1. CASE UNCHANGED <<mode, answers, verdict>>
    BY <2>1 DEF Attempt!vars
  <2>2. CASE UNCHANGED <<mode, answers>> /\ verdict = "none" /\ verdict' \notin {"none", "ok"}
    BY <2>2 DEF Attempt!Next, Attempt!GiveUp
  <2>3. ASSUME NEW msg \in Line, pc = "select", Accept(msg), UNCHANGED <<mode, asked>>
        PROVE  Attempt!Next
    <3>1. /\ verdict = "none" /\ answers \in Seq(Line) /\ asked = Len(answers) + 1
          /\ asked = 1 <=> answers = <<>>
      BY <2>3 DEF Inv, TypeOK, ClientState, Ended, Waiting
    <3>2. /\ Len(answers') = Len(answers) + 1 /\ answers' # <<>>
          /\ answers'[Len(answers')] = msg
      BY <2>3, <3>1 DEF Accept
    <3>3. msg.body \in {"ok", "more", "error"}
      BY DEF Line, Bodies
    <3>4. (IF verdict' = "none" THEN "open" ELSE IF verdict' = "ok" THEN "ok" ELSE "failed")
            = Attempt!Judge(msg.body)
      BY <2>3, <3>1 DEF Accept, Dispatch, Continues, Finish
    <3>. QED  BY <2>3, <3>1, <3>2, <3>3, <3>4 DEF Attempt!Next, Attempt!Answer
  <2>4. ASSUME Client PROVE [Attempt!Next]_Attempt!vars
    <3>1. CASE SelectMessage
      <4>1. Head(channel) \in Line
        BY <3>1 DEF SelectMessage, Inv, TypeOK
      <4>. QED  BY <2>1, <2>3, <3>1, <4>1 DEF SelectMessage
    <3>2. CASE SelectEof
      <4>1. \A i \in Buffered : channel[i] \in Line
        BY DEF Buffered, Inv, TypeOK
      <4>. QED  BY <2>1, <2>3, <3>2, <4>1 DEF SelectEof
    <3>. QED
      BY <2>1, <2>2, <2>4, <3>1, <3>2
         DEF Client, Start, SendRequest, SendInitialized, CheckDeadline, SelectTimer, FlushStderr,
             CloseTerm, CloseKill, CloseReturn, Finish, Inv, ClientState, Ended
  <2>5. ASSUME Scanner \/ Reap \/ Environment PROVE UNCHANGED client
    BY <2>5 DEF Scanner, Reap, Environment, ScanLine, ScanSend, ScanEnd, Emit, DeadlinePasses,
                Spawn, CloseStdout, Exit
  <2>. QED  BY <2>1, <2>4, <2>5 DEF Next, vars, client
<1>. QED  BY <1>1, <1>2, Invariance, PTL DEF Spec, ImplementsAttempt, Attempt!Spec
=============================================================================
