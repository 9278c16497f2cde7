---------------------------- MODULE RSessionProofs ----------------------------
(***************************************************************************)
(* The session keeps the contract of ImageWatch, and its client hears      *)
(* about every command in order, with its own output, for any commands and *)
(* any bounds.                                                             *)
(*                                                                         *)
(* The argument has three layers.  LoopInv says what can be scheduled and  *)
(* in which order; with it every step of the session is a step ImageWatch  *)
(* allows its caller, so the theorems about ImageWatch hold here.          *)
(* SpeechInv says which command the session can still speak for: what was  *)
(* sent is about commands no later than the one that is evaluated or       *)
(* acknowledged now, and every command in the socket is later than that.   *)
(* StateInv says what the handlers leave of the console and of the         *)
(* environment for the handlers after them.                                *)
(***************************************************************************)
EXTENDS RSession, FiniteSetTheorems, SequenceTheorems, TLAPS

-----------------------------------------------------------------------------
(* The types of the session's own variables. *)

Scheduled == [kind: {"inotify"}, id: {0}, file: {FALSE}]
               \cup [kind: {"ack", "delta"}, id: Commands, file: BOOLEAN]
Evaluations == [op: EvalOps, id: Commands, delta: BOOLEAN]
Requests == [op: Ops, id: Commands]

SessionTypes ==
  /\ socket \in Seq(Requests) /\ nsent \in 0 .. MaxCommands
  /\ open \in BOOLEAN /\ properlyClosed \in BOOLEAN
  /\ watchVariables \in BOOLEAN /\ running \in BOOLEAN
  /\ ignoreOutput \in BOOLEAN /\ captureStdOut \in BOOLEAN
  /\ currentQueryId \in 0 .. MaxCommands
  /\ consoleOutBuffer \subseteq Commands /\ stdOutCapture \subseteq Commands
  /\ timers \in Seq(Scheduled) /\ active \in Seq(Scheduled)
  /\ IF pc = "script" THEN cur \in Evaluations ELSE cur = NoCommand
  /\ thrown \subseteq Commands
  /\ cwd \in {"work", "tmp", "scratch", "other"}

EnvTypes ==
  /\ rops \in 0 .. MaxROps
  /\ env \in 0 .. rops
  /\ lastVars \in 0 .. env /\ savedEnv \in 0 .. env
  /\ rdata \in {NoFile} \cup 0 .. env
  /\ spans \in [Commands -> Int \X Int]

OutboxType == outbox \in Seq(Messages)

-----------------------------------------------------------------------------
(* What can be scheduled. *)

\* The descriptor comes first, then at most one acknowledgement, then the
\* delta of the same command.
InLoopOrder(q) ==
  \A n \in 1 .. Len(q) :
    /\ q[n].kind = "inotify" => n = 1
    /\ q[n].kind = "ack" => n = 1 \/ (n = 2 /\ q[1].kind = "inotify")
    /\ q[n].kind = "delta" =>
         /\ n = Len(q)
         /\ n = 1 \/ (q[n - 1].kind = "ack" /\ q[n - 1].id = q[n].id)

HasAck(q) == \E n \in 1 .. Len(q) : q[n].kind = "ack"

\* The script's events were read, or a read of them left some behind.
EventsRead == IW!OnlyOtherQueued \/ script \in late

LoopInv ==
  /\ InLoopOrder(active) /\ InLoopOrder(timers)
  /\ timers # <<>> => timers[1].kind = "ack"
  /\ timers = <<>> \/ active = <<>>
  /\ owed # 0 <=> HasAck(active) \/ HasAck(timers)
  /\ pc = "script" => timers = <<>> /\ active = <<>> /\ running /\ alive
  /\ pc = "inotify" => ActiveIs("inotify") /\ EventsRead
  /\ pc = "cleanup" => ActiveIs("ack")
  /\ ActiveIs("ack") => EventsRead

-----------------------------------------------------------------------------
(* For whom the session can still speak. *)

\* What x was allowed to be followed by.
MayFollow(x, y) ==
  /\ x.by <= y.by
  /\ x.msg = "execComplete" =>
       /\ y.msg = "results" => x.by \notin y.text
       /\ y.by = x.by => y.msg \in {"showoutput", "delta"}

InOrder == \A m, n \in 1 .. Len(outbox) : m < n => MayFollow(outbox[m], outbox[n])

AckedNotThrown ==
  \A n \in 1 .. Len(outbox) :
    outbox[n].msg = "execComplete" => outbox[n].by \notin thrown

\* The session has said nothing of c, nor of a later command, but msgs of c.
SaidOnly(c, msgs) ==
  \A n \in 1 .. Len(outbox) :
    outbox[n].by <= c /\ (outbox[n].by = c => outbox[n].msg \in msgs)

SocketInv ==
  /\ \A j \in 1 .. Len(socket) :
       /\ socket[j].id <= nsent
       /\ SaidOnly(socket[j].id, {})
       /\ socket[j].id \notin thrown
       /\ spans[socket[j].id] = NotRun
  /\ \A j, k \in 1 .. Len(socket) : j < k => socket[j].id < socket[k].id
  /\ \A n \in 1 .. Len(outbox) : outbox[n].by <= nsent
  /\ \A c \in Commands : c > nsent => spans[c] = NotRun
  /\ \A c \in thrown : c <= nsent

\* A command the session is busy with: what was said of it, and that it comes
\* before everything in the socket.
Current(c, msgs) ==
  /\ c <= nsent
  /\ SaidOnly(c, msgs)
  /\ \A j \in 1 .. Len(socket) : c < socket[j].id

EvalInv ==
  pc = "script" =>
    /\ Current(cur.id, {"results"})
    /\ currentQueryId = cur.id
    /\ cur.id \notin thrown

AckInv(e) ==
  e.kind = "ack" => Current(e.id, {"results", "error"}) /\ e.id \notin thrown
DeltaInv(e) ==
  e.kind = "delta" =>
    /\ Current(e.id, {"results", "error", "execComplete", "showoutput"})
    /\ spans[e.id] = <<lastVars, env>>
EventsInv(q) == \A n \in 1 .. Len(q) : AckInv(q[n]) /\ DeltaInv(q[n])
QueueInv == EventsInv(active) /\ EventsInv(timers)

SpeechInv == InOrder /\ AckedNotThrown /\ SocketInv /\ EvalInv /\ QueueInv

-----------------------------------------------------------------------------
(* What one handler leaves for the next. *)

BufferInv ==
  consoleOutBuffer \subseteq IF pc = "script" THEN {cur.id} \cup thrown ELSE thrown

ConsoleInv ==
  (thrown = {} /\ (pc = "script" => cur.op # "execRmd"))
    => ~ignoreOutput /\ ~captureStdOut

SpanInv ==
  pc = "script" =>
    /\ spans[cur.id][2] = env
    /\ cur.delta => spans[cur.id][1] = lastVars

StateInv == BufferInv /\ ConsoleInv /\ SpanInv /\ OutputTagged
              /\ DeltaSpansEvaluation /\ CloseSaves

SessionInv ==
  /\ SessionTypes /\ EnvTypes /\ OutboxType
  /\ LoopInv /\ SpeechInv /\ StateInv

-----------------------------------------------------------------------------
(* Messages are only added to the outbox. *)

Kept ==
  /\ OutboxType'
  /\ Len(outbox) \in Nat /\ Len(outbox') \in Nat /\ Len(outbox) <= Len(outbox')
  /\ \A n \in 1 .. Len(outbox) : outbox'[n] = outbox[n]

Added == Len(outbox) + 1 .. Len(outbox')

LEMMA SendKeeps ==
  ASSUME OutboxType, NEW msgs \in Seq(Messages), Send(msgs)
  PROVE  /\ Kept
         /\ Added = Len(outbox) + 1 .. Len(outbox) + Len(msgs)
         /\ \A k \in 1 .. Len(msgs) : outbox'[Len(outbox) + k] = msgs[k]
<1>1. outbox \in Seq(Messages) /\ outbox' = outbox \o msgs
  BY DEF OutboxType, Send
<1>2. /\ outbox' \in Seq(Messages)
      /\ Len(outbox') = Len(outbox) + Len(msgs)
      /\ \A i \in 1 .. Len(outbox) + Len(msgs) :
           outbox'[i] = IF i <= Len(outbox) THEN outbox[i] ELSE msgs[i - Len(outbox)]
  BY <1>1, ConcatProperties
<1>3. Len(outbox) \in Nat /\ Len(msgs) \in Nat
  BY <1>1, LenProperties
<1>4. ASSUME NEW k \in 1 .. Len(msgs)
      PROVE  outbox'[Len(outbox) + k] = msgs[k]
  <2>1. /\ Len(outbox) + k \in 1 .. Len(outbox) + Len(msgs)
        /\ ~(Len(outbox) + k <= Len(outbox)) /\ Len(outbox) + k - Len(outbox) = k
    BY <1>3
  <2> QED
    BY <1>2, <2>1
<1>5. Kept /\ Added = Len(outbox) + 1 .. Len(outbox) + Len(msgs)
  BY <1>2, <1>3 DEF Kept, OutboxType, Added
<1> QED
  BY <1>4, <1>5

\* The usual case: every added message is one of the list.
LEMMA SendAdds ==
  ASSUME OutboxType, NEW msgs \in Seq(Messages), Send(msgs)
  PROVE  Kept /\ \A n \in Added : \E k \in 1 .. Len(msgs) : outbox'[n] = msgs[k]
<1>1. /\ Kept
      /\ Added = Len(outbox) + 1 .. Len(outbox) + Len(msgs)
      /\ \A k \in 1 .. Len(msgs) : outbox'[Len(outbox) + k] = msgs[k]
  BY SendKeeps
<1> SUFFICES ASSUME NEW n \in Added
             PROVE  \E k \in 1 .. Len(msgs) : outbox'[n] = msgs[k]
  BY <1>1
<1>2. Len(outbox) \in Nat /\ Len(msgs) \in Nat
  BY <1>1, LenProperties DEF Kept
<1>3. n - Len(outbox) \in 1 .. Len(msgs) /\ Len(outbox) + (n - Len(outbox)) = n
  BY <1>1, <1>2
<1> QED
  BY <1>1, <1>3

LEMMA NothingSent ==
  ASSUME OutboxType, UNCHANGED outbox
  PROVE  Kept /\ Added = {}
<1>1. Len(outbox) \in Nat
  BY LenProperties DEF OutboxType
<1> QED
  BY <1>1 DEF Kept, OutboxType, Added

LEMMA MessageTypes ==
  ASSUME OutboxType
  PROVE  \A n \in 1 .. Len(outbox) : outbox[n] \in Messages /\ outbox[n].by \in Nat
<1> SUFFICES ASSUME NEW n \in 1 .. Len(outbox)
             PROVE  outbox[n] \in Messages /\ outbox[n].by \in Nat
  OBVIOUS
<1>1. outbox[n] \in Messages
  BY ElementOfSeq DEF OutboxType
<1> QED
  BY <1>1, BoundsAssumption DEF Messages, Commands

\* What is said of c while nothing of it was acknowledged keeps the order.
LEMMA SpeakFor ==
  ASSUME OutboxType, InOrder, AckedNotThrown, Kept, NEW c \in Nat, NEW said,
         "execComplete" \notin said, SaidOnly(c, said),
         \A n \in Added :
           /\ outbox'[n].by = c /\ outbox'[n].msg \in said
           /\ outbox'[n].msg = "results" => outbox'[n].text \subseteq {c} \cup thrown
  PROVE  InOrder' /\ SaidOnly(c, said)'
<1>1. \A n \in 1 .. Len(outbox) : outbox[n] \in Messages /\ outbox[n].by \in Nat
  BY MessageTypes
<1>2. \A n \in 1 .. Len(outbox') : n \in 1 .. Len(outbox) \/ n \in Added
  BY DEF Kept, Added
<1>3. SaidOnly(c, said)'
  BY <1>1, <1>2 DEF SaidOnly, Kept
<1>4. ASSUME NEW m \in 1 .. Len(outbox'), NEW n \in 1 .. Len(outbox'), m < n
      PROVE  MayFollow(outbox'[m], outbox'[n])
  <2>1. CASE n \in 1 .. Len(outbox)
    <3>1. m \in 1 .. Len(outbox)
      BY <1>4, <2>1 DEF Kept
    <3> QED
      BY <1>4, <2>1, <3>1 DEF InOrder, Kept
  <2>2. CASE n \in Added /\ m \in 1 .. Len(outbox)
    <3>1. outbox'[m] = outbox[m] /\ outbox[m].by <= c /\ outbox'[n].by = c
      BY <2>2 DEF Kept, SaidOnly
    <3>2. ASSUME outbox[m].msg = "execComplete"
          PROVE  outbox[m].by # c /\ outbox[m].by \notin thrown
      BY <2>2, <3>2 DEF SaidOnly, AckedNotThrown
    <3> QED
      BY <2>2, <3>1, <3>2 DEF MayFollow
  <2>3. CASE n \in Added /\ m \in Added
    BY <2>3 DEF MayFollow
  <2> QED
    BY <1>2, <2>1, <2>2, <2>3
<1> QED
  BY <1>3, <1>4 DEF InOrder

-----------------------------------------------------------------------------
(* Commands that evaluate nothing: what all of their handlers have in common. *)

Answers(c) ==
  {m \in Messages : m.by = c.id /\ m.msg \notin {"results", "execComplete"}}

Quick(c) ==
  /\ UNCHANGED images \/ IW!ResetOnly
  /\ UNCHANGED <<loop, cur, env, cwd, spans, rops, captureStdOut,
                 consoleOutBuffer, stdOutCapture>>
  /\ open' \in BOOLEAN /\ watchVariables' \in BOOLEAN
  /\ properlyClosed' \in BOOLEAN /\ running' \in BOOLEAN
  /\ ignoreOutput' \in BOOLEAN
  /\ thrown' = {} => ignoreOutput' \in {ignoreOutput, FALSE}
  /\ currentQueryId' \in {currentQueryId, 0, c.id}
  /\ lastVars' \in {lastVars, env}
  /\ rdata' \in {rdata, NoFile, savedEnv, env}
  /\ savedEnv' \in {savedEnv} \cup ({env, rdata} \ {NoFile})
  /\ thrown' \in {thrown, thrown \cup {c.id}}
  /\ ((properlyClosed => thrown # {}) /\ properlyClosed' /\ thrown' = {})
       => /\ ~running'
          /\ cwd = "work" => savedEnv' = env
          /\ cwd # "work" => rdata' \in {NoFile, savedEnv'}
  /\ outbox' = outbox \/ \E m \in Answers(c) : Send(<<m>>)

AnyRequest == [op: Ops \cup {"ignored"}, id: Commands]

LEMMA AnswerTypes ==
  ASSUME NEW c \in AnyRequest, SessionTypes, EnvTypes
  PROVE  /\ \A m \in {"openresponse", "openfailed", "variableupdate",
                      "variablevalue", "help", "error"} :
              \A q \in {0, 1, c.id} : Msg(m, c.id, q) \in Answers(c)
         /\ VariableDelta(c.id) \in Answers(c)
<1>1. c.id \in Commands /\ 0 \in 0 .. MaxROps /\ MaxCommands \in Nat /\ MaxROps \in Nat
  BY BoundsAssumption DEF AnyRequest
<1>2. {0, 1, c.id} \subseteq 0 .. MaxCommands
  BY <1>1 DEF Commands
<1>3. env \in 0 .. MaxROps /\ lastVars \in 0 .. MaxROps
  BY <1>1 DEF EnvTypes
<1>4. Msg("delta", c.id, 0) \in Messages
  BY <1>1, <1>2 DEF Msg, Messages
<1>5. VariableDelta(c.id) \in Messages
  BY <1>3, <1>4 DEF VariableDelta, Msg, Messages
<1> QED
  BY <1>1, <1>2, <1>5 DEF Msg, Messages, Answers, VariableDelta

LEMMA QuickHandlers ==
  ASSUME NEW c \in AnyRequest, SessionTypes, EnvTypes, HandleCommand(c),
         ~(c.op \in EvalOps /\ StartEval(c))
  PROVE  Quick(c)
<1>t. /\ open \in BOOLEAN /\ properlyClosed \in BOOLEAN
      /\ watchVariables \in BOOLEAN /\ running \in BOOLEAN
      /\ ignoreOutput \in BOOLEAN /\ captureStdOut \in BOOLEAN
  BY DEF SessionTypes
<1>a. /\ \A m \in {"openresponse", "openfailed", "variableupdate",
                   "variablevalue", "help", "error"} :
           \A q \in {0, 1, c.id} : Msg(m, c.id, q) \in Answers(c)
      /\ VariableDelta(c.id) \in Answers(c)
  BY AnswerTypes
<1> USE DEF Quick, loop, console, session, rvars, Mishap, Returns, Reply
<1>1. CASE HandleOpen(c)
  <2>1. CASE open
    BY <1>1, <1>t, <2>1 DEF HandleOpen
  <2>2. CASE ~open
    <3>1. /\ open' \in BOOLEAN /\ ignoreOutput' \in {ignoreOutput, FALSE}
          /\ currentQueryId' \in {currentQueryId, 0}
          /\ thrown' \in {thrown, thrown \cup {c.id}}
          /\ outbox' = outbox \/ \E m \in Answers(c) : Send(<<m>>)
      BY <1>1, <1>t, <1>a, <2>2 DEF HandleOpen
    <3> QED
      BY <1>1, <1>t, <2>2, <3>1 DEF HandleOpen
  <2> QED
    BY <2>1, <2>2
<1>2. CASE HandleIgnored(c)
  BY <1>2, <1>t DEF HandleIgnored
<1>3. CASE HandleClose(c)
  <2>1. CASE properlyClosed
    BY <1>3, <1>t, <2>1 DEF HandleClose
  <2>2. CASE ~properlyClosed /\ SaveEnvThrows(c) /\ UNCHANGED running
    BY <1>3, <1>t, <2>2 DEF HandleClose, SaveEnvThrows, WritesImage
  <2>3. CASE ~properlyClosed /\ SaveEnv(c) /\ running' = FALSE
    <3>1. rdata' \in {rdata, env} /\ savedEnv' \in {savedEnv} \cup ({env, rdata} \ {NoFile})
      BY <2>3 DEF SaveEnv, WritesImage, CommitsFile
    <3>2. thrown' \in {thrown, thrown \cup {c.id}} /\ currentQueryId' = 0
      BY <2>3 DEF SaveEnv
    <3>3. ASSUME thrown' = {}
          PROVE  /\ cwd = "work" => savedEnv' = env
                 /\ cwd # "work" => rdata' \in {NoFile, savedEnv'}
      <4>1. WritesImage /\ CommitsFile
        BY <2>3, <3>3 DEF SaveEnv
      <4>2. env # NoFile
        BY BoundsAssumption DEF EnvTypes, NoFile
      <4> QED
        BY <4>1, <4>2 DEF WritesImage, CommitsFile
    <3> QED
      BY <1>3, <1>t, <2>3, <3>1, <3>2, <3>3 DEF HandleClose
  <2> QED
    BY <1>3, <2>1, <2>2, <2>3 DEF HandleClose
<1>4. CASE HandleSaveEnv(c)
  BY <1>4, <1>t DEF HandleSaveEnv, SaveEnv, SaveEnvThrows, WritesImage, CommitsFile
<1>5. CASE HandleClearFileChanges(c)
  BY <1>5, <1>t DEF HandleClearFileChanges
<1>6. CASE HandleFileNotRun(c)
  BY <1>6, <1>t, <1>a DEF HandleFileNotRun, CaptureEnvironment, Throws, CaughtError
<1>7. CASE HandleUnknownFile(c)
  BY <1>7, <1>t, <1>a DEF HandleUnknownFile
<1>8. CASE HandleHelp(c)
  BY <1>8, <1>t, <1>a DEF HandleHelp, Escapes
<1>9. CASE HandleVariables(c)
  BY <1>9, <1>t, <1>a DEF HandleVariables, QuietConsole, Escapes, VariableList
<1>10. CASE HandleToggle(c)
  BY <1>10, <1>t, <1>a DEF HandleToggle, QuietConsole, Escapes, VariableList
<1>11. CASE HandleBadArgument(c)
  BY <1>11, <1>t DEF HandleBadArgument, Escapes
<1> QED
  BY <1>1, <1>2, <1>3, <1>4, <1>5, <1>6, <1>7, <1>8, <1>9, <1>10, <1>11
  DEF HandleCommand, HandleOpened

-----------------------------------------------------------------------------
(* The ends of evaluations: what they have in common. *)

EvalMessages ==
  {m \in Messages :
     /\ m.by = cur.id /\ m.msg \in {"results", "error"}
     /\ m.msg = "results" =>
          m.q = currentQueryId /\ m.text \subseteq consoleOutBuffer \cup {cur.id}}

Scheduling(f, d) ==
  timers' = timers \o <<AckTimer(cur.id, f)>>
                   \o (IF d THEN <<DeltaTimer(cur.id)>> ELSE <<>>)

EvalEnds(acked, copied) ==
  /\ IW!EndScript(acked, copied)
  /\ cur' = NoCommand
  /\ UNCHANGED <<client, session, active, env, lastVars, rdata, savedEnv, spans, rops,
                 stdOutCapture>>
  /\ IF acked
     THEN /\ \E f, d \in BOOLEAN : Scheduling(f, d) /\ (d => cur.delta)
          /\ thrown' = thrown
     ELSE UNCHANGED timers
  /\ cwd' \in {cwd, "work"}
  /\ currentQueryId' \in {0, cur.id}
  /\ thrown' \in {thrown, thrown \cup {cur.id}}
  /\ consoleOutBuffer' = {} \/ (UNCHANGED consoleOutBuffer /\ cur.id \in thrown')
  /\ ignoreOutput' \in BOOLEAN /\ captureStdOut' \in BOOLEAN
  /\ thrown' = {} =>
       IF cur.op = "execRmd" THEN ~captureStdOut' /\ ~ignoreOutput'
       ELSE captureStdOut' = captureStdOut /\ ignoreOutput' \in {ignoreOutput, FALSE}
  /\ Kept /\ \A n \in Added : outbox'[n] \in EvalMessages

LEMMA EvalMessageTypes ==
  ASSUME SessionTypes, pc = "script"
  PROVE  /\ BufferedText \in Seq(EvalMessages)
         /\ [Msg("results", cur.id, currentQueryId) EXCEPT !.text = {cur.id}]
              \in EvalMessages
         /\ [Msg("error", cur.id, currentQueryId) EXCEPT !.text = stdOutCapture]
              \in EvalMessages
         /\ Msg("error", cur.id, 1) \in EvalMessages
         /\ EvalMessages \subseteq Messages
<1>1. /\ cur.id \in Commands /\ currentQueryId \in 0 .. MaxCommands
      /\ consoleOutBuffer \subseteq Commands /\ stdOutCapture \subseteq Commands
  BY DEF SessionTypes, Evaluations
<1>2. 1 \in 0 .. MaxCommands /\ 0 \in 0 .. MaxROps
  BY <1>1, BoundsAssumption DEF Commands
<1>3. ASSUME NEW q \in {1, currentQueryId}, NEW t \in SUBSET Commands,
             NEW m \in {"results", "error"}
      PROVE  /\ [Msg(m, cur.id, q) EXCEPT !.text = t] \in Messages
             /\ [Msg(m, cur.id, q) EXCEPT !.text = t].by = cur.id
             /\ [Msg(m, cur.id, q) EXCEPT !.text = t].msg = m
             /\ [Msg(m, cur.id, q) EXCEPT !.text = t].text = t
             /\ [Msg(m, cur.id, q) EXCEPT !.text = t].q = q
  BY <1>1, <1>2 DEF Msg, Messages
<1>4. [Msg("results", cur.id, currentQueryId) EXCEPT !.text = consoleOutBuffer]
        \in EvalMessages
  BY <1>1, <1>3 DEF EvalMessages
<1>5. BufferedText \in Seq(EvalMessages)
  BY <1>4 DEF BufferedText
<1>6. Msg("error", cur.id, 1) \in EvalMessages
  BY <1>1, <1>2 DEF Msg, Messages, EvalMessages
<1>7. EvalMessages \subseteq Messages
  BY DEF EvalMessages
<1>8. [Msg("results", cur.id, currentQueryId) EXCEPT !.text = {cur.id}]
        \in EvalMessages
  <2>1. {cur.id} \in SUBSET Commands
    BY <1>1
  <2> QED
    BY <1>3, <2>1 DEF EvalMessages
<1>9. [Msg("error", cur.id, currentQueryId) EXCEPT !.text = stdOutCapture]
        \in EvalMessages
  BY <1>1, <1>3 DEF EvalMessages
<1> QED
  BY <1>5, <1>6, <1>7, <1>8, <1>9

LEMMA EvalSends ==
  ASSUME SessionTypes, OutboxType, pc = "script",
         NEW msgs \in Seq(EvalMessages), Send(msgs)
  PROVE  Kept /\ \A n \in Added : outbox'[n] \in EvalMessages
<1>1. msgs \in Seq(Messages)
  BY EvalMessageTypes, SeqMonotonic
<1>2. Kept /\ \A n \in Added : \E k \in 1 .. Len(msgs) : outbox'[n] = msgs[k]
  BY <1>1, SendAdds
<1>3. \A k \in 1 .. Len(msgs) : msgs[k] \in EvalMessages
  BY ElementOfSeq
<1> QED
  BY <1>2, <1>3

LEMMA FlushSends ==
  ASSUME SessionTypes, OutboxType, pc = "script",
         NEW next \in Seq(EvalMessages), FlushAndSend(next)
  PROVE  /\ consoleOutBuffer' = {}
         /\ Kept /\ \A n \in Added : outbox'[n] \in EvalMessages
<1>1. BufferedText \o next \in Seq(EvalMessages)
  BY EvalMessageTypes, ConcatProperties
<1>2. Send(BufferedText \o next) /\ consoleOutBuffer' = {}
  BY DEF FlushAndSend
<1> QED
  BY <1>1, <1>2, EvalSends

LEMMA EvaluationsEnd ==
  ASSUME SessionTypes, OutboxType, pc = "script",
         \/ \E result \in {"success", "incomplete", "error"} : EndExecScript(result)
         \/ EndSource \/ EndRender \/ EndSweave
  PROVE  \E acked, copied \in BOOLEAN : EvalEnds(acked, copied)
<1>t. /\ cur \in Evaluations
      /\ ignoreOutput \in BOOLEAN /\ captureStdOut \in BOOLEAN
  BY DEF SessionTypes
<1>d. cur.delta \in BOOLEAN
  BY <1>t DEF Evaluations
<1>m. /\ [Msg("results", cur.id, currentQueryId) EXCEPT !.text = {cur.id}]
           \in EvalMessages
      /\ [Msg("error", cur.id, currentQueryId) EXCEPT !.text = stdOutCapture]
           \in EvalMessages
      /\ Msg("error", cur.id, 1) \in EvalMessages
  BY EvalMessageTypes
<1>f. ASSUME NEW next \in Seq(EvalMessages), FlushAndSend(next)
      PROVE  /\ consoleOutBuffer' = {}
             /\ Kept /\ \A n \in Added : outbox'[n] \in EvalMessages
  BY <1>f, FlushSends
<1>e. /\ <<>> \in Seq(EvalMessages) /\ CaughtError(cur) \in Seq(EvalMessages)
      /\ <<[Msg("results", cur.id, currentQueryId) EXCEPT !.text = {cur.id}]>>
           \in Seq(EvalMessages)
      /\ <<[Msg("error", cur.id, currentQueryId) EXCEPT !.text = stdOutCapture]>>
           \in Seq(EvalMessages)
  BY <1>m DEF CaughtError
<1>s. ASSUME NEW f \in BOOLEAN, NEW d \in BOOLEAN, Acknowledge(f, d)
      PROVE  Scheduling(f, d)
  BY <1>s DEF Acknowledge, Scheduling
<1> USE DEF EndEval, Returns, session
<1>1. ASSUME NEW result \in {"success", "incomplete", "error"}, EndExecScript(result)
      PROVE  EvalEnds(result = "success", FALSE)
  <2>1. /\ consoleOutBuffer' = {}
        /\ Kept /\ \A n \in Added : outbox'[n] \in EvalMessages
    <3>1. CASE result = "incomplete"
      BY <1>1, <1>e, <1>f, <3>1 DEF EndExecScript
    <3>2. CASE result # "incomplete"
      BY <1>1, <1>e, <1>f, <3>2 DEF EndExecScript
    <3> QED
      BY <3>1, <3>2
  <2>2. result = "success" => Scheduling(FALSE, cur.delta)
    BY <1>1, <1>d, <1>s DEF EndExecScript
  <2>3. result # "success" => UNCHANGED timers
    BY <1>1 DEF EndExecScript
  <2>4. cur.op # "execRmd"
    BY <1>1 DEF EndExecScript
  <2> QED
    BY <1>1, <1>t, <1>d, <2>1, <2>2, <2>3, <2>4 DEF EndExecScript, EvalEnds
<1>2. ASSUME EndSource
      PROVE  EvalEnds(TRUE, FALSE)
  <2>1. /\ consoleOutBuffer' = {}
        /\ Kept /\ \A n \in Added : outbox'[n] \in EvalMessages
    BY <1>2, <1>e, <1>f DEF EndSource
  <2>2. Scheduling(FALSE, cur.delta)
    BY <1>2, <1>d, <1>s DEF EndSource
  <2> QED
    BY <1>2, <1>t, <1>d, <2>1, <2>2 DEF EndSource, EvalEnds
<1>3. ASSUME EndRender
      PROVE  \E acked, copied \in BOOLEAN : EvalEnds(acked, copied)
  <2>1. /\ consoleOutBuffer' = {}
        /\ Kept /\ \A n \in Added : outbox'[n] \in EvalMessages
    BY <1>3, <1>e, <1>f DEF EndRender
  <2>2. ASSUME NEW acked \in BOOLEAN, NEW copied \in BOOLEAN,
               IW!EndScript(acked, copied),
               IF acked THEN Acknowledge(TRUE, FALSE) /\ thrown' = thrown
                        ELSE UNCHANGED timers,
               cwd' \in {cwd, "work"},
               currentQueryId' \in {0, cur.id},
               thrown' \in {thrown, thrown \cup {cur.id}}
        PROVE  EvalEnds(acked, copied)
    <3>1. acked => Scheduling(TRUE, FALSE)
      BY <2>2, <1>s
    <3> QED
      BY <1>3, <1>t, <2>1, <2>2, <3>1 DEF EndRender, EndsCapture, EvalEnds
  <2> QED
    BY <1>3, <2>2 DEF EndRender, Mishap
<1>4. ASSUME EndSweave
      PROVE  \E acked, copied \in BOOLEAN : EvalEnds(acked, copied)
  <2>1. CASE /\ FlushAndSend(<<>>) /\ Returns
             /\ Acknowledge(FALSE, FALSE)
             /\ IW!EndScript(TRUE, FALSE)
             /\ UNCHANGED <<cwd, ignoreOutput>>
    <3>1. Scheduling(FALSE, FALSE)
      BY <2>1, <1>s
    <3>2. EvalEnds(TRUE, FALSE)
      BY <1>4, <1>t, <1>e, <1>f, <2>1, <3>1 DEF EndSweave, EvalEnds
    <3> QED
      BY <3>2
  <2>2. CASE /\ \E pdf, copied \in BOOLEAN :
                  /\ pdf => copied
                  /\ Acknowledge(pdf, FALSE)
                  /\ IW!EndScript(TRUE, copied)
             /\ FlushAndSend(<<>>) /\ Returns
             /\ ignoreOutput' = FALSE
             /\ cwd' = "work"
    <3>1. PICK pdf, copied \in BOOLEAN :
            Acknowledge(pdf, FALSE) /\ IW!EndScript(TRUE, copied)
      BY <2>2
    <3>2. Scheduling(pdf, FALSE)
      BY <3>1, <1>s
    <3>3. EvalEnds(TRUE, copied)
      BY <1>4, <1>t, <1>e, <1>f, <2>2, <3>1, <3>2 DEF EndSweave, EvalEnds
    <3> QED
      BY <3>3
  <2>3. CASE /\ Throws(cur) \/ Escapes(cur)
             /\ \E copied \in BOOLEAN : IW!EndScript(FALSE, copied)
             /\ ignoreOutput' = FALSE
             /\ UNCHANGED <<consoleOutBuffer, cwd, timers>>
    <3>1. PICK copied \in BOOLEAN : IW!EndScript(FALSE, copied)
      BY <2>3
    <3>2. Kept /\ \A n \in Added : outbox'[n] \in EvalMessages
      BY <1>e, <2>3, EvalSends, NothingSent DEF Throws, Escapes
    <3>3. EvalEnds(FALSE, copied)
      BY <1>4, <1>t, <2>3, <3>1, <3>2
      DEF EndSweave, EvalEnds, Throws, Escapes, Mishap
    <3> QED
      BY <3>3
  <2> QED
    BY <1>4, <2>1, <2>2, <2>3 DEF EndSweave
<1> QED
  BY <1>1, <1>2, <1>3, <1>4

-----------------------------------------------------------------------------
(* The steps of the session, with the handlers summed up. *)

Reads(j, c) ==
  /\ LoopQuiet
  /\ c.id = socket[j].id
  /\ socket' = SubSeq(socket, j + 1, Len(socket))
  /\ UNCHANGED nsent

LEMMA ReadCases ==
  ASSUME SessionTypes, EnvTypes, ClientRead
  PROVE  \E j \in 1 .. Len(socket), c \in AnyRequest :
           Reads(j, c) /\ (Quick(c) \/ (c.op \in EvalOps /\ StartEval(c)))
<1>1. PICK j \in 1 .. Len(socket) :
        /\ socket' = SubSeq(socket, j + 1, Len(socket))
        /\ \E c \in TypesOf(socket[j]) : HandleCommand(c)
  BY DEF ClientRead
<1>2. PICK c \in TypesOf(socket[j]) : HandleCommand(c)
  BY <1>1
<1>3. socket[j] \in Requests
  BY ElementOfSeq DEF SessionTypes
<1>4. c \in AnyRequest /\ c.id = socket[j].id
  BY <1>2, <1>3, OpsAssumption DEF TypesOf, AnyRequest, Requests
<1>5. Reads(j, c)
  BY <1>1, <1>4 DEF ClientRead, Reads
<1> QED
  BY <1>2, <1>4, <1>5, QuickHandlers

LEMMA StepCases ==
  ASSUME SessionTypes, EnvTypes, OutboxType, Next
  PROVE  \/ \E op \in ClientOps : ClientSend(op)
         \/ \E j \in 1 .. Len(socket), c \in AnyRequest :
              Reads(j, c) /\ (Quick(c) \/ (c.op \in EvalOps /\ StartEval(c)))
         \/ RPrint \/ RWarn \/ RAssign \/ RChangeDir \/ RWriteFile
         \/ pc = "script" /\ \E acked, copied \in BOOLEAN : EvalEnds(acked, copied)
         \/ LoopStep \/ IgnoreTimer \/ DBNotify
<1>1. ASSUME \/ \E result \in {"success", "incomplete", "error"} : EndExecScript(result)
             \/ EndSource \/ EndRender \/ EndSweave
      PROVE  pc = "script" /\ \E acked, copied \in BOOLEAN : EvalEnds(acked, copied)
  <2>1. pc = "script"
    BY <1>1 DEF EndExecScript, EndSource, EndRender, EndSweave, EndEval, Evaluating
  <2> QED
    BY <1>1, <2>1, EvaluationsEnd
<1> QED
  BY <1>1, ReadCases DEF Next, RStep

-----------------------------------------------------------------------------
(* The session keeps the contract of ImageWatch. *)

LEMMA ImagesUnchanged == UNCHANGED images => UNCHANGED IW!vars
  BY DEF images, IW!vars, IW!files, IW!tables, IW!history

LEMMA QuietOwesNothing ==
  ASSUME LoopInv, LoopQuiet
  PROVE  owed = 0
<1>1. active = <<>> /\ timers = <<>>
  BY DEF LoopQuiet
<1> QED
  BY <1>1 DEF LoopInv, HasAck

LEMMA KeepsImageContract ==
  ASSUME SessionTypes, EnvTypes, OutboxType, LoopInv, [Next]_vars
  PROVE  [IW!Next]_(IW!vars)
<1>0. CASE UNCHANGED vars
  BY <1>0, ImagesUnchanged DEF vars
<1>1. CASE \E op \in ClientOps : ClientSend(op)
  BY <1>1, ImagesUnchanged DEF ClientSend
<1>2. ASSUME NEW j \in 1 .. Len(socket), NEW c \in AnyRequest, Reads(j, c), Quick(c)
      PROVE  [IW!Next]_(IW!vars)
  <2>1. owed = 0
    BY <1>2, QuietOwesNothing DEF Reads
  <2> QED
    BY <1>2, <2>1, ImagesUnchanged DEF Quick, IW!Next, IW!ClearFileChanges
<1>3. ASSUME NEW j \in 1 .. Len(socket), NEW c \in AnyRequest, Reads(j, c), StartEval(c)
      PROVE  [IW!Next]_(IW!vars)
  <2>1. owed = 0
    BY <1>3, QuietOwesNothing DEF Reads
  <2> QED
    BY <1>3, <2>1 DEF StartEval, IW!Next, IW!BeginScript
<1>4. CASE RPrint \/ RWarn \/ RAssign \/ RChangeDir
  BY <1>4, ImagesUnchanged DEF RPrint, RWarn, RAssign, RChangeDir
<1>5. CASE RWriteFile
  BY <1>5 DEF RWriteFile, IW!Next, IW!ScriptStep
<1>6. CASE \E acked, copied \in BOOLEAN : EvalEnds(acked, copied)
  BY <1>6 DEF EvalEnds, IW!Next, IW!ScriptStep
<1>7. CASE Poll
  BY <1>7, ImagesUnchanged DEF Poll
<1>8. CASE RunInotify
  BY <1>8 DEF RunInotify, IW!Next, IW!InotifyStep
<1>9. CASE InotifyStep
  BY <1>9 DEF InotifyStep, IW!Next, IW!InotifyStep
<1>10. CASE RunAck
  BY <1>10 DEF RunAck, LoopInv, EventsRead, IW!Next, IW!AckStep, IW!BeginAck
<1>11. CASE CleanupStep
  BY <1>11 DEF CleanupStep, IW!Next, IW!AckStep
<1>12. CASE FinishAck
  BY <1>12 DEF FinishAck, IW!Next, IW!AckStep
<1>13. CASE RunDelta
  BY <1>13, ImagesUnchanged DEF RunDelta, IW!Next
<1>14. CASE IgnoreTimer
  BY <1>14 DEF IgnoreTimer, IW!Next
<1>15. CASE DBNotify
  BY <1>15, QuietOwesNothing DEF DBNotify, IW!Next, IW!HandleDBNotifications
<1> QED
  BY <1>0, <1>1, <1>2, <1>3, <1>4, <1>5, <1>6, <1>7, <1>8, <1>9, <1>10, <1>11,
     <1>12, <1>13, <1>14, <1>15, StepCases DEF LoopStep

-----------------------------------------------------------------------------
(* What can be scheduled stays in order. *)

LEMMA QueueHead ==
  ASSUME NEW q \in Seq(Scheduled), q # <<>>
  PROVE  /\ Len(q) \in Nat \ {0} /\ 1 \in 1 .. Len(q)
         /\ Head(q) = q[1] /\ Head(q) \in Scheduled
         /\ Tail(q) \in Seq(Scheduled) /\ Len(Tail(q)) = Len(q) - 1
         /\ \A n \in 1 .. Len(Tail(q)) : n + 1 \in 1 .. Len(q) /\ Tail(q)[n] = q[n + 1]
  BY EmptySeq, HeadTailProperties

LEMMA TailInOrder ==
  ASSUME NEW q \in Seq(Scheduled), q # <<>>, InLoopOrder(q)
  PROVE  /\ InLoopOrder(Tail(q))
         /\ Head(q).kind # "ack" => (HasAck(Tail(q)) <=> HasAck(q))
         /\ Head(q).kind = "ack" => ~HasAck(Tail(q))
<1> DEFINE t == Tail(q)
<1>1. /\ Len(q) \in Nat \ {0} /\ 1 \in 1 .. Len(q) /\ Head(q) = q[1]
      /\ Len(t) = Len(q) - 1
      /\ \A n \in 1 .. Len(t) : n + 1 \in 1 .. Len(q) /\ t[n] = q[n + 1]
  BY QueueHead
<1> HIDE DEF t
<1>2. ASSUME NEW n \in 1 .. Len(t)
      PROVE  /\ t[n].kind # "inotify"
             /\ t[n].kind = "ack" => n = 1 /\ q[1].kind = "inotify"
             /\ t[n].kind = "delta" =>
                  /\ n = Len(t)
                  /\ n = 1 \/ (t[n - 1].kind = "ack" /\ t[n - 1].id = t[n].id)
  <2>1. n + 1 \in 1 .. Len(q) /\ t[n] = q[n + 1] /\ n + 1 # 1 /\ n \in Nat
    BY <1>1
  <2>2. n # 1 => n - 1 \in 1 .. Len(t) /\ t[n - 1] = q[n] /\ n + 1 - 1 = n
    BY <1>1
  <2>3. t[n].kind # "inotify" /\ (t[n].kind = "ack" => n = 1 /\ q[1].kind = "inotify")
    BY <2>1 DEF InLoopOrder
  <2>4. ASSUME t[n].kind = "delta"
        PROVE  n = Len(t) /\ (n = 1 \/ (t[n - 1].kind = "ack" /\ t[n - 1].id = t[n].id))
    <3> DEFINE m == n + 1
    <3>1. m = Len(q) /\ (m = 1 \/ (q[m - 1].kind = "ack" /\ q[m - 1].id = q[m].id))
      BY <2>1, <2>4 DEF InLoopOrder
    <3>2. m - 1 = n /\ m # 1 /\ n = Len(t)
      BY <1>1, <2>1, <3>1
    <3> HIDE DEF m
    <3>3. q[n].kind = "ack" /\ q[n].id = t[n].id
      BY <2>1, <3>1, <3>2 DEF m
    <3> QED
      BY <2>2, <3>2, <3>3
  <2> QED
    BY <2>3, <2>4
<1>3. InLoopOrder(t)
  BY <1>2 DEF InLoopOrder
<1>4. ASSUME Head(q).kind # "ack", HasAck(q)
      PROVE  HasAck(t)
  <2>1. PICK n \in 1 .. Len(q) : q[n].kind = "ack"
    BY <1>4 DEF HasAck
  <2>2. n - 1 \in 1 .. Len(t) /\ t[n - 1] = q[n]
    BY <1>1, <1>4, <2>1
  <2> QED
    BY <2>1, <2>2 DEF HasAck
<1>5. HasAck(t) => HasAck(q) /\ q[1].kind = "inotify"
  BY <1>1, <1>2 DEF HasAck
<1> QED
  BY <1>1, <1>3, <1>4, <1>5 DEF t

\* What the end of an evaluation adds to no timers.
LEMMA ScheduledTimers ==
  ASSUME NEW f \in BOOLEAN, NEW d \in BOOLEAN, cur.id \in Commands,
         timers = <<>>, Scheduling(f, d)
  PROVE  /\ timers' \in Seq(Scheduled)
         /\ Len(timers') = IF d THEN 2 ELSE 1
         /\ timers'[1] = AckTimer(cur.id, f)
         /\ d => timers'[2] = DeltaTimer(cur.id)
<1> DEFINE a == AckTimer(cur.id, f)
           b == DeltaTimer(cur.id)
<1>1. a \in Scheduled /\ b \in Scheduled
  BY DEF AckTimer, DeltaTimer, Scheduled
<1> HIDE DEF a, b
<1>2. timers' = <<a>> \o (IF d THEN <<b>> ELSE <<>>)
  BY DEF Scheduling, a, b
<1>3. CASE d
  <2>1. timers' = <<a>> \o <<b>> /\ <<a>> \in Seq(Scheduled) /\ <<b>> \in Seq(Scheduled)
    BY <1>1, <1>2, <1>3
  <2>2. timers' \in Seq(Scheduled) /\ Len(timers') = 2 /\ timers'[1] = a /\ timers'[2] = b
    BY <2>1, ConcatProperties
  <2> QED
    BY <1>3, <2>2 DEF a, b
<1>4. CASE ~d
  <2>1. timers' = <<a>>
    BY <1>2, <1>4
  <2>2. timers' \in Seq(Scheduled) /\ Len(timers') = 1 /\ timers'[1] = a
    BY <1>1, <2>1
  <2> QED
    BY <1>4, <2>2 DEF a, b
<1> QED
  BY <1>3, <1>4

LEMMA PollOrder ==
  ASSUME timers \in Seq(Scheduled), InLoopOrder(timers), Poll,
         timers # <<>> => timers[1].kind = "ack"
  PROVE  /\ active' \in Seq(Scheduled)
         /\ InLoopOrder(active')
         /\ HasAck(active') <=> HasAck(timers)
         /\ ActiveIs("ack")' => inotifyQ = <<>>
         /\ \A n \in 1 .. Len(active') :
              active'[n].kind # "inotify" =>
                \E k \in 1 .. Len(timers) : timers[k] = active'[n]
<1>1. CASE inotifyQ = <<>>
  <2>1. active' = timers
    BY <1>1, ConcatEmptySeq DEF Poll, ReadyEvents, InotifyReady
  <2> QED
    BY <1>1, <2>1
<1>2. CASE inotifyQ # <<>>
  <2> DEFINE k == Len(timers)
  <2>1. active' = <<InotifyEvent>> \o timers
    BY <1>2 DEF Poll, ReadyEvents, InotifyReady
  <2>2. <<InotifyEvent>> \in Seq(Scheduled) /\ Len(<<InotifyEvent>>) = 1
    BY DEF InotifyEvent, Scheduled
  <2>3. k \in Nat
    BY LenProperties
  <2>4. /\ active' \in Seq(Scheduled) /\ Len(active') = k + 1
        /\ active'[1] = InotifyEvent
        /\ \A n \in 2 .. k + 1 : active'[n] = timers[n - 1]
    BY <2>1, <2>2, <2>3, ConcatProperties
  <2> HIDE DEF k
  <2>5. InotifyEvent.kind = "inotify"
    BY DEF InotifyEvent
  <2>6. ASSUME NEW n \in 1 .. k + 1, n # 1
        PROVE  /\ n - 1 \in 1 .. k /\ active'[n] = timers[n - 1]
               /\ active'[n].kind = "ack" => n = 2
               /\ active'[n].kind = "delta" =>
                    /\ n = k + 1
                    /\ active'[n - 1].kind = "ack" /\ active'[n - 1].id = active'[n].id
    <3>1. n - 1 \in 1 .. k /\ active'[n] = timers[n - 1] /\ n \in 2 .. k + 1
      BY <2>3, <2>4, <2>6
    <3>2. n # 2 => active'[n - 1] = timers[n - 2] /\ (n - 1) - 1 = n - 2
      BY <2>3, <2>4, <3>1
    <3>3. timers # <<>> /\ timers[1].kind = "ack"
      BY <3>1 DEF k
    <3>4. n = 2 => timers[n - 1].kind = "ack"
      BY <3>3
    <3> QED
      BY <2>3, <3>1, <3>2, <3>3, <3>4 DEF InLoopOrder, k
  <2>7. \A n \in 1 .. k : n + 1 \in 1 .. k + 1 /\ active'[n + 1] = timers[n]
    BY <2>3, <2>4
  <2>8. ASSUME NEW n \in 1 .. Len(active')
        PROVE  /\ active'[n].kind = "inotify" => n = 1
               /\ active'[n].kind = "ack" =>
                    n = 1 \/ (n = 2 /\ active'[1].kind = "inotify")
               /\ active'[n].kind = "delta" =>
                    /\ n = Len(active')
                    /\ n = 1 \/ (active'[n - 1].kind = "ack"
                                  /\ active'[n - 1].id = active'[n].id)
    <3>1. CASE n = 1
      BY <2>4, <2>5, <3>1
    <3>2. CASE n # 1
      <4>1. n \in 1 .. k + 1
        BY <2>4
      <4>2. active'[n].kind # "inotify"
        <5>1. timers[n - 1].kind # "inotify" \/ n - 1 = 1
          BY <2>6, <3>2, <4>1 DEF InLoopOrder, k
        <5>2. timers # <<>> /\ timers[1].kind = "ack"
          BY <2>6, <3>2, <4>1 DEF k
        <5> QED
          BY <2>6, <3>2, <4>1, <5>1, <5>2
      <4> QED
        BY <2>4, <2>5, <2>6, <3>2, <4>1, <4>2
    <3> QED
      BY <3>1, <3>2
  <2>9. HasAck(active') <=> HasAck(timers)
    BY <2>3, <2>4, <2>5, <2>6, <2>7 DEF HasAck, k
  <2>10. ~ActiveIs("ack")'
    BY <2>3, <2>4, <2>5, EmptySeq DEF ActiveIs
  <2>11. \A n \in 1 .. Len(active') :
           active'[n].kind # "inotify" =>
             \E m \in 1 .. Len(timers) : timers[m] = active'[n]
    BY <2>4, <2>5, <2>6 DEF k
  <2> QED
    BY <2>4, <2>8, <2>9, <2>10, <2>11 DEF InLoopOrder
<1> QED
  BY <1>1, <1>2

\* Removing files only queues events of other files.
LEMMA QueuedOther ==
  ASSUME IW!OnlyOtherQueued, inotifyQ \in Seq(IW!Events),
         inotifyQ' = IW!Queued(inotifyQ, IW!Other)
  PROVE  IW!OnlyOtherQueued'
<1>1. CASE inotifyQ' = inotifyQ
  BY <1>1 DEF IW!OnlyOtherQueued
<1>2. CASE inotifyQ' = Append(inotifyQ, IW!Other)
  <2>1. /\ Len(inotifyQ) \in Nat /\ Len(inotifyQ') = Len(inotifyQ) + 1
        /\ \A n \in 1 .. Len(inotifyQ) : inotifyQ'[n] = inotifyQ[n]
        /\ inotifyQ'[Len(inotifyQ) + 1] = IW!Other
    BY <1>2
  <2> QED
    BY <2>1 DEF IW!OnlyOtherQueued
<1> QED
  BY <1>1, <1>2 DEF IW!Queued

LEMMA HandlersQueueOther ==
  ASSUME IW!TypeOK, EventsRead,
         \/ IW!StartImageWatch \/ IW!InsertClosedImage
         \/ IW!InsertClosedImageFails \/ IW!CloseOfUnknown \/ IW!SkipEvent
         \/ IW!LoneHeader \/ IW!ParseCutName
         \/ \E p \in toClean : IW!CleanupOne(p) \/ IW!CleanupThrows(p)
  PROVE  /\ EventsRead'
         /\ UNCHANGED <<pc, owed>>
<1>1. inotifyQ \in Seq(IW!Events)
  BY DEF IW!TypeOK, IW!QueuesOK
<1>2. ASSUME UNCHANGED <<inotifyQ, script, late>>
      PROVE  EventsRead'
  BY <1>2 DEF EventsRead, IW!OnlyOtherQueued
<1>3. ASSUME NEW p, IW!Insert(p.img) \/ IW!SkipEmpty(p), UNCHANGED <<script, late>>
      PROVE  EventsRead'
  BY <1>1, <1>2, <1>3, QueuedOther DEF IW!Insert, IW!SkipEmpty, EventsRead
<1>4. CASE IW!InsertClosedImage
  BY <1>3, <1>4 DEF IW!InsertClosedImage, IW!NextEvent
<1>5. CASE IW!StartImageWatch
  BY <1>2, <1>5 DEF IW!StartImageWatch, IW!NextEvent
<1>6. CASE \/ IW!InsertClosedImageFails \/ IW!CloseOfUnknown \/ IW!SkipEvent
           \/ IW!LoneHeader \/ IW!ParseCutName
  BY <1>2, <1>6 DEF IW!InsertClosedImageFails, IW!CloseOfUnknown, IW!SkipEvent,
                    IW!LoneHeader, IW!ParseCutName, IW!NextEvent
<1>7. CASE \E p \in toClean : IW!CleanupOne(p) \/ IW!CleanupThrows(p)
  BY <1>2, <1>3, <1>7 DEF IW!CleanupOne, IW!CleanupThrows, IW!history
<1> QED
  BY <1>4, <1>5, <1>6, <1>7

\* One read takes every event of the script, or leaves some behind.
LEMMA ReadTakesEvents ==
  ASSUME NEW ignored \in BOOLEAN, IW!Reads(ignored), UNCHANGED script
  PROVE  EventsRead'
<1>1. late' = (IF input' = <<>> /\ inotifyQ' = <<>> THEN late ELSE late \cup {script})
  BY DEF IW!Reads
<1>2. CASE inotifyQ' = <<>>
  BY <1>2 DEF EventsRead, IW!OnlyOtherQueued
<1>3. CASE inotifyQ' # <<>>
  BY <1>1, <1>3 DEF EventsRead
<1> QED
  BY <1>2, <1>3

LEMMA LoopInvStep ==
  ASSUME IW!TypeOK, SessionTypes, EnvTypes, OutboxType, LoopInv, [Next]_vars
  PROVE  LoopInv'
<1>t. timers \in Seq(Scheduled) /\ active \in Seq(Scheduled)
  BY DEF SessionTypes
<1>e. <<>> \in Seq(Scheduled) /\ InLoopOrder(<<>>) /\ ~HasAck(<<>>)
  BY DEF InLoopOrder, HasAck
\* Steps that leave the loop and ImageWatch's part of it alone.
<1>u. ASSUME UNCHANGED <<timers, active, owed, pc, inotifyQ, script, late>>,
             pc = "script" => UNCHANGED <<running, alive>>
      PROVE  LoopInv'
  BY <1>u DEF LoopInv, InLoopOrder, HasAck, ActiveIs, EventsRead, IW!OnlyOtherQueued
<1>i. UNCHANGED images => UNCHANGED <<owed, pc, inotifyQ, alive, script, late>>
  BY DEF images
<1>0. CASE UNCHANGED vars
  BY <1>0, <1>u, <1>i DEF vars, rest, loop, session
<1>1. CASE \E op \in ClientOps : ClientSend(op)
  BY <1>1, <1>u, <1>i DEF ClientSend, loop, session
<1>2. ASSUME NEW j \in 1 .. Len(socket), NEW c \in AnyRequest, Reads(j, c), Quick(c)
      PROVE  LoopInv'
  <2>1. UNCHANGED <<timers, active, owed, pc, inotifyQ, script, late>>
    BY <1>2, <1>i DEF Quick, loop, IW!ResetOnly, IW!history
  <2>2. pc = "idle"
    BY <1>2 DEF Reads, LoopQuiet
  <2> QED
    BY <1>u, <2>1, <2>2
<1>3. ASSUME NEW j \in 1 .. Len(socket), NEW c \in AnyRequest, Reads(j, c), StartEval(c)
      PROVE  LoopInv'
  <2>1. /\ timers = <<>> /\ active = <<>> /\ running /\ alive
        /\ UNCHANGED <<timers, active, owed, running, alive>> /\ pc' = "script"
    BY <1>3 DEF Reads, LoopQuiet, StartEval, loop, session, IW!StartScript
  <2> QED
    BY <1>e, <2>1 DEF LoopInv, HasAck, ActiveIs
<1>4. CASE RPrint \/ RWarn \/ RAssign \/ RChangeDir \/ RWriteFile
  <2>1. /\ pc = "script" /\ UNCHANGED <<timers, active, running>>
    BY <1>4 DEF RPrint, RWarn, RAssign, RChangeDir, RWriteFile, REffect, Evaluating, loop, session
  <2>2. UNCHANGED <<owed, pc, alive>>
    BY <1>4, <1>i DEF RPrint, RWarn, RAssign, RChangeDir, RWriteFile, IW!TouchFile, IW!Draw,
                      IW!OpenPage, IW!RemoveImage
  <2> QED
    BY <2>1, <2>2 DEF LoopInv, InLoopOrder, HasAck, ActiveIs
<1>5. ASSUME NEW acked \in BOOLEAN, NEW copied \in BOOLEAN, EvalEnds(acked, copied),
             pc = "script"
      PROVE  LoopInv'
  <2>1. /\ timers = <<>> /\ active = <<>> /\ active' = <<>> /\ pc' = "idle"
        /\ owed' = IF acked THEN script ELSE 0
    BY <1>5 DEF LoopInv, EvalEnds, IW!EndScript
  <2>2. script # 0
    BY <1>5 DEF IW!TypeOK, IW!CountersOK
  <2>3. CASE ~acked
    BY <1>5, <1>e, <2>1, <2>3 DEF EvalEnds, LoopInv, ActiveIs
  <2>4. CASE acked
    <3>1. PICK f \in BOOLEAN, d \in BOOLEAN : Scheduling(f, d)
      BY <1>5, <2>4 DEF EvalEnds
    <3>2. cur.id \in Commands
      BY <1>5 DEF SessionTypes, Evaluations
    <3>3. /\ Len(timers') = IF d THEN 2 ELSE 1
          /\ timers'[1] = AckTimer(cur.id, f)
          /\ d => timers'[2] = DeltaTimer(cur.id)
      BY <2>1, <3>1, <3>2, ScheduledTimers
    <3>4. /\ timers'[1].kind = "ack" /\ timers'[1].id = cur.id
          /\ d => timers'[2].kind = "delta" /\ timers'[2].id = cur.id
      BY <3>3 DEF AckTimer, DeltaTimer
    <3>5. \A n \in 1 .. Len(timers') : n = 1 \/ (n = 2 /\ d /\ Len(timers') = 2)
      BY <3>3
    <3>6. InLoopOrder(timers')
      BY <3>3, <3>4, <3>5 DEF InLoopOrder
    <3>7. HasAck(timers')
      BY <3>3, <3>4 DEF HasAck
    <3> QED
      BY <1>e, <2>1, <2>2, <2>4, <3>4, <3>6, <3>7 DEF LoopInv, ActiveIs
  <2> QED
    BY <2>3, <2>4
<1>6. CASE Poll
  <2>1. /\ active' \in Seq(Scheduled) /\ InLoopOrder(active')
        /\ HasAck(active') <=> HasAck(timers)
        /\ ActiveIs("ack")' => inotifyQ = <<>>
    BY <1>6, <1>t, PollOrder DEF LoopInv
  <2>2. timers' = <<>> /\ active = <<>> /\ pc = "idle"
        /\ UNCHANGED <<owed, pc, inotifyQ>>
    BY <1>6, <1>i DEF Poll
  <2>3. ActiveIs("ack")' => EventsRead'
    BY <2>1, <2>2 DEF EventsRead, IW!OnlyOtherQueued
  <2> QED
    BY <1>e, <2>1, <2>2, <2>3 DEF LoopInv
\* An event that is not an acknowledgement is done with.
<1>d. ASSUME active # <<>>, Deactivate, pc' = "idle",
             IF Head(active).kind = "ack" THEN owed' = 0 ELSE owed' = owed,
             EventsRead' \/ \A n \in 1 .. Len(Tail(active)) :
                             Tail(active)[n].kind # "ack"
      PROVE  LoopInv'
  <2>1. /\ InLoopOrder(Tail(active)) /\ Tail(active) \in Seq(Scheduled)
        /\ Head(active).kind # "ack" => (HasAck(Tail(active)) <=> HasAck(active))
        /\ Head(active).kind = "ack" => ~HasAck(Tail(active))
    BY <1>d, <1>t, TailInOrder, QueueHead DEF LoopInv
  <2>2. timers = <<>> /\ timers' = <<>> /\ active' = Tail(active)
    BY <1>d DEF Deactivate, LoopInv
  <2>3. ActiveIs("ack")' => EventsRead'
    <3>1. ASSUME Tail(active) # <<>>
          PROVE  Head(Tail(active)) = Tail(active)[1] /\ 1 \in 1 .. Len(Tail(active))
      BY <2>1, <3>1, QueueHead
    <3> QED
      BY <1>d, <2>2, <3>1 DEF ActiveIs
  <2> QED
    BY <1>d, <1>e, <2>1, <2>2, <2>3 DEF LoopInv
<1>7. CASE RunInotify
  <2>1. active # <<>> /\ Head(active).kind = "inotify" /\ pc = "idle"
    BY <1>7 DEF RunInotify, ActiveIs
  <2>2. CASE IW!DropInotify /\ Deactivate
    <3>1. UNCHANGED <<owed, pc>>
      BY <2>2 DEF IW!DropInotify
    <3>2. EventsRead'
      BY <2>2, ReadTakesEvents DEF IW!DropInotify
    <3> QED
      BY <1>d, <2>1, <2>2, <3>1, <3>2
  <2>3. CASE IW!ReadInotify /\ UNCHANGED loop
    <3>1. UNCHANGED <<owed, timers, active>> /\ pc' = "inotify"
      BY <2>3 DEF IW!ReadInotify, loop
    <3>2. EventsRead'
      BY <2>3, ReadTakesEvents DEF IW!ReadInotify
    <3> QED
      BY <2>1, <3>1, <3>2 DEF LoopInv, ActiveIs
  <2> QED
    BY <1>7, <2>2, <2>3 DEF RunInotify
<1>8. CASE InotifyStep
  <2>1. pc = "inotify" /\ ActiveIs("inotify") /\ EventsRead
    BY <1>8 DEF InotifyStep, LoopInv
  <2>2. CASE /\ \/ IW!StartImageWatch \/ IW!InsertClosedImage
                \/ IW!InsertClosedImageFails \/ IW!CloseOfUnknown \/ IW!SkipEvent
                \/ IW!LoneHeader \/ IW!ParseCutName
             /\ UNCHANGED loop
    <3>1. EventsRead' /\ UNCHANGED <<pc, owed, timers, active>>
      BY <2>1, <2>2, HandlersQueueOther DEF loop
    <3> QED
      BY <2>1, <3>1 DEF LoopInv, ActiveIs
  <2>3. CASE IW!EndInotify /\ Deactivate
    <3>1. pc' = "idle" /\ UNCHANGED <<owed, inotifyQ, script, late>>
      BY <2>3 DEF IW!EndInotify, IW!history
    <3>2. EventsRead'
      BY <2>1, <3>1 DEF EventsRead, IW!OnlyOtherQueued
    <3> QED
      BY <1>d, <2>1, <2>3, <3>1, <3>2 DEF ActiveIs
  <2> QED
    BY <1>8, <2>2, <2>3 DEF InotifyStep
<1>9. CASE RunAck
  <2>1. /\ ActiveIs("ack") /\ pc' = "cleanup"
        /\ UNCHANGED <<owed, inotifyQ, script, late, timers, active>>
    BY <1>9 DEF RunAck, IW!StartAck, IW!history, rest, loop
  <2> QED
    BY <2>1 DEF LoopInv, ActiveIs, EventsRead, IW!OnlyOtherQueued
<1>10. CASE CleanupStep
  <2>1. pc = "cleanup" /\ UNCHANGED <<timers, active>>
    BY <1>10 DEF CleanupStep, IW!CleanupOne, IW!CleanupThrows, rest, loop
  <2>2. ActiveIs("ack") /\ EventsRead
    BY <2>1 DEF LoopInv
  <2>3. EventsRead' /\ UNCHANGED <<pc, owed>>
    BY <1>10, <2>2, HandlersQueueOther DEF CleanupStep
  <2> QED
    BY <2>1, <2>2, <2>3 DEF LoopInv, ActiveIs
<1>11. CASE FinishAck
  <2>1. /\ active # <<>> /\ Head(active).kind = "ack" /\ Deactivate
        /\ owed' = 0 /\ pc' = "idle" /\ UNCHANGED <<inotifyQ, script, late>>
    BY <1>11 DEF FinishAck, ActiveIs, IW!EndAck, IW!history
  <2>2. EventsRead'
    BY <2>1 DEF LoopInv, ActiveIs, EventsRead, IW!OnlyOtherQueued
  <2> QED
    BY <1>d, <2>1, <2>2
<1>12. CASE RunDelta
  <2>1. /\ active # <<>> /\ Head(active).kind = "delta" /\ Deactivate
        /\ pc = "idle" /\ UNCHANGED <<pc, owed>>
    BY <1>12, <1>i DEF RunDelta, ActiveIs, IW!AbortElsewhere
  <2>2. \A n \in 1 .. Len(Tail(active)) : Tail(active)[n].kind # "ack"
    <3>1. /\ Len(active) \in Nat \ {0} /\ 1 \in 1 .. Len(active)
          /\ Head(active) = active[1] /\ Len(Tail(active)) = Len(active) - 1
      BY <1>t, <2>1, QueueHead
    <3>2. InLoopOrder(active)
      BY DEF LoopInv
    <3>3. Len(active) = 1
      BY <2>1, <3>1, <3>2 DEF InLoopOrder
    <3>4. Len(Tail(active)) = 0
      BY <3>1, <3>3
    <3> QED
      BY <3>4
  <2> QED
    BY <1>d, <2>1, <2>2
<1>13. CASE IgnoreTimer \/ DBNotify
  <2>1. UNCHANGED <<timers, active, owed, pc>> /\ pc = "idle" /\ active = <<>>
    BY <1>13 DEF IgnoreTimer, DBNotify, LoopQuiet, rest, loop, IW!IgnoreOff,
                 IW!HandlesNotifications
  <2> QED
    BY <2>1 DEF LoopInv, InLoopOrder, HasAck, ActiveIs
<1> QED
  BY <1>0, <1>1, <1>2, <1>3, <1>4, <1>5, <1>6, <1>7, <1>8, <1>9, <1>10, <1>11,
     <1>12, <1>13, StepCases DEF LoopStep

-----------------------------------------------------------------------------
(* What each step sends. *)

LEMMA QuickSends ==
  ASSUME OutboxType, NEW c \in AnyRequest, Quick(c)
  PROVE  Kept /\ \A n \in Added : outbox'[n] \in Answers(c)
<1>1. CASE outbox' = outbox
  BY <1>1, NothingSent
<1>2. CASE \E m \in Answers(c) : Send(<<m>>)
  <2>1. PICK m \in Answers(c) : Send(<<m>>)
    BY <1>2
  <2>2. <<m>> \in Seq(Messages) /\ Len(<<m>>) = 1 /\ <<m>>[1] = m
    BY DEF Answers
  <2>3. Kept /\ \A n \in Added : \E k \in 1 .. Len(<<m>>) : outbox'[n] = <<m>>[k]
    BY <2>1, <2>2, SendAdds
  <2>4. \A k \in 1 .. Len(<<m>>) : <<m>>[k] = m
    BY <2>2
  <2> QED
    BY <2>3, <2>4
<1> QED
  BY <1>1, <1>2 DEF Quick

LEMMA WarnSends ==
  ASSUME SessionTypes, OutboxType, RWarn
  PROVE  Kept /\ \A n \in Added : outbox'[n] \in EvalMessages
<1>1. pc = "script"
  BY DEF RWarn, REffect, Evaluating
<1> DEFINE m == [Msg("results", cur.id, currentQueryId) EXCEPT !.text = {cur.id}]
<1>2. <<m>> \in Seq(EvalMessages) /\ Send(<<m>>)
  BY <1>1, EvalMessageTypes DEF RWarn
<1> QED
  BY <1>1, <1>2, EvalSends

LEMMA ActiveHead ==
  ASSUME SessionTypes, active # <<>>
  PROVE  /\ Head(active) \in Scheduled
         /\ Head(active).kind # "inotify" => Head(active).id \in Commands
<1>1. Head(active) \in Scheduled
  BY QueueHead DEF SessionTypes
<1> QED
  BY <1>1 DEF Scheduled

LEMMA AckSends ==
  ASSUME SessionTypes, OutboxType, FinishAck
  PROVE  LET a == Head(active)
             L == Len(outbox)
         IN  /\ a.id \in Commands
             /\ Kept /\ Len(outbox') = L + (IF a.file THEN 2 ELSE 1)
             /\ outbox'[L + 1] = Msg("execComplete", a.id, a.id)
             /\ a.file => outbox'[L + 2] = Msg("showoutput", a.id, 0)
<1> DEFINE a == Head(active)
           x == Msg("execComplete", a.id, a.id)
           y == Msg("showoutput", a.id, 0)
<1>1. a.id \in Commands
  BY ActiveHead DEF FinishAck, ActiveIs
<1>2. x \in Messages /\ y \in Messages
  <2>1. 0 \in 0 .. MaxCommands /\ a.id \in 0 .. MaxCommands /\ 0 \in 0 .. MaxROps
    BY <1>1, BoundsAssumption DEF Commands
  <2> QED
    BY <1>1, <2>1 DEF Msg, Messages
<1>3. Send(<<x>> \o IF a.file THEN <<y>> ELSE <<>>)
  BY DEF FinishAck
<1> HIDE DEF x, y
<1>4. CASE a.file
  <2> DEFINE msgs == <<x>> \o <<y>>
  <2>1. <<x>> \in Seq(Messages) /\ <<y>> \in Seq(Messages)
    BY <1>2
  <2>2. msgs \in Seq(Messages) /\ Len(msgs) = 2 /\ msgs[1] = x /\ msgs[2] = y
    BY <2>1, ConcatProperties
  <2>3. Send(msgs)
    BY <1>3, <1>4
  <2> HIDE DEF msgs
  <2>4. /\ Kept /\ Added = Len(outbox) + 1 .. Len(outbox) + Len(msgs)
        /\ \A k \in 1 .. Len(msgs) : outbox'[Len(outbox) + k] = msgs[k]
    BY <2>2, <2>3, SendKeeps
  <2>5. outbox'[Len(outbox) + 1] = x /\ outbox'[Len(outbox) + 2] = y
    BY <2>2, <2>4
  <2>6. Len(outbox') = Len(outbox) + 2
    <3>1. outbox \in Seq(Messages) /\ outbox' = outbox \o msgs
      BY <2>3 DEF Send, OutboxType
    <3>2. Len(outbox') = Len(outbox) + Len(msgs)
      BY <2>2, <3>1, ConcatProperties
    <3> QED
      BY <2>2, <3>2
  <2> QED
    BY <1>1, <1>4, <2>4, <2>5, <2>6 DEF x, y
<1>5. CASE ~a.file
  <2>1. <<x>> \in Seq(Messages) /\ Len(<<x>>) = 1 /\ <<x>>[1] = x
    BY <1>2
  <2>2. Send(<<x>>)
    BY <1>3, <1>5, <2>1, ConcatEmptySeq
  <2>3. /\ Kept
        /\ \A k \in 1 .. Len(<<x>>) : outbox'[Len(outbox) + k] = <<x>>[k]
    BY <2>1, <2>2, SendKeeps
  <2>4. outbox'[Len(outbox) + 1] = x
    BY <2>1, <2>3
  <2>5. Len(outbox') = Len(outbox) + 1
    BY <2>1, <2>2, ConcatProperties DEF Send, OutboxType
  <2> QED
    BY <1>1, <1>5, <2>3, <2>4, <2>5 DEF x, y
<1> QED
  BY <1>4, <1>5

LEMMA DeltaSends ==
  ASSUME SessionTypes, EnvTypes, OutboxType, RunDelta
  PROVE  /\ Head(active).id \in Commands
         /\ Kept /\ \A n \in Added : outbox'[n] = VariableDelta(Head(active).id)
<1> DEFINE d == Head(active).id
<1>1. d \in Commands
  BY ActiveHead DEF RunDelta, ActiveIs
<1>2. VariableDelta(d) \in Messages
  <2>1. /\ 0 \in 0 .. MaxCommands /\ 0 \in 0 .. MaxROps
        /\ env \in 0 .. MaxROps /\ lastVars \in 0 .. MaxROps
    BY BoundsAssumption DEF EnvTypes
  <2>2. Msg("delta", d, 0) \in Messages
    BY <1>1, <2>1 DEF Msg, Messages
  <2> QED
    BY <2>1, <2>2 DEF VariableDelta, Messages
<1> DEFINE x == VariableDelta(d)
<1>3. outbox' = outbox \/ Send(<<x>>)
  BY DEF RunDelta
<1> HIDE DEF x
<1>4. <<x>> \in Seq(Messages) /\ Len(<<x>>) = 1 /\ <<x>>[1] = x
  BY <1>2 DEF x
<1>5. CASE Send(<<x>>)
  <2>1. Kept /\ \A n \in Added : \E k \in 1 .. Len(<<x>>) : outbox'[n] = <<x>>[k]
    BY <1>4, <1>5, SendAdds
  <2>2. \A k \in 1 .. Len(<<x>>) : <<x>>[k] = x
    BY <1>4
  <2> QED
    BY <1>1, <2>1, <2>2 DEF x
<1>6. CASE outbox' = outbox
  BY <1>1, <1>6, NothingSent
<1> QED
  BY <1>3, <1>5, <1>6

\* All other steps send nothing.
LEMMA SilentSteps ==
  \/ \E op \in ClientOps : ClientSend(op)
  \/ \E c : StartEval(c)
  \/ RPrint \/ RAssign \/ RChangeDir \/ RWriteFile
  \/ Poll \/ RunInotify \/ InotifyStep \/ RunAck \/ CleanupStep
  \/ IgnoreTimer \/ DBNotify \/ UNCHANGED vars
  => UNCHANGED outbox
<1>1. ASSUME NEW op \in ClientOps, ClientSend(op) PROVE UNCHANGED outbox
  BY <1>1 DEF ClientSend
<1>2. ASSUME NEW c, StartEval(c) PROVE UNCHANGED outbox
  BY <1>2 DEF StartEval
<1>3. RPrint \/ RAssign \/ RChangeDir \/ RWriteFile \/ Poll \/ RunInotify \/ InotifyStep
        => UNCHANGED outbox
  BY DEF RPrint, RAssign, RChangeDir, RWriteFile, Poll, RunInotify, InotifyStep
<1>4. RunAck \/ CleanupStep \/ IgnoreTimer \/ DBNotify \/ UNCHANGED vars
        => UNCHANGED outbox
  BY DEF RunAck, CleanupStep, IgnoreTimer, DBNotify, vars, rest
<1> QED
  BY <1>1, <1>2, <1>3, <1>4

LEMMA OutboxKept ==
  ASSUME SessionTypes, EnvTypes, OutboxType, [Next]_vars
  PROVE  Kept
<1>1. ASSUME NEW c \in AnyRequest, Quick(c) PROVE Kept
  BY <1>1, QuickSends
<1>2. RWarn \/ FinishAck \/ RunDelta => Kept
  BY WarnSends, AckSends, DeltaSends
<1>3. (\E acked, copied \in BOOLEAN : EvalEnds(acked, copied)) => Kept
  BY DEF EvalEnds
<1>4. UNCHANGED outbox => Kept
  BY NothingSent
<1> QED
  BY <1>1, <1>2, <1>3, <1>4, SilentSteps, StepCases DEF LoopStep

-----------------------------------------------------------------------------
(* Type correctness. *)

LEMMA SubSeqType ==
  ASSUME NEW S, NEW q \in Seq(S), NEW j \in 1 .. Len(q)
  PROVE  LET t == SubSeq(q, j + 1, Len(q))
         IN  /\ t \in Seq(S)
             /\ Len(t) = Len(q) - j
             /\ \A n \in 1 .. Len(t) : n + j \in 1 .. Len(q) /\ t[n] = q[n + j]
<1> DEFINE t == SubSeq(q, j + 1, Len(q))
<1>1. Len(q) \in Nat /\ j \in Nat /\ j <= Len(q)
  BY LenProperties
<1>2. \A i \in j + 1 .. Len(q) : q[i] \in S
  BY <1>1, ElementOfSeq
<1>3. /\ t \in Seq(S)
      /\ Len(t) = IF j + 1 <= Len(q) THEN Len(q) - (j + 1) + 1 ELSE 0
      /\ \A i \in 1 .. Len(q) - (j + 1) + 1 : t[i] = q[j + 1 + i - 1]
  BY <1>1, <1>2, SubSeqProperties
<1> HIDE DEF t
<1>4. Len(t) = Len(q) - j
  BY <1>1, <1>3
<1>5. ASSUME NEW n \in 1 .. Len(t)
      PROVE  n + j \in 1 .. Len(q) /\ t[n] = q[n + j]
  <2>1. n \in 1 .. Len(q) - (j + 1) + 1 /\ j + 1 + n - 1 = n + j
    BY <1>1, <1>4
  <2>2. t[n] = q[j + 1 + n - 1]
    BY <1>3, <2>1
  <2> QED
    BY <1>1, <1>4, <2>1, <2>2
<1> QED
  BY <1>3, <1>4, <1>5 DEF t

LEMMA SessionTypesStep ==
  ASSUME IW!TypeOK, SessionTypes, EnvTypes, OutboxType, LoopInv, [Next]_vars
  PROVE  SessionTypes'
<1>b. MaxCommands \in Nat /\ 0 \in 0 .. MaxCommands
  BY BoundsAssumption
<1>i. UNCHANGED images => UNCHANGED pc
  BY DEF images
<1> USE DEF SessionTypes
<1>0. CASE UNCHANGED vars
  BY <1>0, <1>i DEF vars, rest, client, session, console, loop, rvars, history
<1>1. CASE \E op \in ClientOps : ClientSend(op)
  <2>1. PICK op \in ClientOps : ClientSend(op)
    BY <1>1
  <2>2. op \in Ops /\ nsent + 1 \in Commands /\ nsent' \in 0 .. MaxCommands
    BY <1>b, <2>1, OpsAssumption DEF ClientSend, Commands
  <2>3. [op |-> op, id |-> nsent + 1] \in Requests
    BY <2>2 DEF Requests
  <2>4. socket' \in Seq(Requests)
    BY <2>1, <2>3 DEF ClientSend
  <2> QED
    BY <2>1, <2>2, <2>4, <1>i DEF ClientSend, session, console, loop, rvars, history
<1>r. ASSUME NEW j \in 1 .. Len(socket), NEW c \in AnyRequest, Reads(j, c)
      PROVE  /\ socket' \in Seq(Requests) /\ UNCHANGED nsent
             /\ c.id \in Commands /\ c.id \in 0 .. MaxCommands /\ pc = "idle"
  <2>1. socket' \in Seq(Requests)
    BY <1>r, SubSeqType DEF Reads
  <2> QED
    BY <1>b, <1>r, <2>1 DEF Reads, LoopQuiet, AnyRequest, Commands
<1>2. ASSUME NEW j \in 1 .. Len(socket), NEW c \in AnyRequest, Reads(j, c), Quick(c)
      PROVE  SessionTypes'
  <2>1. UNCHANGED pc
    BY <1>2, <1>i DEF Quick, IW!ResetOnly
  <2> QED
    BY <1>b, <1>r, <1>2, <2>1 DEF Quick, loop
<1>3. ASSUME NEW j \in 1 .. Len(socket), NEW c \in AnyRequest, Reads(j, c),
             c.op \in EvalOps, StartEval(c)
      PROVE  SessionTypes'
  <2>1. pc' = "script"
    BY <1>3 DEF StartEval, IW!StartScript
  <2>2. cur' \in Evaluations
    <3>1. (watchVariables \/ c.op = "execWatch") \in BOOLEAN
      OBVIOUS
    <3> QED
      BY <1>3, <1>r, <3>1 DEF StartEval, Evaluations
  <2>3. captureStdOut' \in BOOLEAN /\ ignoreOutput' \in BOOLEAN
    BY <1>3 DEF StartEval
  <2>4. cwd' \in {cwd, "tmp", "scratch"}
    BY <1>3 DEF StartEval
  <2> QED
    BY <1>3, <1>r, <2>1, <2>2, <2>3, <2>4 DEF StartEval, SetsQueryId, session, loop
<1>4. CASE RPrint \/ RWarn \/ RAssign \/ RChangeDir \/ RWriteFile
  <2>1. /\ pc = "script" /\ REffect
        /\ consoleOutBuffer' \in {consoleOutBuffer, consoleOutBuffer \cup {cur.id}}
        /\ stdOutCapture' \in {stdOutCapture, stdOutCapture \cup {cur.id}}
    BY <1>4 DEF RPrint, RWarn, RAssign, RChangeDir, RWriteFile, REffect, Evaluating
  <2>2. UNCHANGED pc
    BY <1>4, <1>i DEF RPrint, RWarn, RAssign, RChangeDir, RWriteFile, IW!TouchFile, IW!Draw,
                      IW!OpenPage, IW!RemoveImage
  <2>3. cur.id \in Commands
    BY <2>1 DEF Evaluations
  <2>4. cwd' \in {cwd, "work", "other"}
    BY <1>4 DEF RPrint, RWarn, RAssign, RChangeDir, RWriteFile
  <2> QED
    BY <2>1, <2>2, <2>3, <2>4 DEF REffect, client, session, loop
<1>5. ASSUME NEW acked \in BOOLEAN, NEW copied \in BOOLEAN, EvalEnds(acked, copied),
             pc = "script"
      PROVE  SessionTypes'
  <2>1. cur.id \in Commands /\ cur.id \in 0 .. MaxCommands
    BY <1>5, <1>b DEF Evaluations, Commands
  <2>2. pc' = "idle"
    BY <1>5 DEF EvalEnds, IW!EndScript
  <2>3. timers' \in Seq(Scheduled)
    BY <1>5, <2>1, ScheduledTimers DEF EvalEnds, LoopInv
  <2> QED
    BY <1>5, <1>b, <2>1, <2>2, <2>3 DEF EvalEnds, client, session
<1>6. CASE Poll
  <2>1. active' \in Seq(Scheduled)
    BY <1>6, PollOrder DEF LoopInv
  <2>2. timers' \in Seq(Scheduled)
    BY <1>6 DEF Poll
  <2> QED
    BY <1>6, <1>i, <2>1, <2>2 DEF Poll, client, session, console, rvars, history
\* A loop step that evaluates nothing.
<1>l. ASSUME UNCHANGED <<client, session, cur, rvars, history, captureStdOut,
                         consoleOutBuffer, stdOutCapture>>,
             ignoreOutput' \in BOOLEAN,
             currentQueryId' \in {currentQueryId, 0},
             UNCHANGED loop \/ (active # <<>> /\ Deactivate),
             pc # "script", pc' # "script"
      PROVE  SessionTypes'
  <2>1. timers' \in Seq(Scheduled) /\ active' \in Seq(Scheduled)
    BY <1>l, QueueHead DEF loop, Deactivate
  <2> QED
    BY <1>b, <1>l, <2>1 DEF client, session, rvars, history
<1>7. CASE RunInotify
  BY <1>7, <1>l DEF RunInotify, ActiveIs, console, IW!DropInotify, IW!ReadInotify
<1>8. CASE InotifyStep
  <2>1. pc = "inotify" /\ active # <<>>
    BY <1>8 DEF InotifyStep, LoopInv, ActiveIs
  <2>2. pc' # "script"
    BY <1>8, <2>1 DEF InotifyStep, IW!StartImageWatch, IW!InsertClosedImage,
       IW!InsertClosedImageFails, IW!CloseOfUnknown, IW!SkipEvent, IW!NextEvent,
       IW!LoneHeader, IW!ParseCutName, IW!EndInotify
  <2> QED
    BY <1>8, <1>l, <2>1, <2>2 DEF InotifyStep, console
<1>9. CASE RunAck \/ CleanupStep
  BY <1>9, <1>l DEF RunAck, CleanupStep, rest, console, IW!StartAck, IW!CleanupOne,
                    IW!CleanupThrows
<1>10. CASE FinishAck
  BY <1>10, <1>l DEF FinishAck, ActiveIs, console, IW!EndAck
<1>11. CASE RunDelta
  <2>1. UNCHANGED pc /\ pc = "idle" /\ active # <<>> /\ Deactivate
    BY <1>11, <1>i DEF RunDelta, ActiveIs, IW!AbortElsewhere
  <2>2. /\ ignoreOutput' \in BOOLEAN /\ currentQueryId' \in {currentQueryId, 0}
        /\ UNCHANGED <<captureStdOut, consoleOutBuffer, stdOutCapture>>
    BY <1>11 DEF RunDelta, QuietConsole, console
  <2> QED
    BY <1>11, <1>l, <2>1, <2>2 DEF RunDelta
<1>12. CASE IgnoreTimer \/ DBNotify
  BY <1>12, <1>l DEF IgnoreTimer, DBNotify, LoopQuiet, rest, console, IW!IgnoreOff,
                     IW!HandlesNotifications
<1> QED
  BY <1>0, <1>1, <1>2, <1>3, <1>4, <1>5, <1>6, <1>7, <1>8, <1>9, <1>10, <1>11,
     <1>12, StepCases DEF LoopStep

LEMMA EnvTypesStep ==
  ASSUME SessionTypes, EnvTypes, OutboxType, [Next]_vars
  PROVE  EnvTypes'
<1>b. MaxROps \in Nat /\ rops \in Nat /\ env \in Nat
  BY BoundsAssumption DEF EnvTypes
<1>u. UNCHANGED <<rvars, spans, rops>> => EnvTypes'
  BY DEF EnvTypes, rvars
<1>0. CASE UNCHANGED vars
  BY <1>0, <1>u DEF vars, rest, history
<1>1. CASE \E op \in ClientOps : ClientSend(op)
  BY <1>1, <1>u DEF ClientSend, history
<1>2. ASSUME NEW j \in 1 .. Len(socket), NEW c \in AnyRequest, Quick(c)
      PROVE  EnvTypes'
  BY <1>b, <1>2 DEF EnvTypes, Quick
<1>3. ASSUME NEW c \in AnyRequest, StartEval(c)
      PROVE  EnvTypes'
  <2>1. spans' \in [Commands -> Int \X Int]
    <3>1. spans \in [Commands -> Int \X Int] /\ <<env, env>> \in Int \X Int
      BY <1>b DEF EnvTypes
    <3>2. spans' = [spans EXCEPT ![c.id] = <<env, env>>]
      BY <1>3 DEF StartEval
    <3> QED
      BY <3>1, <3>2
  <2>2. UNCHANGED <<env, rdata, savedEnv, rops>> /\ lastVars' \in {env, lastVars}
    BY <1>3 DEF StartEval, CaptureEnvironment
  <2> QED
    BY <1>b, <2>1, <2>2 DEF EnvTypes
<1>4. CASE RPrint \/ RWarn \/ RChangeDir \/ RWriteFile
  BY <1>b, <1>4 DEF EnvTypes, RPrint, RWarn, RChangeDir, RWriteFile, REffect
<1>5. CASE RAssign
  <2>1. spans \in [Commands -> Int \X Int] /\ cur.id \in Commands
    BY <1>5 DEF EnvTypes, SessionTypes, Evaluations, RAssign, REffect, Evaluating
  <2>2. spans[cur.id] \in Int \X Int
    BY <2>1
  <2>3. [spans[cur.id] EXCEPT ![2] = env + 1] \in Int \X Int
    BY <1>b, <2>2
  <2>4. spans' \in [Commands -> Int \X Int]
    BY <1>5, <2>1, <2>3 DEF RAssign
  <2> QED
    BY <1>b, <1>5, <2>4 DEF EnvTypes, RAssign, REffect
<1>6. CASE \E acked, copied \in BOOLEAN : EvalEnds(acked, copied)
  BY <1>6 DEF EvalEnds, EnvTypes
<1>7. CASE LoopStep \/ IgnoreTimer \/ DBNotify
  BY <1>7, <1>u DEF LoopStep, Poll, RunInotify, InotifyStep, RunAck, CleanupStep,
                    FinishAck, RunDelta, IgnoreTimer, DBNotify, rest, history
<1> QED
  BY <1>0, <1>1, <1>2, <1>3, <1>4, <1>5, <1>6, <1>7, StepCases

-----------------------------------------------------------------------------
(* The session speaks for its commands in order. *)

LEMMA SocketTypes ==
  ASSUME SessionTypes
  PROVE  /\ Len(socket) \in Nat /\ nsent \in Nat
         /\ \A k \in 1 .. Len(socket) : socket[k].id \in Commands /\ socket[k].id \in Nat
<1>1. socket \in Seq(Requests) /\ nsent \in Nat
  BY BoundsAssumption DEF SessionTypes
<1>2. \A k \in 1 .. Len(socket) : socket[k] \in Requests
  BY <1>1, ElementOfSeq
<1> QED
  BY <1>1, <1>2, LenProperties DEF Requests, Commands

\* The first j commands left the socket; what is said is about c, which came
\* before all of the others.
LEMMA SocketInvSpeaks ==
  ASSUME SessionTypes, OutboxType, SocketInv, Kept,
         NEW j \in Nat, NEW c \in Commands,
         \A k \in 1 .. Len(socket') :
           k + j \in 1 .. Len(socket) /\ socket'[k] = socket[k + j],
         Len(socket') \in Nat, UNCHANGED nsent, c <= nsent,
         \A k \in 1 .. Len(socket') : c < socket'[k].id,
         \A n \in Added : outbox'[n].by = c,
         thrown' \subseteq thrown \cup {c},
         \A x \in Commands \ {c} : spans'[x] = spans[x]
  PROVE  SocketInv'
<1>1. /\ Len(socket) \in Nat /\ nsent \in Nat
      /\ \A k \in 1 .. Len(socket) : socket[k].id \in Commands /\ socket[k].id \in Nat
  BY SocketTypes
<1>2. c \in Nat
  BY DEF Commands
<1>3. \A n \in 1 .. Len(outbox) : outbox[n].by \in Nat
  BY MessageTypes
<1>4. \A n \in 1 .. Len(outbox') :
        (n \in 1 .. Len(outbox) /\ outbox'[n] = outbox[n]) \/ outbox'[n].by = c
  BY DEF Kept, Added
<1>5. ASSUME NEW k \in 1 .. Len(socket')
      PROVE  /\ socket'[k].id <= nsent'
             /\ SaidOnly(socket[k].id, {})'
             /\ socket'[k].id \notin thrown'
             /\ spans'[socket'[k].id] = NotRun
  <2>1. /\ k + j \in 1 .. Len(socket) /\ socket'[k] = socket[k + j]
        /\ c < socket'[k].id
    OBVIOUS
  <2>2. /\ socket[k + j].id <= nsent /\ SaidOnly(socket[k + j].id, {})
        /\ socket[k + j].id \notin thrown /\ spans[socket[k + j].id] = NotRun
    BY <2>1 DEF SocketInv
  <2>3. socket[k + j].id \in Nat /\ socket[k + j].id \in Commands \ {c}
    BY <1>1, <1>2, <2>1
  <2>4. SaidOnly(socket[k].id, {})'
    <3> SUFFICES ASSUME NEW n \in 1 .. Len(outbox')
                 PROVE  /\ outbox'[n].by <= socket'[k].id
                        /\ outbox'[n].by # socket'[k].id
      BY DEF SaidOnly
    <3>1. CASE n \in 1 .. Len(outbox) /\ outbox'[n] = outbox[n]
      BY <1>3, <2>1, <2>2, <2>3, <3>1 DEF SaidOnly
    <3>2. CASE outbox'[n].by = c
      BY <1>2, <2>1, <2>3, <3>2
    <3> QED
      BY <1>4, <3>1, <3>2
  <2> QED
    BY <2>1, <2>2, <2>3, <2>4
<1>6. ASSUME NEW k \in 1 .. Len(socket'), NEW l \in 1 .. Len(socket'), k < l
      PROVE  socket'[k].id < socket'[l].id
  <2>1. k + j \in 1 .. Len(socket) /\ l + j \in 1 .. Len(socket) /\ k + j < l + j
    BY <1>6
  <2>2. socket[k + j].id < socket[l + j].id
    BY <2>1 DEF SocketInv
  <2> QED
    BY <2>2
<1>7. \A n \in 1 .. Len(outbox') : outbox'[n].by <= nsent'
  BY <1>4 DEF SocketInv
<1>8. \A x \in Commands : x > nsent' => spans'[x] = NotRun
  <2> SUFFICES ASSUME NEW x \in Commands, x > nsent
               PROVE  spans'[x] = NotRun
    OBVIOUS
  <2>1. x # c
    BY <1>1, <1>2
  <2> QED
    BY <2>1 DEF SocketInv
<1>9. \A x \in thrown' : x <= nsent'
  BY DEF SocketInv
<1> QED
  BY <1>5, <1>6, <1>7, <1>8, <1>9 DEF SocketInv

LEMMA SameSocketSpeaks ==
  ASSUME SessionTypes, OutboxType, SocketInv, Kept, NEW c \in Commands,
         UNCHANGED <<socket, nsent>>, c <= nsent,
         \A k \in 1 .. Len(socket) : c < socket[k].id,
         \A n \in Added : outbox'[n].by = c,
         thrown' \subseteq thrown \cup {c},
         \A x \in Commands \ {c} : spans'[x] = spans[x]
  PROVE  SocketInv'
<1>1. Len(socket) \in Nat
  BY SocketTypes
<1>2. \A k \in 1 .. Len(socket') : k + 0 \in 1 .. Len(socket) /\ socket'[k] = socket[k + 0]
  BY <1>1
<1> QED
  BY <1>1, <1>2, SocketInvSpeaks

\* Nothing new is said, thrown or evaluated.
LEMMA SameSpeech ==
  ASSUME UNCHANGED <<socket, nsent, outbox, thrown, spans>>
  PROVE  /\ InOrder => InOrder'
         /\ AckedNotThrown => AckedNotThrown'
         /\ SocketInv => SocketInv'
         /\ \A c, said : Current(c, said) => Current(c, said)'
  BY DEF InOrder, AckedNotThrown, SocketInv, SaidOnly, Current

LEMMA SameEvents ==
  ASSUME UNCHANGED <<socket, nsent, outbox, thrown, spans, lastVars, env>>
  PROVE  \A e : AckInv(e) /\ DeltaInv(e) => AckInv(e)' /\ DeltaInv(e)'
<1>1. \A c, said : Current(c, said) => Current(c, said)'
  BY SameSpeech
<1> QED
  BY <1>1 DEF AckInv, DeltaInv

LEMMA SpeechClientSend ==
  ASSUME SessionTypes, OutboxType, LoopInv, SpeechInv, NEW op \in ClientOps, ClientSend(op)
  PROVE  SpeechInv'
<1>1. /\ nsent' = nsent + 1 /\ nsent + 1 \in Commands
      /\ socket' = Append(socket, [op |-> op, id |-> nsent + 1])
      /\ UNCHANGED <<outbox, thrown, spans, timers, active, cur, lastVars, env,
                     currentQueryId, pc>>
  <2>1. nsent + 1 \in Commands
    BY BoundsAssumption DEF ClientSend, SessionTypes, Commands
  <2> QED
    BY <2>1 DEF ClientSend, images, history, loop, rvars
<1>2. /\ Len(socket) \in Nat /\ nsent \in Nat
      /\ \A k \in 1 .. Len(socket) : socket[k].id \in Commands /\ socket[k].id \in Nat
  BY SocketTypes
<1>3. socket \in Seq(Requests) /\ \A n \in 1 .. Len(outbox) : outbox[n].by \in Nat
  BY MessageTypes DEF SessionTypes
<1>4. /\ Len(socket') = Len(socket) + 1
      /\ \A k \in 1 .. Len(socket) : socket'[k] = socket[k]
      /\ socket'[Len(socket) + 1] = [op |-> op, id |-> nsent + 1]
  BY <1>1, <1>3
<1>5. ASSUME NEW k \in 1 .. Len(socket')
      PROVE  (k \in 1 .. Len(socket) /\ socket'[k] = socket[k])
               \/ (k = Len(socket) + 1 /\ socket'[k].id = nsent + 1)
  BY <1>2, <1>4
<1>6. ASSUME NEW c, NEW said, Current(c, said), c \in Nat
      PROVE  Current(c, said)'
  BY <1>1, <1>2, <1>5, <1>6 DEF Current, SaidOnly
<1>7. SocketInv'
  <2>1. ASSUME NEW k \in 1 .. Len(socket')
        PROVE  /\ socket'[k].id <= nsent'
               /\ SaidOnly(socket[k].id, {})'
               /\ socket'[k].id \notin thrown'
               /\ spans'[socket'[k].id] = NotRun
    <3>1. CASE k \in 1 .. Len(socket) /\ socket'[k] = socket[k]
      BY <1>1, <1>2, <3>1 DEF SpeechInv, SocketInv, SaidOnly
    <3>2. CASE k = Len(socket) + 1 /\ socket'[k].id = nsent + 1
      <4>1. SaidOnly(socket[k].id, {})'
        BY <1>1, <1>2, <1>3, <3>2 DEF SpeechInv, SocketInv, SaidOnly
      <4>2. nsent + 1 > nsent /\ ~(nsent + 1 <= nsent)
        BY <1>2
      <4>3. nsent + 1 \notin thrown /\ spans[nsent + 1] = NotRun
        BY <1>1, <4>2 DEF SpeechInv, SocketInv
      <4> QED
        BY <1>1, <1>2, <3>2, <4>1, <4>3
    <3> QED
      BY <1>5, <3>1, <3>2
  <2>2. ASSUME NEW k \in 1 .. Len(socket'), NEW l \in 1 .. Len(socket'), k < l
        PROVE  socket'[k].id < socket'[l].id
    <3>1. k \in 1 .. Len(socket) /\ socket'[k] = socket[k]
      BY <1>2, <1>4, <2>2
    <3>2. socket[k].id <= nsent /\ socket[k].id \in Nat
      BY <1>2, <3>1 DEF SpeechInv, SocketInv
    <3>3. CASE l \in 1 .. Len(socket) /\ socket'[l] = socket[l]
      BY <2>2, <3>1, <3>3 DEF SpeechInv, SocketInv
    <3>4. CASE socket'[l].id = nsent + 1
      BY <1>2, <3>1, <3>2, <3>4
    <3> QED
      BY <1>5, <3>3, <3>4
  <2>3. \A n \in 1 .. Len(outbox') : outbox'[n].by <= nsent'
    BY <1>1, <1>2, <1>3 DEF SpeechInv, SocketInv
  <2>4. \A c \in Commands : c > nsent' => spans'[c] = NotRun
    BY <1>1, <1>2 DEF SpeechInv, SocketInv, Commands
  <2>5. \A c \in thrown' : c <= nsent'
    BY <1>1, <1>2 DEF SpeechInv, SocketInv, SessionTypes, Commands
  <2> QED
    BY <2>1, <2>2, <2>3, <2>4, <2>5 DEF SocketInv
<1>8. EvalInv'
  <2>1. pc = "script" => cur.id \in Nat
    BY DEF SessionTypes, Evaluations, Commands
  <2> QED
    BY <1>1, <1>6, <2>1 DEF SpeechInv, EvalInv
<1>9. QueueInv'
  <2>1. ASSUME NEW q \in Seq(Scheduled), NEW n \in 1 .. Len(q),
               AckInv(q[n]), DeltaInv(q[n])
        PROVE  AckInv(q[n])' /\ DeltaInv(q[n])'
    <3>1. q[n].kind # "inotify" => q[n].id \in Nat
      <4>1. q[n] \in Scheduled
        BY ElementOfSeq
      <4>2. q[n].kind # "inotify" => q[n].id \in Commands
        BY <4>1 DEF Scheduled
      <4> QED
        BY <4>2 DEF Commands
    <3> QED
      BY <1>1, <1>6, <2>1, <3>1 DEF AckInv, DeltaInv
  <2> QED
    BY <1>1, <2>1 DEF SpeechInv, QueueInv, EventsInv, SessionTypes
<1>10. InOrder' /\ AckedNotThrown'
  BY <1>1 DEF SpeechInv, InOrder, AckedNotThrown
<1> QED
  BY <1>7, <1>8, <1>9, <1>10 DEF SpeechInv

LEMMA SpeechQuick ==
  ASSUME SessionTypes, OutboxType, LoopInv, SpeechInv,
         NEW j \in 1 .. Len(socket), NEW c \in AnyRequest, Reads(j, c), Quick(c)
  PROVE  SpeechInv'
<1> DEFINE said == {"openresponse", "openfailed", "showoutput", "variableupdate",
                    "delta", "variablevalue", "help", "error"}
<1>1. Kept /\ \A n \in Added : outbox'[n] \in Answers(c)
  BY QuickSends
<1>2. \A n \in Added : outbox'[n].by = c.id /\ outbox'[n].msg \in said
  BY <1>1 DEF Answers, Messages
<1>3. /\ timers = <<>> /\ active = <<>> /\ timers' = <<>> /\ active' = <<>>
      /\ pc' # "script" /\ UNCHANGED <<nsent, spans>>
      /\ thrown' \subseteq thrown \cup {c.id} /\ c.id = socket[j].id
      /\ socket' = SubSeq(socket, j + 1, Len(socket))
  BY DEF Reads, LoopQuiet, Quick, loop, images, IW!ResetOnly
<1>4. /\ c.id \in Commands /\ c.id \in Nat /\ socket \in Seq(Requests)
  BY DEF AnyRequest, Commands, SessionTypes
<1>5. c.id <= nsent /\ SaidOnly(c.id, {})
  BY <1>3 DEF SpeechInv, SocketInv
<1>6. /\ socket' \in Seq(Requests)
      /\ \A k \in 1 .. Len(socket') :
           k + j \in 1 .. Len(socket) /\ socket'[k] = socket[k + j]
  BY <1>3, <1>4, SubSeqType
<1>7. ASSUME NEW k \in 1 .. Len(socket')
      PROVE  c.id < socket'[k].id
  <2>1. j < k + j
    OBVIOUS
  <2> QED
    BY <1>3, <1>6, <2>1 DEF SpeechInv, SocketInv
<1>8. SocketInv'
  <2>1. Len(socket') \in Nat /\ j \in Nat
    BY <1>6, LenProperties
  <2>2. SocketInv
    BY DEF SpeechInv
  <2> QED
    BY <1>1, <1>2, <1>3, <1>4, <1>5, <1>6, <1>7, <2>1, <2>2, SocketInvSpeaks
<1>9. InOrder'
  <2>1. SaidOnly(c.id, said) /\ "execComplete" \notin said
    BY <1>5 DEF SaidOnly
  <2>2. \A n \in Added : outbox'[n].msg # "results"
    BY <1>2
  <2>3. InOrder /\ AckedNotThrown
    BY DEF SpeechInv
  <2> HIDE DEF said
  <2> QED
    BY <1>1, <1>2, <1>4, <2>1, <2>2, <2>3, SpeakFor
<1>10. AckedNotThrown'
  <2> SUFFICES ASSUME NEW n \in 1 .. Len(outbox'), outbox'[n].msg = "execComplete"
               PROVE  outbox'[n].by \notin thrown'
    BY DEF AckedNotThrown
  <2>1. n \in 1 .. Len(outbox) /\ outbox'[n] = outbox[n]
    BY <1>1, <1>2 DEF Kept, Added
  <2>2. outbox[n].by \notin thrown /\ outbox[n].by # c.id
    BY <1>5, <2>1 DEF SpeechInv, AckedNotThrown, SaidOnly
  <2> QED
    BY <1>3, <2>1, <2>2
<1>11. EvalInv' /\ QueueInv'
  BY <1>3 DEF EvalInv, QueueInv, EventsInv
<1> QED
  BY <1>8, <1>9, <1>10, <1>11 DEF SpeechInv

LEMMA SpeechStartEval ==
  ASSUME SessionTypes, EnvTypes, OutboxType, LoopInv, SpeechInv,
         NEW j \in 1 .. Len(socket), NEW c \in AnyRequest, Reads(j, c), StartEval(c)
  PROVE  SpeechInv'
<1>1. /\ timers = <<>> /\ active = <<>> /\ timers' = <<>> /\ active' = <<>>
      /\ UNCHANGED <<nsent, outbox, thrown>>
      /\ spans' = [spans EXCEPT ![c.id] = <<env, env>>]
      /\ c.id = socket[j].id /\ cur'.id = c.id /\ currentQueryId' = c.id
      /\ socket' = SubSeq(socket, j + 1, Len(socket))
  BY DEF Reads, LoopQuiet, StartEval, SetsQueryId, loop
<1>2. c.id \in Commands /\ c.id \in Nat /\ socket \in Seq(Requests)
  BY DEF AnyRequest, Commands, SessionTypes
<1>3. c.id <= nsent /\ SaidOnly(c.id, {}) /\ c.id \notin thrown
  BY <1>1 DEF SpeechInv, SocketInv
<1>4. /\ socket' \in Seq(Requests)
      /\ \A k \in 1 .. Len(socket') :
           k + j \in 1 .. Len(socket) /\ socket'[k] = socket[k + j]
  BY <1>1, <1>2, SubSeqType
<1>5. ASSUME NEW k \in 1 .. Len(socket')
      PROVE  c.id < socket'[k].id
  <2>1. j < k + j
    OBVIOUS
  <2> QED
    BY <1>1, <1>4, <2>1 DEF SpeechInv, SocketInv
<1>6. Kept /\ Added = {}
  BY <1>1, NothingSent
<1>7. SocketInv'
  <2>1. Len(socket') \in Nat /\ j \in Nat
    BY <1>4, LenProperties
  <2>2. SocketInv
    BY DEF SpeechInv
  <2>3. \A x \in Commands \ {c.id} : spans'[x] = spans[x]
    BY <1>1 DEF EnvTypes
  <2> QED
    BY <1>1, <1>2, <1>3, <1>4, <1>5, <1>6, <2>1, <2>2, <2>3, SocketInvSpeaks
<1>8. EvalInv'
  BY <1>1, <1>3, <1>5 DEF EvalInv, Current, SaidOnly
<1>9. InOrder' /\ AckedNotThrown'
  BY <1>1 DEF SpeechInv, InOrder, AckedNotThrown
<1>10. QueueInv'
  BY <1>1 DEF QueueInv, EventsInv
<1> QED
  BY <1>7, <1>8, <1>9, <1>10 DEF SpeechInv

\* R prints, warns, assigns and writes files: only a warning is sent.
LEMMA SpeechREffect ==
  ASSUME SessionTypes, EnvTypes, OutboxType, LoopInv, SpeechInv,
         RPrint \/ RWarn \/ RAssign \/ RChangeDir \/ RWriteFile
  PROVE  SpeechInv'
<1>1. /\ pc = "script" /\ cur \in Evaluations /\ cur.id \in Commands /\ cur.id \in Nat
      /\ UNCHANGED <<socket, nsent, cur, thrown, currentQueryId, timers, active>>
  BY DEF RPrint, RWarn, RAssign, RChangeDir, RWriteFile, REffect, Evaluating, SessionTypes,
         Evaluations, Commands, client, loop
<1>2. /\ Current(cur.id, {"results"}) /\ currentQueryId = cur.id
      /\ cur.id \notin thrown
  BY <1>1 DEF SpeechInv, EvalInv
<1>3. /\ Kept
      /\ \A n \in Added :
           outbox'[n].by = cur.id /\ outbox'[n].msg = "results"
             /\ outbox'[n].text \subseteq {cur.id} \cup thrown
  <2>1. CASE RWarn
    <3> DEFINE m == [Msg("results", cur.id, currentQueryId) EXCEPT !.text = {cur.id}]
    <3>1. m \in EvalMessages /\ EvalMessages \subseteq Messages
      BY <1>1, EvalMessageTypes
    <3>2. m.by = cur.id /\ m.msg = "results" /\ m.text = {cur.id}
      BY DEF Msg
    <3> HIDE DEF m
    <3>3. <<m>> \in Seq(Messages) /\ \A k \in 1 .. Len(<<m>>) : <<m>>[k] = m
      BY <3>1
    <3>4. Send(<<m>>)
      BY <2>1 DEF RWarn, m
    <3>5. Kept /\ \A n \in Added : \E k \in 1 .. Len(<<m>>) : outbox'[n] = <<m>>[k]
      BY <3>3, <3>4, SendAdds
    <3> QED
      BY <3>2, <3>3, <3>5
  <2>2. CASE RPrint \/ RAssign \/ RChangeDir \/ RWriteFile
    BY <2>2, SilentSteps, NothingSent
  <2> QED
    BY <2>1, <2>2
<1>4. \A x \in Commands \ {cur.id} : spans'[x] = spans[x]
  <2>1. spans \in [Commands -> Int \X Int]
    BY DEF EnvTypes
  <2> QED
    BY <2>1 DEF RPrint, RWarn, RAssign, RChangeDir, RWriteFile
<1>5. SocketInv'
  <2>1. SocketInv
    BY DEF SpeechInv
  <2> QED
    BY <1>1, <1>2, <1>3, <1>4, <2>1, SameSocketSpeaks DEF Current
<1>6. InOrder' /\ SaidOnly(cur.id, {"results"})'
  <2>1. InOrder /\ AckedNotThrown /\ SaidOnly(cur.id, {"results"})
    BY <1>2 DEF SpeechInv, Current
  <2> DEFINE c == cur.id
  <2>2. c \in Nat /\ SaidOnly(c, {"results"}) /\ c' = c
    BY <1>1, <2>1
  <2>3. \A n \in Added : outbox'[n].by = c /\ outbox'[n].msg \in {"results"}
                           /\ outbox'[n].text \subseteq {c} \cup thrown
    BY <1>3
  <2> HIDE DEF c
  <2>4. InOrder' /\ \A n \in 1 .. Len(outbox') :
          outbox'[n].by <= c /\ (outbox'[n].by = c => outbox'[n].msg \in {"results"})
    BY <1>3, <2>1, <2>2, <2>3, SpeakFor DEF SaidOnly
  <2> QED
    BY <1>1, <2>4 DEF SaidOnly, c
<1>7. AckedNotThrown'
  <2> SUFFICES ASSUME NEW n \in 1 .. Len(outbox'), outbox'[n].msg = "execComplete"
               PROVE  outbox'[n].by \notin thrown'
    BY DEF AckedNotThrown
  <2>1. n \in 1 .. Len(outbox) /\ outbox'[n] = outbox[n]
    BY <1>3 DEF Kept, Added
  <2> QED
    BY <1>1, <2>1 DEF SpeechInv, AckedNotThrown
<1>8. EvalInv'
  BY <1>1, <1>2, <1>6 DEF EvalInv, Current
<1>9. QueueInv'
  <2>1. timers' = <<>> /\ active' = <<>>
    BY <1>1 DEF LoopInv
  <2> QED
    BY <2>1 DEF QueueInv, EventsInv
<1> QED
  BY <1>5, <1>6, <1>7, <1>8, <1>9 DEF SpeechInv

LEMMA SpeechEvalEnds ==
  ASSUME SessionTypes, EnvTypes, OutboxType, LoopInv, SpeechInv, BufferInv, SpanInv,
         pc = "script",
         NEW acked \in BOOLEAN, NEW copied \in BOOLEAN, EvalEnds(acked, copied)
  PROVE  SpeechInv'
<1> DEFINE c == cur.id
           said == {"results", "error"}
<1>1. /\ c \in Commands /\ c \in Nat /\ pc' # "script"
      /\ UNCHANGED <<socket, nsent, env, lastVars, spans>>
      /\ active = <<>> /\ active' = <<>> /\ timers = <<>>
      /\ thrown' \subseteq thrown \cup {c} /\ (acked => thrown' = thrown)
  BY DEF EvalEnds, SessionTypes, Evaluations, Commands, client, LoopInv, IW!EndScript
<1>2. /\ Current(c, {"results"}) /\ currentQueryId = c /\ c \notin thrown
  BY DEF SpeechInv, EvalInv
<1>3. /\ Kept
      /\ \A n \in Added :
           /\ outbox'[n].by = c /\ outbox'[n].msg \in said
           /\ outbox'[n].msg = "results" => outbox'[n].text \subseteq {c} \cup thrown
  <2>1. consoleOutBuffer \subseteq {c} \cup thrown
    BY DEF BufferInv
  <2> QED
    BY <2>1 DEF EvalEnds, EvalMessages
<1>4. SaidOnly(c, said)
  BY <1>2 DEF Current, SaidOnly
<1> HIDE DEF c, said
<1>5. SocketInv'
  <2>1. SocketInv /\ c <= nsent /\ \A k \in 1 .. Len(socket) : c < socket[k].id
    BY <1>2 DEF SpeechInv, Current
  <2> QED
    BY <1>1, <1>3, <2>1, SameSocketSpeaks
<1>6. /\ InOrder'
      /\ \A n \in 1 .. Len(outbox') :
           outbox'[n].by <= c /\ (outbox'[n].by = c => outbox'[n].msg \in said)
  <2>1. InOrder /\ AckedNotThrown /\ "execComplete" \notin said
    BY DEF SpeechInv, said
  <2> QED
    BY <1>1, <1>3, <1>4, <2>1, SpeakFor DEF SaidOnly
<1>7. AckedNotThrown'
  <2> SUFFICES ASSUME NEW n \in 1 .. Len(outbox'), outbox'[n].msg = "execComplete"
               PROVE  outbox'[n].by \notin thrown'
    BY DEF AckedNotThrown
  <2>1. n \in 1 .. Len(outbox) /\ outbox'[n] = outbox[n]
    BY <1>3 DEF Kept, Added, said
  <2>2. outbox[n].by \notin thrown /\ outbox[n].by # c
    BY <1>2, <2>1 DEF SpeechInv, AckedNotThrown, Current, SaidOnly
  <2> QED
    BY <1>1, <2>1, <2>2
<1>8. EvalInv'
  BY <1>1 DEF EvalInv
\* The acknowledgement and the delta are about the command that has ended.
<1>9. QueueInv'
  <2>1. \A k \in 1 .. Len(socket') : c < socket'[k].id
    BY <1>1, <1>2 DEF Current
  <2>2. CASE ~acked
    <3>1. timers' = <<>>
      BY <1>1, <2>2 DEF EvalEnds
    <3> QED
      BY <1>1, <3>1 DEF QueueInv, EventsInv
  <2>3. CASE acked
    <3>1. PICK f \in BOOLEAN, d \in BOOLEAN : Scheduling(f, d) /\ (d => cur.delta)
      BY <2>3 DEF EvalEnds
    <3>2. /\ Len(timers') = IF d THEN 2 ELSE 1
          /\ timers'[1] = AckTimer(cur.id, f)
          /\ d => timers'[2] = DeltaTimer(cur.id)
      BY <1>1, <3>1, ScheduledTimers DEF c
    <3>3. /\ timers'[1].kind = "ack" /\ timers'[1].id = c
          /\ d => timers'[2].kind = "delta" /\ timers'[2].id = c
      BY <3>2 DEF AckTimer, DeltaTimer, c
    <3>4. c \notin thrown' /\ c <= nsent'
      BY <1>1, <1>2, <2>3 DEF Current
    <3>5. d => spans'[c] = <<lastVars', env'>>
      <4>1. spans[c] \in Int \X Int
        BY <1>1 DEF EnvTypes
      <4>2. d => spans[c][1] = lastVars /\ spans[c][2] = env
        BY <3>1 DEF SpanInv, c
      <4> QED
        BY <1>1, <4>1, <4>2
    <3>6. ASSUME NEW n \in 1 .. Len(timers')
          PROVE  AckInv(timers[n])' /\ DeltaInv(timers[n])'
      <4>1. n = 1 \/ (n = 2 /\ d)
        BY <3>2
      <4>2. timers'[n].id = c
        BY <3>3, <4>1
      <4>3. AckInv(timers[n])'
        BY <1>6, <2>1, <3>4, <4>2 DEF AckInv, Current, SaidOnly, said
      <4>4. DeltaInv(timers[n])'
        BY <1>6, <2>1, <3>3, <3>4, <3>5, <4>1, <4>2
        DEF DeltaInv, Current, SaidOnly, said
      <4> QED
        BY <4>3, <4>4
    <3> QED
      BY <1>1, <3>6 DEF QueueInv, EventsInv
  <2> QED
    BY <2>2, <2>3
<1> QED
  BY <1>5, <1>6, <1>7, <1>8, <1>9 DEF SpeechInv

\* Loop steps that say nothing: their events stay, or the head is removed.
LEMMA SpeechSilent ==
  ASSUME SessionTypes, SpeechInv,
         UNCHANGED <<socket, nsent, outbox, thrown, spans, lastVars, env>>,
         pc' # "script",
         \/ UNCHANGED <<active, timers>>
         \/ active # <<>> /\ active' = Tail(active) /\ UNCHANGED timers
  PROVE  SpeechInv'
<1>1. InOrder' /\ AckedNotThrown' /\ SocketInv' /\ EvalInv'
  BY SameSpeech DEF SpeechInv, EvalInv
<1>2. \A e : AckInv(e) /\ DeltaInv(e) => AckInv(e)' /\ DeltaInv(e)'
  BY SameEvents
<1>3. QueueInv'
  <2>1. CASE UNCHANGED <<active, timers>>
    BY <1>2, <2>1 DEF SpeechInv, QueueInv, EventsInv
  <2>2. CASE active # <<>> /\ active' = Tail(active) /\ UNCHANGED timers
    <3>1. \A n \in 1 .. Len(active') :
            n + 1 \in 1 .. Len(active) /\ active'[n] = active[n + 1]
      BY <2>2, QueueHead DEF SessionTypes
    <3> QED
      BY <1>2, <2>2, <3>1 DEF SpeechInv, QueueInv, EventsInv
  <2> QED
    BY <2>1, <2>2
<1> QED
  BY <1>1, <1>3 DEF SpeechInv

LEMMA SpeechPoll ==
  ASSUME SessionTypes, LoopInv, SpeechInv, Poll
  PROVE  SpeechInv'
<1>1. /\ UNCHANGED <<socket, nsent, outbox, thrown, spans, lastVars, env>>
      /\ pc' = "idle" /\ timers' = <<>>
  BY DEF Poll, client, rvars, history, images
<1>2. InOrder' /\ AckedNotThrown' /\ SocketInv' /\ EvalInv'
  BY <1>1, SameSpeech DEF SpeechInv, EvalInv
<1>3. \A e : AckInv(e) /\ DeltaInv(e) => AckInv(e)' /\ DeltaInv(e)'
  BY <1>1, SameEvents
<1>4. \A n \in 1 .. Len(active') :
        active'[n].kind # "inotify" =>
          \E k \in 1 .. Len(timers) : timers[k] = active'[n]
  BY PollOrder DEF LoopInv, SessionTypes
<1>5. ASSUME NEW n \in 1 .. Len(active')
      PROVE  AckInv(active[n])' /\ DeltaInv(active[n])'
  <2>1. CASE active'[n].kind = "inotify"
    BY <2>1 DEF AckInv, DeltaInv
  <2>2. CASE active'[n].kind # "inotify"
    <3>1. PICK k \in 1 .. Len(timers) : timers[k] = active'[n]
      BY <1>4, <2>2
    <3> DEFINE e == timers[k]
    <3>2. AckInv(e) /\ DeltaInv(e)
      BY DEF SpeechInv, QueueInv, EventsInv
    <3>3. \A x : x = timers[k] => AckInv(x)' /\ DeltaInv(x)'
      BY <1>3, <3>2
    <3> QED
      BY <3>1, <3>3
  <2> QED
    BY <2>1, <2>2
<1>6. QueueInv'
  BY <1>1, <1>5 DEF QueueInv, EventsInv
<1> QED
  BY <1>2, <1>6 DEF SpeechInv

LEMMA SpeechAck ==
  ASSUME SessionTypes, OutboxType, LoopInv, SpeechInv, FinishAck
  PROVE  SpeechInv'
<1> DEFINE a == Head(active)
           L == Len(outbox)
           after == {"results", "error", "execComplete", "showoutput"}
<1>1. /\ active # <<>> /\ a.kind = "ack" /\ pc' = "idle"
      /\ active' = Tail(active) /\ UNCHANGED timers
      /\ UNCHANGED <<socket, nsent, thrown, spans, lastVars, env>>
  BY DEF FinishAck, ActiveIs, Deactivate, client, rvars, history, IW!EndAck
<1>2. /\ a.id \in Commands /\ Kept /\ Len(outbox') = L + (IF a.file THEN 2 ELSE 1)
      /\ outbox'[L + 1] = Msg("execComplete", a.id, a.id)
      /\ a.file => outbox'[L + 2] = Msg("showoutput", a.id, 0)
  BY AckSends
<1>3. /\ Len(active) \in Nat \ {0} /\ a = active[1] /\ 1 \in 1 .. Len(active)
      /\ Len(active') = Len(active) - 1
      /\ \A n \in 1 .. Len(active') :
           n + 1 \in 1 .. Len(active) /\ active'[n] = active[n + 1]
  BY <1>1, QueueHead DEF SessionTypes
<1>4. Current(a.id, {"results", "error"}) /\ a.id \notin thrown
  BY <1>1, <1>3 DEF SpeechInv, QueueInv, EventsInv, AckInv
<1>5. timers = <<>>
  BY <1>1 DEF LoopInv
<1> DEFINE c == a.id
<1>6. c \in Nat /\ L \in Nat /\ \A n \in 1 .. L : outbox[n].by \in Nat
  BY <1>2, LenProperties, MessageTypes DEF OutboxType, Commands
<1>7. ASSUME NEW n \in 1 .. Len(outbox')
      PROVE  \/ n \in 1 .. L /\ outbox'[n] = outbox[n]
             \/ n = L + 1 /\ outbox'[n].by = c /\ outbox'[n].msg = "execComplete"
             \/ n = L + 2 /\ outbox'[n].by = c /\ outbox'[n].msg = "showoutput"
  <2>1. n \in 1 .. L \/ n = L + 1 \/ (n = L + 2 /\ a.file)
    BY <1>2, <1>6
  <2> QED
    BY <1>2, <2>1 DEF Kept, Msg
<1>8. /\ c <= nsent /\ \A k \in 1 .. Len(socket) : c < socket[k].id
      /\ \A n \in 1 .. L :
           outbox[n].by <= c /\ (outbox[n].by = c => outbox[n].msg \in {"results", "error"})
  BY <1>4 DEF Current, SaidOnly
<1> HIDE DEF L, c
<1>9. SocketInv'
  <2>1. SocketInv /\ \A n \in Added : outbox'[n].by = c
    BY <1>6, <1>7 DEF SpeechInv, Added, L, Kept
  <2>2. c \in Commands
    BY <1>2 DEF c
  <2> QED
    BY <1>1, <1>2, <1>8, <2>1, <2>2, SameSocketSpeaks
<1>10. InOrder'
  <2> SUFFICES ASSUME NEW m \in 1 .. Len(outbox'), NEW n \in 1 .. Len(outbox'), m < n
               PROVE  MayFollow(outbox'[m], outbox'[n])
    BY DEF InOrder
  <2>1. CASE n \in 1 .. L /\ outbox'[n] = outbox[n]
    <3>1. m \in 1 .. L /\ outbox'[m] = outbox[m]
      BY <1>6, <1>7, <2>1
    <3> QED
      BY <2>1, <3>1 DEF SpeechInv, InOrder, L
  <2>2. CASE m \in 1 .. L /\ outbox'[n].by = c /\ outbox'[n].msg \in {"execComplete", "showoutput"}
    <3>1. outbox'[m] = outbox[m]
      BY <1>6, <1>7, <2>2
    <3> QED
      BY <1>8, <2>2, <3>1 DEF MayFollow
  <2>3. CASE m = L + 1 /\ n = L + 2 /\ outbox'[m].by = c /\ outbox'[n].by = c
             /\ outbox'[n].msg = "showoutput"
    BY <1>6, <2>3 DEF MayFollow
  <2> QED
    BY <1>6, <1>7, <2>1, <2>2, <2>3
<1>11. AckedNotThrown'
  BY <1>1, <1>4, <1>7 DEF SpeechInv, AckedNotThrown, c, L
<1>12. EvalInv'
  BY <1>1 DEF EvalInv
\* Only the delta of the same command is left.
<1>13. ASSUME NEW n \in 1 .. Len(active')
       PROVE  AckInv(active[n])' /\ DeltaInv(active[n])'
  <2>1. InLoopOrder(active) /\ active[1].kind = "ack"
    BY <1>1, <1>3 DEF LoopInv
  <2>2. n + 1 \in 1 .. Len(active) /\ active'[n] = active[n + 1] /\ n \in Nat /\ n + 1 # 1
    BY <1>3
  <2>3. active'[n].kind # "ack"
    BY <2>1, <2>2 DEF InLoopOrder
  <2>4. ASSUME active'[n].kind = "delta"
        PROVE  active'[n].id = c
    <3>1. active[n].kind = "ack" /\ active[n].id = active[n + 1].id
      <4>1. n + 1 - 1 = n
        BY <2>2
      <4> QED
        BY <2>1, <2>2, <2>4, <4>1 DEF InLoopOrder
    <3>2. n = 1
      <4>1. n \in 1 .. Len(active)
        BY <1>3, <2>2
      <4> QED
        BY <2>1, <3>1, <4>1 DEF InLoopOrder
    <3> QED
      BY <1>3, <2>2, <3>1, <3>2 DEF c
  <2>5. ASSUME active'[n].kind = "delta"
        PROVE  DeltaInv(active[n])'
    <3>1. spans[c] = <<lastVars, env>>
      BY <2>2, <2>4, <2>5 DEF SpeechInv, QueueInv, EventsInv, DeltaInv
    <3>2. ASSUME NEW m \in 1 .. Len(outbox')
          PROVE  /\ outbox'[m].by <= c
                 /\ outbox'[m].by = c => outbox'[m].msg \in after
      BY <1>6, <1>7, <1>8
    <3> QED
      BY <1>1, <1>8, <2>4, <2>5, <3>1, <3>2 DEF DeltaInv, Current, SaidOnly
  <2> QED
    BY <2>3, <2>5 DEF AckInv, DeltaInv
<1>14. QueueInv'
  BY <1>1, <1>5, <1>13 DEF QueueInv, EventsInv
<1> QED
  BY <1>9, <1>10, <1>11, <1>12, <1>14 DEF SpeechInv

LEMMA DeltaIsLast ==
  ASSUME SessionTypes, LoopInv, ActiveIs("delta")
  PROVE  /\ 1 \in 1 .. Len(active) /\ Head(active) = active[1]
         /\ Len(Tail(active)) = 0 /\ timers = <<>>
<1>1. /\ Len(active) \in Nat \ {0} /\ 1 \in 1 .. Len(active)
      /\ Head(active) = active[1] /\ Len(Tail(active)) = Len(active) - 1
  BY QueueHead DEF SessionTypes, ActiveIs
<1>2. active[1].kind = "delta" /\ InLoopOrder(active)
  BY <1>1 DEF ActiveIs, LoopInv
<1>3. Len(active) = 1
  BY <1>1, <1>2 DEF InLoopOrder
<1> QED
  BY <1>1, <1>3 DEF LoopInv, ActiveIs

LEMMA SpeechDelta ==
  ASSUME SessionTypes, EnvTypes, OutboxType, LoopInv, SpeechInv, RunDelta
  PROVE  SpeechInv'
<1> DEFINE c == Head(active).id
           L == Len(outbox)
<1>1. /\ ActiveIs("delta") /\ pc' # "script"
      /\ active' = Tail(active) /\ UNCHANGED timers
      /\ UNCHANGED <<socket, nsent, thrown, spans, lastVars, env>>
  BY DEF RunDelta, Deactivate, client, rvars, history, IW!AbortElsewhere, images
<1>2. /\ 1 \in 1 .. Len(active) /\ Head(active) = active[1]
      /\ Len(active') = 0 /\ timers' = <<>>
  BY <1>1, DeltaIsLast
<1>3. Current(c, {"results", "error", "execComplete", "showoutput"})
  BY <1>1, <1>2 DEF SpeechInv, QueueInv, EventsInv, DeltaInv, ActiveIs
<1>4. /\ c \in Commands /\ c \in Nat /\ Kept
      /\ \A n \in Added : outbox'[n].by = c /\ outbox'[n].msg = "delta"
  <2>1. VariableDelta(c).by = c /\ VariableDelta(c).msg = "delta"
    BY DEF VariableDelta, Msg
  <2> QED
    BY <2>1, DeltaSends DEF Commands
<1>5. /\ c <= nsent /\ \A k \in 1 .. Len(socket) : c < socket[k].id
      /\ \A n \in 1 .. L : outbox[n].by <= c
  BY <1>3 DEF Current, SaidOnly
<1> HIDE DEF c
<1>6. SocketInv'
  BY <1>1, <1>4, <1>5, SameSocketSpeaks DEF SpeechInv
<1>7. InOrder'
  <2> SUFFICES ASSUME NEW m \in 1 .. Len(outbox'), NEW n \in 1 .. Len(outbox'), m < n
               PROVE  MayFollow(outbox'[m], outbox'[n])
    BY DEF InOrder
  <2>1. (n \in 1 .. L /\ outbox'[n] = outbox[n]) \/ n \in Added
    BY <1>4 DEF Kept, Added
  <2>2. (m \in 1 .. L /\ outbox'[m] = outbox[m]) \/ m \in Added
    BY <1>4 DEF Kept, Added
  <2>3. CASE n \in 1 .. L /\ outbox'[n] = outbox[n]
    <3>1. m \in 1 .. L
      BY <1>4, <2>3 DEF Kept
    <3>2. outbox'[m] = outbox[m]
      BY <1>4, <3>1 DEF Kept
    <3> QED
      BY <2>3, <3>1, <3>2 DEF SpeechInv, InOrder
  <2>4. CASE n \in Added /\ m \in 1 .. L /\ outbox'[m] = outbox[m]
    <3>1. outbox'[m].by <= c
      BY <1>5, <2>4
    <3>2. outbox'[n].by = c /\ outbox'[n].msg = "delta"
      BY <1>4, <2>4
    <3> QED
      BY <3>1, <3>2 DEF MayFollow
  <2>5. CASE n \in Added /\ m \in Added
    BY <1>4, <2>5 DEF MayFollow
  <2> QED
    BY <2>1, <2>2, <2>3, <2>4, <2>5
<1>8. AckedNotThrown'
  <2> SUFFICES ASSUME NEW n \in 1 .. Len(outbox'), outbox'[n].msg = "execComplete"
               PROVE  outbox'[n].by \notin thrown'
    BY DEF AckedNotThrown
  <2>1. n \in 1 .. Len(outbox) /\ outbox'[n] = outbox[n]
    BY <1>4 DEF Kept, Added
  <2> QED
    BY <1>1, <2>1 DEF SpeechInv, AckedNotThrown
<1>9. EvalInv' /\ QueueInv'
  <2>1. Len(timers') = 0
    BY <1>2
  <2> QED
    BY <1>1, <1>2, <2>1 DEF EvalInv, QueueInv, EventsInv
<1> QED
  BY <1>6, <1>7, <1>8, <1>9 DEF SpeechInv

LEMMA SpeechInvStep ==
  ASSUME SessionTypes, EnvTypes, OutboxType, LoopInv, SpeechInv, BufferInv, SpanInv,
         [Next]_vars
  PROVE  SpeechInv'
<1> USE DEF client, loop, rvars, history
<1>i. UNCHANGED images => UNCHANGED pc
  BY DEF images
<1>0. CASE UNCHANGED vars
  BY <1>0, <1>i, SameSpeech, SameEvents
  DEF vars, rest, SpeechInv, EvalInv, QueueInv, EventsInv
<1>1. CASE \E op \in ClientOps : ClientSend(op)
  BY <1>1, SpeechClientSend
<1>2. ASSUME NEW j \in 1 .. Len(socket), NEW c \in AnyRequest, Reads(j, c),
             Quick(c) \/ StartEval(c)
      PROVE  SpeechInv'
  BY <1>2, SpeechQuick, SpeechStartEval
<1>3. CASE RPrint \/ RWarn \/ RAssign \/ RChangeDir \/ RWriteFile
  BY <1>3, SpeechREffect
<1>4. ASSUME NEW acked \in BOOLEAN, NEW copied \in BOOLEAN, EvalEnds(acked, copied),
             pc = "script"
      PROVE  SpeechInv'
  BY <1>4, SpeechEvalEnds
<1>5. CASE RunInotify
  BY <1>5, SpeechSilent DEF RunInotify, ActiveIs, Deactivate, IW!DropInotify, IW!ReadInotify
<1>6. CASE InotifyStep
  <2>1. pc = "inotify" /\ active # <<>>
    BY <1>6 DEF InotifyStep, LoopInv, ActiveIs
  <2>2. pc' # "script"
    BY <1>6, <2>1 DEF InotifyStep, IW!StartImageWatch, IW!InsertClosedImage,
       IW!InsertClosedImageFails, IW!CloseOfUnknown, IW!SkipEvent, IW!NextEvent,
       IW!LoneHeader, IW!ParseCutName, IW!EndInotify
  <2> QED
    BY <1>6, <2>1, <2>2, SpeechSilent DEF InotifyStep, Deactivate
<1>7. CASE RunAck \/ CleanupStep
  BY <1>7, SpeechSilent DEF RunAck, CleanupStep, rest, IW!StartAck, IW!CleanupOne,
                            IW!CleanupThrows
<1>8. CASE IgnoreTimer \/ DBNotify
  BY <1>8, SpeechSilent DEF IgnoreTimer, DBNotify, LoopQuiet, rest, IW!IgnoreOff,
                            IW!HandlesNotifications
<1> QED
  BY <1>0, <1>1, <1>2, <1>3, <1>4, <1>5, <1>6, <1>7, <1>8, SpeechPoll, SpeechAck,
     SpeechDelta, StepCases DEF LoopStep

-----------------------------------------------------------------------------
(* What the handlers leave for those after them. *)

LEMMA TaggedStays ==
  ASSUME OutputTagged, Kept, thrown \subseteq thrown',
         \A n \in Added : outbox'[n].msg = "results" =>
           outbox'[n].text \subseteq {outbox'[n].q} \cup thrown'
  PROVE  OutputTagged'
<1> SUFFICES ASSUME NEW n \in 1 .. Len(outbox'), outbox'[n].msg = "results",
                    NEW c \in outbox'[n].text
             PROVE  c = outbox'[n].q \/ c \in thrown'
  BY DEF OutputTagged
<1>1. CASE n \in Added
  BY <1>1
<1>2. CASE n \in 1 .. Len(outbox) /\ outbox'[n] = outbox[n]
  BY <1>2 DEF OutputTagged
<1> QED
  BY <1>1, <1>2 DEF Kept, Added

LEMMA DeltasStay ==
  ASSUME OutboxType, DeltaSpansEvaluation, Kept,
         \A c \in Commands : spans'[c] = spans[c] \/ SaidOnly(c, {"results"}),
         \A n \in Added :
           (outbox'[n].msg = "delta" /\ spans'[outbox'[n].by] # NotRun) =>
             <<outbox'[n].from, outbox'[n].to>> = spans'[outbox'[n].by]
  PROVE  DeltaSpansEvaluation'
<1> SUFFICES ASSUME NEW n \in 1 .. Len(outbox'), outbox'[n].msg = "delta",
                    spans'[outbox'[n].by] # NotRun
             PROVE  <<outbox'[n].from, outbox'[n].to>> = spans'[outbox'[n].by]
  BY DEF DeltaSpansEvaluation, NotRun
<1>1. CASE n \in Added
  BY <1>1
<1>2. CASE n \in 1 .. Len(outbox) /\ outbox'[n] = outbox[n]
  <2>1. outbox[n].by \in Commands
    BY <1>2, MessageTypes DEF Messages
  <2>2. ~SaidOnly(outbox[n].by, {"results"})
    BY <1>2 DEF SaidOnly
  <2>3. spans'[outbox[n].by] = spans[outbox[n].by]
    BY <2>1, <2>2
  <2> QED
    BY <1>2, <2>3 DEF DeltaSpansEvaluation
<1> QED
  BY <1>1, <1>2 DEF Kept, Added

\* Outside an evaluation.
LEMMA StateOutside ==
  ASSUME OutboxType, StateInv, Kept, pc # "script", pc' # "script",
         thrown \subseteq thrown',
         UNCHANGED <<spans, captureStdOut, consoleOutBuffer>>,
         thrown' = {} => ignoreOutput' \in {ignoreOutput, FALSE},
         CloseSaves',
         \A n \in Added :
           /\ outbox'[n].msg # "results"
           /\ (outbox'[n].msg = "delta" /\ spans[outbox'[n].by] # NotRun) =>
                <<outbox'[n].from, outbox'[n].to>> = spans[outbox'[n].by]
  PROVE  StateInv'
<1>0. consoleOutBuffer \subseteq thrown
  BY DEF StateInv, BufferInv
<1>1. BufferInv' /\ SpanInv'
  BY <1>0 DEF BufferInv, SpanInv
<1>4. ConsoleInv'
  <2>1. thrown = {} => ~ignoreOutput /\ ~captureStdOut
    BY DEF StateInv, ConsoleInv
  <2>2. thrown' = {} => thrown = {}
    OBVIOUS
  <2> QED
    BY <2>1, <2>2 DEF ConsoleInv
<1>2. OutputTagged'
  BY TaggedStays DEF StateInv
<1>3. DeltaSpansEvaluation'
  BY DeltasStay DEF StateInv
<1> QED
  BY <1>1, <1>2, <1>3, <1>4 DEF StateInv

\* A step that leaves the session's state alone.
LEMMA StateSilent ==
  ASSUME OutboxType, StateInv, pc # "script", pc' # "script",
         UNCHANGED <<session, console, outbox, thrown, spans, env, cwd, rdata, savedEnv>>
  PROVE  StateInv'
<1>1. Kept /\ Added = {}
  BY NothingSent
<1>2. CloseSaves'
  BY DEF StateInv, CloseSaves, session
<1> QED
  BY <1>1, <1>2, StateOutside DEF console

LEMMA StateQuick ==
  ASSUME OutboxType, SpeechInv, StateInv, NEW j \in 1 .. Len(socket),
         NEW c \in AnyRequest, Reads(j, c), Quick(c)
  PROVE  StateInv'
<1>1. pc = "idle" /\ pc' = "idle" /\ running
  BY DEF Reads, LoopQuiet, Quick, images, IW!ResetOnly
<1>2. CloseSaves'
  BY <1>1 DEF StateInv, CloseSaves, Quick
<1>3. Kept /\ \A n \in Added : outbox'[n] \in Answers(c)
  BY QuickSends
<1>4. spans[c.id] = NotRun
  BY DEF SpeechInv, SocketInv, Reads
<1>5. \A n \in Added : outbox'[n].msg # "results" /\ outbox'[n].by = c.id
  BY <1>3 DEF Answers
<1>6. /\ thrown \subseteq thrown'
      /\ UNCHANGED <<spans, captureStdOut, consoleOutBuffer>>
      /\ thrown' = {} => ignoreOutput' \in {ignoreOutput, FALSE}
  BY DEF Quick
<1> QED
  BY <1>1, <1>2, <1>3, <1>4, <1>5, <1>6, StateOutside

LEMMA StateStartEval ==
  ASSUME SessionTypes, EnvTypes, OutboxType, SpeechInv, StateInv,
         NEW j \in 1 .. Len(socket), NEW c \in AnyRequest, Reads(j, c), StartEval(c)
  PROVE  StateInv'
<1>1. pc = "idle" /\ pc' = "script" /\ running
  BY DEF Reads, LoopQuiet, StartEval, IW!StartScript
<1>2. /\ cur'.op = c.op /\ cur'.id = c.id
      /\ lastVars' = IF cur'.delta THEN env ELSE lastVars
      /\ spans' = [spans EXCEPT ![c.id] = <<env, env>>]
      /\ UNCHANGED <<session, consoleOutBuffer, env, savedEnv, outbox, thrown>>
      /\ c.op # "execRmd" => captureStdOut' = captureStdOut /\ ignoreOutput' = ignoreOutput
  BY DEF StartEval, CaptureEnvironment, SessionTypes
<1>3. c.id \in Commands
  BY DEF AnyRequest
<1>4. /\ spans'[c.id] = <<env, env>>
      /\ \A x \in Commands \ {c.id} : spans'[x] = spans[x]
  BY <1>2, <1>3 DEF EnvTypes
<1>5. BufferInv' /\ ConsoleInv'
  BY <1>1, <1>2 DEF StateInv, BufferInv, ConsoleInv
<1>6. SpanInv'
  BY <1>1, <1>2, <1>4 DEF SpanInv
<1>7. Kept /\ Added = {}
  BY <1>2, NothingSent
<1>8. OutputTagged'
  BY <1>2, <1>7, TaggedStays DEF StateInv
<1>9. DeltaSpansEvaluation'
  <2>1. SaidOnly(c.id, {"results"})
    BY DEF SpeechInv, SocketInv, SaidOnly, Reads
  <2> QED
    BY <1>4, <1>7, <2>1, DeltasStay DEF StateInv
<1>10. CloseSaves'
  BY <1>1, <1>2 DEF StateInv, CloseSaves, session
<1> QED
  BY <1>5, <1>6, <1>8, <1>9, <1>10 DEF StateInv

LEMMA StateREffect ==
  ASSUME SessionTypes, EnvTypes, OutboxType, LoopInv, SpeechInv, StateInv,
         RPrint \/ RWarn \/ RAssign \/ RChangeDir \/ RWriteFile
  PROVE  StateInv'
<1>1. /\ pc = "script" /\ cur \in Evaluations /\ cur.id \in Commands /\ running
      /\ UNCHANGED <<session, cur, thrown, ignoreOutput, captureStdOut, lastVars, savedEnv>>
      /\ pc' = pc
  BY DEF RPrint, RWarn, RAssign, RChangeDir, RWriteFile, REffect, Evaluating, SessionTypes,
         Evaluations, LoopInv, images, IW!TouchFile, IW!Draw, IW!OpenPage,
         IW!RemoveImage
<1>2. consoleOutBuffer' \subseteq consoleOutBuffer \cup {cur.id}
  BY DEF RPrint, RWarn, RAssign, RChangeDir, RWriteFile
<1>3. BufferInv' /\ ConsoleInv'
  BY <1>1, <1>2 DEF StateInv, BufferInv, ConsoleInv
<1>4. /\ spans'[cur.id][1] = spans[cur.id][1] /\ spans'[cur.id][2] = env'
      /\ \A x \in Commands \ {cur.id} : spans'[x] = spans[x]
  <2>1. CASE RAssign
    <3>1. spans \in [Commands -> Int \X Int] /\ spans[cur.id] \in Int \X Int
      BY <1>1 DEF EnvTypes
    <3>2. /\ env' = env + 1
          /\ spans' = [spans EXCEPT ![cur.id] = [spans[cur.id] EXCEPT ![2] = env + 1]]
      BY <2>1 DEF RAssign
    <3>3. spans'[cur.id] = [spans[cur.id] EXCEPT ![2] = env + 1]
      BY <1>1, <3>1, <3>2
    <3>4. /\ [spans[cur.id] EXCEPT ![2] = env + 1][1] = spans[cur.id][1]
          /\ [spans[cur.id] EXCEPT ![2] = env + 1][2] = env + 1
      BY <3>1
    <3> QED
      BY <1>1, <3>1, <3>2, <3>3, <3>4
  <2>2. CASE RPrint \/ RWarn \/ RChangeDir \/ RWriteFile
    BY <1>1, <2>2 DEF RPrint, RWarn, RChangeDir, RWriteFile, StateInv, SpanInv
  <2> QED
    BY <2>1, <2>2
<1>5. SpanInv'
  BY <1>1, <1>4 DEF StateInv, SpanInv
<1>6. /\ Kept
      /\ \A n \in Added :
           /\ outbox'[n].msg = "results" /\ outbox'[n].q = cur.id
           /\ outbox'[n].text \subseteq {cur.id} \cup thrown
  <2>1. CASE RWarn
    <3> DEFINE m == [Msg("results", cur.id, currentQueryId) EXCEPT !.text = {cur.id}]
    <3>1. m \in EvalMessages /\ EvalMessages \subseteq Messages
      BY <1>1, EvalMessageTypes
    <3>2. m.msg = "results" /\ m.text = {cur.id} /\ m.q = cur.id
      BY <1>1 DEF Msg, SpeechInv, EvalInv
    <3> HIDE DEF m
    <3>3. <<m>> \in Seq(Messages) /\ \A k \in 1 .. Len(<<m>>) : <<m>>[k] = m
      BY <3>1
    <3>4. Send(<<m>>)
      BY <2>1 DEF RWarn, m
    <3>5. Kept /\ \A n \in Added : \E k \in 1 .. Len(<<m>>) : outbox'[n] = <<m>>[k]
      BY <3>3, <3>4, SendAdds
    <3> QED
      BY <3>2, <3>3, <3>5
  <2>2. CASE RPrint \/ RAssign \/ RChangeDir \/ RWriteFile
    BY <2>2, SilentSteps, NothingSent
  <2> QED
    BY <2>1, <2>2
<1>7. OutputTagged'
  BY <1>1, <1>6, TaggedStays DEF StateInv
<1>8. DeltaSpansEvaluation'
  <2>1. SaidOnly(cur.id, {"results"})
    BY <1>1 DEF SpeechInv, EvalInv, Current
  <2> QED
    BY <1>4, <1>6, <2>1, DeltasStay DEF StateInv
<1>9. CloseSaves'
  BY <1>1 DEF StateInv, CloseSaves, session
<1> QED
  BY <1>3, <1>5, <1>7, <1>8, <1>9 DEF StateInv

LEMMA StateEvalEnds ==
  ASSUME SessionTypes, OutboxType, LoopInv, SpeechInv, StateInv,
         NEW acked \in BOOLEAN, NEW copied \in BOOLEAN,
         EvalEnds(acked, copied), pc = "script"
  PROVE  StateInv'
<1>1. pc' = "idle" /\ running
  BY DEF EvalEnds, IW!EndScript, LoopInv
<1>2. thrown' \in {thrown, thrown \cup {cur.id}}
  BY DEF EvalEnds
<1>3. BufferInv'
  BY <1>1, <1>2 DEF EvalEnds, StateInv, BufferInv
<1>4. ConsoleInv'
  BY <1>1, <1>2 DEF EvalEnds, StateInv, ConsoleInv
<1>5. SpanInv'
  BY <1>1 DEF SpanInv
<1>6. Kept /\ \A n \in Added : outbox'[n] \in EvalMessages
  BY DEF EvalEnds
<1>7. OutputTagged'
  <2>1. currentQueryId = cur.id
    BY DEF SpeechInv, EvalInv
  <2>2. consoleOutBuffer \subseteq {cur.id} \cup thrown
    BY DEF StateInv, BufferInv
  <2>3. ASSUME NEW n \in Added, outbox'[n].msg = "results"
        PROVE  outbox'[n].text \subseteq {outbox'[n].q} \cup thrown'
    BY <1>2, <1>6, <2>1, <2>2, <2>3 DEF EvalMessages
  <2> QED
    BY <1>2, <1>6, <2>3, TaggedStays DEF StateInv
<1>8. DeltaSpansEvaluation'
  <2>1. \A n \in Added : outbox'[n].msg # "delta"
    BY <1>6 DEF EvalMessages
  <2>2. spans' = spans
    BY DEF EvalEnds
  <2> QED
    BY <1>6, <2>1, <2>2, DeltasStay DEF StateInv
<1>9. CloseSaves'
  BY <1>1, <1>2 DEF EvalEnds, StateInv, CloseSaves, session
<1> QED
  BY <1>3, <1>4, <1>5, <1>7, <1>8, <1>9 DEF StateInv

LEMMA StateAck ==
  ASSUME SessionTypes, OutboxType, StateInv, FinishAck
  PROVE  StateInv'
<1> DEFINE a == Head(active)
<1>1. /\ pc # "script" /\ pc' = "idle"
      /\ UNCHANGED <<session, console, thrown, spans, env, cwd, rdata, savedEnv>>
  BY DEF FinishAck, IW!EndAck, rvars, history
<1>2. /\ a.id \in Commands /\ Kept /\ Len(outbox') = Len(outbox) + (IF a.file THEN 2 ELSE 1)
      /\ outbox'[Len(outbox) + 1] = Msg("execComplete", a.id, a.id)
      /\ a.file => outbox'[Len(outbox) + 2] = Msg("showoutput", a.id, 0)
  BY AckSends
<1> HIDE DEF a
<1>3. ASSUME NEW n \in Added
      PROVE  outbox'[n].msg \in {"execComplete", "showoutput"}
  <2>1. n = Len(outbox) + 1 \/ (n = Len(outbox) + 2 /\ a.file)
    BY <1>2, <1>3 DEF Added, Kept
  <2> QED
    BY <1>2, <2>1 DEF Msg
<1>4. CloseSaves'
  BY <1>1 DEF StateInv, CloseSaves, session
<1> QED
  BY <1>1, <1>2, <1>3, <1>4, StateOutside DEF console

LEMMA StateDelta ==
  ASSUME SessionTypes, EnvTypes, OutboxType, LoopInv, SpeechInv, StateInv, RunDelta
  PROVE  StateInv'
<1> DEFINE c == Head(active).id
<1>1. /\ ActiveIs("delta") /\ pc # "script" /\ pc' # "script"
      /\ UNCHANGED <<session, thrown, spans, lastVars, env, cwd, rdata, savedEnv>>
      /\ UNCHANGED <<captureStdOut, consoleOutBuffer>>
      /\ ignoreOutput' \in {ignoreOutput, FALSE}
  BY DEF RunDelta, QuietConsole, console, rvars, history, IW!AbortElsewhere, images
<1>2. Kept /\ \A n \in Added : outbox'[n] = VariableDelta(c)
  BY DeltaSends
<1>3. spans[c] = <<lastVars, env>>
  BY <1>1, DeltaIsLast DEF SpeechInv, QueueInv, EventsInv, DeltaInv, ActiveIs
<1> HIDE DEF c
<1>4. /\ VariableDelta(c).msg = "delta" /\ VariableDelta(c).by = c
      /\ VariableDelta(c).from = lastVars /\ VariableDelta(c).to = env
  BY DEF VariableDelta, Msg
<1>5. ASSUME NEW n \in Added
      PROVE  /\ outbox'[n].msg # "results"
             /\ <<outbox'[n].from, outbox'[n].to>> = spans[outbox'[n].by]
  BY <1>2, <1>3, <1>4, <1>5
<1>6. CloseSaves'
  BY <1>1 DEF StateInv, CloseSaves, session
<1> QED
  BY <1>1, <1>2, <1>5, <1>6, StateOutside

LEMMA StateInvStep ==
  ASSUME SessionTypes, EnvTypes, OutboxType, LoopInv, SpeechInv, StateInv, [Next]_vars
  PROVE  StateInv'
<1> USE DEF rvars, history
<1>i. UNCHANGED images => UNCHANGED pc
  BY DEF images
<1>0. ASSUME UNCHANGED vars \/ \E op \in ClientOps : ClientSend(op)
      PROVE  StateInv'
  <2>1. UNCHANGED <<pc, session, cur, console, outbox, thrown, spans, rvars>>
    BY <1>0, <1>i DEF vars, rest, ClientSend
  <2> QED
    BY <2>1 DEF StateInv, BufferInv, ConsoleInv, SpanInv, OutputTagged,
                DeltaSpansEvaluation, CloseSaves, session, console
<1>1. ASSUME NEW j \in 1 .. Len(socket), NEW c \in AnyRequest, Reads(j, c),
             Quick(c) \/ StartEval(c)
      PROVE  StateInv'
  BY <1>1, StateQuick, StateStartEval
<1>2. CASE RPrint \/ RWarn \/ RAssign \/ RChangeDir \/ RWriteFile
  BY <1>2, StateREffect
<1>3. ASSUME NEW acked \in BOOLEAN, NEW copied \in BOOLEAN, EvalEnds(acked, copied),
             pc = "script"
      PROVE  StateInv'
  BY <1>3, StateEvalEnds
<1>4. CASE Poll \/ RunInotify
  BY <1>4, <1>i, StateSilent DEF Poll, RunInotify, IW!DropInotify, IW!ReadInotify
<1>5. CASE InotifyStep
  <2>1. pc = "inotify"
    BY <1>5 DEF InotifyStep
  <2>2. pc' # "script"
    BY <1>5, <2>1 DEF InotifyStep, IW!StartImageWatch, IW!InsertClosedImage,
       IW!InsertClosedImageFails, IW!CloseOfUnknown, IW!SkipEvent, IW!NextEvent,
       IW!LoneHeader, IW!ParseCutName, IW!EndInotify
  <2> QED
    BY <1>5, <2>1, <2>2, StateSilent DEF InotifyStep
<1>6. CASE RunAck \/ CleanupStep
  BY <1>6, StateSilent DEF RunAck, CleanupStep, rest, IW!StartAck, IW!CleanupOne,
                           IW!CleanupThrows
<1>7. CASE IgnoreTimer \/ DBNotify
  BY <1>7, StateSilent DEF IgnoreTimer, DBNotify, LoopQuiet, rest, IW!IgnoreOff,
                           IW!HandlesNotifications
<1> QED
  BY <1>0, <1>1, <1>2, <1>3, <1>4, <1>5, <1>6, <1>7, StateAck, StateDelta, StepCases
  DEF LoopStep

-----------------------------------------------------------------------------
(* The session starts in order. *)

LEMMA SessionInit == Init => SessionInv
<1> SUFFICES ASSUME Init
             PROVE  SessionInv
  OBVIOUS
<1>1. MaxCommands \in Nat /\ MaxROps \in Nat
  BY BoundsAssumption
<1>2. /\ Len(socket) = 0 /\ Len(outbox) = 0 /\ Len(timers) = 0 /\ Len(active) = 0
      /\ pc = "idle" /\ owed = 0
  BY DEF Init, IW!Init
<1>3. SessionTypes
  <2>1. /\ socket \in Seq(Requests) /\ timers \in Seq(Scheduled)
        /\ active \in Seq(Scheduled)
    BY DEF Init
  <2>2. IF pc = "script" THEN cur \in Evaluations ELSE cur = NoCommand
    BY <1>2 DEF Init
  <2>3. open \in BOOLEAN /\ properlyClosed \in BOOLEAN /\ watchVariables \in BOOLEAN
    BY DEF Init
  <2>4. running \in BOOLEAN /\ ignoreOutput \in BOOLEAN /\ captureStdOut \in BOOLEAN
    BY DEF Init
  <2>5. nsent \in 0 .. MaxCommands /\ currentQueryId \in 0 .. MaxCommands
    BY <1>1 DEF Init
  <2>6. /\ consoleOutBuffer \subseteq Commands /\ stdOutCapture \subseteq Commands
        /\ thrown \subseteq Commands /\ cwd \in {"work", "tmp", "scratch", "other"}
    BY DEF Init
  <2> QED
    BY <2>1, <2>2, <2>3, <2>4, <2>5, <2>6 DEF SessionTypes
<1>4. EnvTypes /\ OutboxType
  <2>1. NotRun \in Int \X Int
    BY DEF NotRun
  <2>2. spans \in [Commands -> Int \X Int]
    BY <2>1 DEF Init
  <2> QED
    BY <1>1, <2>2 DEF Init, EnvTypes, OutboxType
<1>5. LoopInv
  BY <1>2 DEF Init, LoopInv, InLoopOrder, HasAck, ActiveIs
<1>6. SpeechInv
  <2>1. InOrder /\ AckedNotThrown /\ EvalInv /\ QueueInv
    BY <1>2 DEF InOrder, AckedNotThrown, EvalInv, QueueInv, EventsInv
  <2>2. SocketInv
    BY <1>2 DEF Init, SocketInv, Commands
  <2> QED
    BY <2>1, <2>2 DEF SpeechInv
<1>7. StateInv
  BY <1>2 DEF Init, StateInv, BufferInv, ConsoleInv, SpanInv, OutputTagged,
              DeltaSpansEvaluation, CloseSaves
<1> QED
  BY <1>3, <1>4, <1>5, <1>6, <1>7 DEF SessionInv

-----------------------------------------------------------------------------
(* The theorems about ImageWatch, instantiated with the session's images.    *)
(* IWP is the same instance as IW with the proofs' definitions added: the    *)
(* lemmas below say so, action by action.                                    *)

IWP == INSTANCE ImageWatchProofs

LEMMA ImageConstants == IWP!ConstantsAssumption
  BY BoundsAssumption DEF IWP!ConstantsAssumption

LEMMA SameImages ==
  /\ IW!vars = IWP!vars /\ IW!vars' = IWP!vars'
  /\ IW!Init <=> IWP!Init
  BY DEF IW!vars, IWP!vars, IW!files, IWP!files, IW!tables, IWP!tables,
     IW!history, IWP!history, IW!Init, IWP!Init

LEMMA SameImageTypes ==
  (IW!TypeOK <=> IWP!TypeOK) /\ (IW!TypeOK' <=> IWP!TypeOK')
  BY DEF IW!TypeOK, IWP!TypeOK, IW!FilesOK, IWP!FilesOK, IW!QueuesOK,
     IWP!QueuesOK, IW!TablesOK, IWP!TablesOK, IW!CountersOK, IWP!CountersOK,
     IW!FlagsOK, IWP!FlagsOK, IW!ReportsOK, IWP!ReportsOK, IW!Events, IWP!Events,
     IW!Other, IWP!Other, IW!PendingImage, IWP!PendingImage, IW!Row, IWP!Row,
     IW!Report, IWP!Report, IW!Scripts, IWP!Scripts, IW!Header, IWP!Header,
     IW!CutName, IWP!CutName

LEMMA SameReads ==
  ASSUME NEW ignored \in BOOLEAN
  PROVE  IW!Reads(ignored) <=> IWP!Reads(ignored)
<1>1. ASSUME NEW q
      PROVE  IW!Least(q) = IWP!Least(q)
  BY DEF IW!Least, IWP!Least, IW!Min, IWP!Min
<1>2. ASSUME NEW q
      PROVE  IW!ImagesOf(q) = IWP!ImagesOf(q)
  BY DEF IW!ImagesOf, IWP!ImagesOf, IW!CreateEvent, IWP!CreateEvent
<1>3. ASSUME NEW got
      PROVE  IW!TakesFrom(got, ignored) <=> IWP!TakesFrom(got, ignored)
  BY <1>1, <1>2 DEF IW!TakesFrom, IWP!TakesFrom, IW!CutName, IWP!CutName, IW!Header,
                    IWP!Header
<1> QED
  BY <1>1, <1>3 DEF IW!Reads, IWP!Reads

LEMMA SameImageSteps == IW!Next <=> IWP!Next
<1> USE DEF IW!files, IWP!files, IW!tables, IWP!tables, IW!history,
            IWP!history, IW!Queued, IWP!Queued, IW!Other, IWP!Other
<1>1. IW!BeginScript <=> IWP!BeginScript
  BY DEF IW!BeginScript, IWP!BeginScript, IW!StartScript, IWP!StartScript,
     IW!ResetWatch, IWP!ResetWatch
<1>2. IW!ScriptStep <=> IWP!ScriptStep
  BY DEF IW!ScriptStep, IWP!ScriptStep, IW!Draw, IWP!Draw, IW!OpenPage,
     IWP!OpenPage, IW!RemoveImage, IWP!RemoveImage, IW!TouchFile, IWP!TouchFile,
     IW!EndScript, IWP!EndScript, IW!OpensFile, IWP!OpensFile, IW!CreateEvent,
     IWP!CreateEvent, IW!CloseWriteEvent, IWP!CloseWriteEvent, IW!Unnoticed,
     IWP!Unnoticed
<1>3. IW!ClearFileChanges <=> IWP!ClearFileChanges
  BY DEF IW!ClearFileChanges, IWP!ClearFileChanges, IW!ResetOnly,
     IWP!ResetOnly, IW!ResetWatch, IWP!ResetWatch
<1>4. IW!DropInotify <=> IWP!DropInotify
  BY SameReads DEF IW!DropInotify, IWP!DropInotify
<1>5. IW!ReadInotify <=> IWP!ReadInotify
  BY SameReads DEF IW!ReadInotify, IWP!ReadInotify
<1>6. IW!StartImageWatch <=> IWP!StartImageWatch
  BY DEF IW!StartImageWatch, IWP!StartImageWatch, IW!NextEvent, IWP!NextEvent
<1>7. IW!InsertClosedImage <=> IWP!InsertClosedImage
  BY DEF IW!InsertClosedImage, IWP!InsertClosedImage, IW!NextEvent,
     IWP!NextEvent, IW!Insert, IWP!Insert, IW!SkipEmpty, IWP!SkipEmpty,
     IW!BatchForInsert, IWP!BatchForInsert, IW!MaxBatchId, IWP!MaxBatchId
<1>8. IW!InsertClosedImageFails <=> IWP!InsertClosedImageFails
  BY DEF IW!InsertClosedImageFails, IWP!InsertClosedImageFails, IW!NextEvent,
     IWP!NextEvent, IW!BatchForInsert, IWP!BatchForInsert, IW!MaxBatchId,
     IWP!MaxBatchId
<1>9. IW!CloseOfUnknown <=> IWP!CloseOfUnknown
  BY DEF IW!CloseOfUnknown, IWP!CloseOfUnknown, IW!NextEvent, IWP!NextEvent
<1>10. IW!SkipEvent <=> IWP!SkipEvent
  BY DEF IW!SkipEvent, IWP!SkipEvent, IW!NextEvent, IWP!NextEvent
<1>18. IW!LoneHeader <=> IWP!LoneHeader
  BY DEF IW!LoneHeader, IWP!LoneHeader, IW!NextEvent, IWP!NextEvent
<1>19. IW!ParseCutName <=> IWP!ParseCutName
  BY DEF IW!ParseCutName, IWP!ParseCutName, IW!ImagesOf, IWP!ImagesOf,
     IW!CreateEvent, IWP!CreateEvent
<1>11. IW!EndInotify <=> IWP!EndInotify
  BY DEF IW!EndInotify, IWP!EndInotify
<1>12. IW!BeginAck <=> IWP!BeginAck
  BY DEF IW!BeginAck, IWP!BeginAck, IW!StartAck, IWP!StartAck,
     IW!OnlyOtherQueued, IWP!OnlyOtherQueued
<1>13. IW!EndAck <=> IWP!EndAck
  BY DEF IW!EndAck, IWP!EndAck
<1>14. IW!IgnoreOff <=> IWP!IgnoreOff
  BY DEF IW!IgnoreOff, IWP!IgnoreOff
<1>15. IW!HandleDBNotifications <=> IWP!HandleDBNotifications
  BY DEF IW!HandleDBNotifications, IWP!HandleDBNotifications,
     IW!HandlesNotifications, IWP!HandlesNotifications
<1>16. IW!AbortElsewhere <=> IWP!AbortElsewhere
  BY DEF IW!AbortElsewhere, IWP!AbortElsewhere
<1>17. ASSUME NEW p
      PROVE  /\ IW!CleanupOne(p) <=> IWP!CleanupOne(p)
             /\ IW!CleanupThrows(p) <=> IWP!CleanupThrows(p)
  BY DEF IW!CleanupOne, IWP!CleanupOne, IW!CleanupThrows, IWP!CleanupThrows,
     IW!FirstToClean, IWP!FirstToClean, IW!Insert, IWP!Insert, IW!SkipEmpty,
     IWP!SkipEmpty, IW!BatchForInsert, IWP!BatchForInsert, IW!MaxBatchId,
     IWP!MaxBatchId
<1> QED
  BY <1>1, <1>2, <1>3, <1>4, <1>5, <1>6, <1>7, <1>8, <1>9, <1>10, <1>11,
     <1>12, <1>13, <1>14, <1>15, <1>16, <1>17, <1>18, <1>19 DEF IW!Next, IWP!Next,
     IW!InotifyStep, IWP!InotifyStep, IW!AckStep, IWP!AckStep

LEMMA SameImageSpec == IW!Spec <=> IWP!Spec
<1>1. [IW!Next]_(IW!vars) <=> [IWP!Next]_(IWP!vars)
  BY SameImages, SameImageSteps
<1> QED
  BY <1>1, SameImages, PTL DEF IW!Spec, IWP!Spec

LEMMA ImageTypesStep ==
  ASSUME IW!TypeOK, [IW!Next]_(IW!vars)
  PROVE  IW!TypeOK'
<1>1. IWP!TypeOK /\ [IWP!Next]_(IWP!vars)
  BY SameImages, SameImageSteps, SameImageTypes
<1>2. IWP!ConstantsAssumption
  BY ImageConstants
<1>3. IWP!TypeOK'
  BY <1>1, <1>2, IWP!TypeOKStep
<1> QED
  BY <1>3, SameImageTypes

-----------------------------------------------------------------------------
(* The theorems. *)

LEMMA SessionHolds ==
  Spec => [](IW!TypeOK /\ SessionInv) /\ [][IW!Next]_(IW!vars)
<1>1. Init => IW!TypeOK
  <2>1. IWP!ConstantsAssumption
    BY ImageConstants
  <2>2. IWP!Init => IWP!TypeOK
    BY <2>1, IWP!TypeOKInit
  <2> QED
    BY <2>2, SameImages, SameImageTypes DEF Init
<1>2. ASSUME IW!TypeOK, SessionInv, [Next]_vars
      PROVE  IW!TypeOK' /\ SessionInv' /\ [IW!Next]_(IW!vars)
  <2>1. /\ SessionTypes /\ EnvTypes /\ OutboxType /\ LoopInv /\ SpeechInv /\ StateInv
        /\ BufferInv /\ SpanInv
    BY <1>2 DEF SessionInv, StateInv
  <2>2. [IW!Next]_(IW!vars)
    BY <1>2, <2>1, KeepsImageContract
  <2>3. IW!TypeOK'
    BY <1>2, <2>2, ImageTypesStep
  <2>4. SessionTypes' /\ EnvTypes' /\ OutboxType'
    BY <1>2, <2>1, SessionTypesStep, EnvTypesStep, OutboxKept DEF Kept
  <2>5. LoopInv' /\ SpeechInv' /\ StateInv'
    BY <1>2, <2>1, LoopInvStep, SpeechInvStep, StateInvStep
  <2> QED
    BY <2>2, <2>3, <2>4, <2>5 DEF SessionInv
<1> QED
  BY <1>1, <1>2, SessionInit, PTL DEF Spec

\* The loop of RSession only takes steps that ImageWatch allows its caller: a
\* script starts when nothing is owed to the previous one, and an acknowledgement
\* runs after the events of its script were read, or after a read that left some
\* of them in the bufferevent (handleInotifyEvent takes I_BUF_LEN bytes).
THEOREM LoopKeepsContract == Spec => LoopKeepsImageContract
<1>1. Init => IW!Init
  BY DEF Init
<1> QED
  BY <1>1, SessionHolds, PTL DEF LoopKeepsImageContract, IW!Spec, Spec

\* So what was proved of ImageWatch alone holds in the session: an execComplete
\* names rows with the batch it names, no row twice, and no image of an earlier
\* script that was acknowledged and whose events one read took; and no finished
\* image is lost but those whose events wait, were dropped or were cut.
THEOREM SessionImages ==
  Spec => [](IW!ReportedBatch /\ IW!ReportsDisjoint /\ IW!ImageOfItsScript
               /\ IW!LostOnlyIfUnseen)
<1>1. IWP!ConstantsAssumption
  BY ImageConstants
<1>2. IWP!Spec => [](IWP!ReportedBatch /\ IWP!ReportsDisjoint /\ IWP!BatchAboveHistory)
  BY <1>1, IWP!ReportsCorrect
<1>3. IWP!Spec => []IWP!ImageOfItsScript /\ []IWP!LostOnlyIfUnseen
  BY <1>1, IWP!ReportsOwnImages, IWP!NothingElseLost
<1>4. /\ IW!ReportedBatch <=> IWP!ReportedBatch
      /\ IW!ReportsDisjoint <=> IWP!ReportsDisjoint
      /\ IW!ImageOfItsScript <=> IWP!ImageOfItsScript
      /\ IW!LostOnlyIfUnseen <=> IWP!LostOnlyIfUnseen
  BY DEF IW!ReportedBatch, IWP!ReportedBatch, IW!ReportsDisjoint,
         IWP!ReportsDisjoint, IW!ImageOfItsScript, IWP!ImageOfItsScript,
         IW!LostOnlyIfUnseen, IWP!LostOnlyIfUnseen, IW!ImagesOf, IWP!ImagesOf,
         IW!CreateEvent, IWP!CreateEvent
<1> QED
  BY <1>2, <1>3, <1>4, LoopKeepsContract, SameImageSpec, PTL
  DEF LoopKeepsImageContract

\* The variables of RSession, its queues and its messages have their types.
THEOREM TypeCorrect == Spec => []TypeOK
<1>1. IW!TypeOK /\ SessionInv => TypeOK
  <2> SUFFICES ASSUME IW!TypeOK, SessionInv
               PROVE  TypeOK
    OBVIOUS
  <2>1. SessionTypes /\ EnvTypes /\ OutboxType /\ MaxCommands \in Nat /\ MaxROps \in Nat
    BY BoundsAssumption DEF SessionInv
  <2>2. Scheduled \subseteq LoopEvents
    <3>1. 0 \in 0 .. MaxCommands /\ Commands \subseteq 0 .. MaxCommands
      BY <2>1 DEF Commands
    <3>2. [kind: {"inotify"}, id: {0}, file: {FALSE}] \subseteq LoopEvents
      BY <3>1 DEF LoopEvents
    <3>3. [kind: {"ack", "delta"}, id: Commands, file: BOOLEAN] \subseteq LoopEvents
      BY <3>1 DEF LoopEvents
    <3> QED
      BY <3>2, <3>3 DEF Scheduled
  <2>3. timers \in Seq(LoopEvents) /\ active \in Seq(LoopEvents)
    BY <2>1, <2>2, SeqMonotonic DEF SessionTypes
  <2>4. env \in 0 .. MaxROps /\ lastVars \in 0 .. env /\ savedEnv \in 0 .. env
    BY <2>1 DEF EnvTypes
  <2>5. {open, properlyClosed, watchVariables, running, ignoreOutput,
         captureStdOut} \subseteq BOOLEAN
    BY <2>1 DEF SessionTypes
  <2>6. cur = NoCommand \/ cur \in [op: EvalOps, id: Commands, delta: BOOLEAN]
    BY <2>1 DEF SessionTypes, Evaluations
  <2>7. socket \in Seq([op: Ops, id: Commands]) /\ outbox \in Seq(Messages)
    BY <2>1 DEF SessionTypes, Requests, OutboxType
  <2>8. /\ nsent \in 0 .. MaxCommands /\ currentQueryId \in 0 .. MaxCommands
        /\ consoleOutBuffer \subseteq Commands /\ stdOutCapture \subseteq Commands
        /\ thrown \subseteq Commands /\ cwd \in {"work", "tmp", "scratch", "other"}
        /\ rdata \in {NoFile} \cup 0 .. env
    BY <2>1 DEF SessionTypes, EnvTypes
  <2> QED
    BY <2>3, <2>4, <2>5, <2>6, <2>7, <2>8 DEF TypeOK
<1> QED
  BY <1>1, SessionHolds, PTL

\* Whatever a command causes, its acknowledgement and its delta included, is
\* sent before anything is sent for a later command (scheduleDelayedCommand,
\* scheduleExecCompleteAcknowledgmenet).
THEOREM AnswersInOrder == Spec => []RepliesInOrder
<1>1. SessionInv => RepliesInOrder
  BY DEF SessionInv, SpeechInv, InOrder, MayFollow, RepliesInOrder
<1> QED
  BY <1>1, SessionHolds, PTL

\* Nothing of a command's output follows its execComplete, and of the command
\* itself only the file to show and the delta (handleExecComplete).
THEOREM AckAfterOutput == Spec => []OutputBeforeAck
<1>1. SessionInv => OutputBeforeAck
  BY DEF SessionInv, SpeechInv, InOrder, MayFollow, OutputBeforeAck
<1> QED
  BY <1>1, SessionHolds, PTL

\* Console text goes out under the queryId of the command that printed it,
\* unless that command's handler threw before the buffer was sent
\* (sendOutputBufferToClient).
THEOREM OutputOfItsCommand == Spec => []OutputTagged
<1>1. SessionInv => OutputTagged
  BY DEF SessionInv, StateInv
<1> QED
  BY <1>1, SessionHolds, PTL

\* The delta after an evaluation compares the environments it started and ended
\* with: nothing runs between the capture and the delayed listVariables.
THEOREM DeltaOfItsEvaluation == Spec => []DeltaSpansEvaluation
<1>1. SessionInv => DeltaSpansEvaluation
  BY DEF SessionInv, StateInv
<1> QED
  BY <1>1, SessionHolds, PTL

\* As long as no handler throws, the next one finds the console neither silenced
\* nor capturing, and no text in the buffer (getExecuteCallback,
\* executeRMarkdown).
THEOREM ConsoleAsExpected == Spec => []ConsoleRestored
<1>1. SessionInv => ConsoleRestored
  BY DEF SessionInv, StateInv, BufferInv, ConsoleInv, ConsoleRestored
<1> QED
  BY <1>1, SessionHolds, PTL

\* Unless a step fails, handleCloseCommand ends the loop; with R in the session's
\* directory the environment of that moment is committed then, elsewhere what the
\* .RData of the session's directory holds (saveRData).
THEOREM CloseCommits == Spec => []CloseSaves
<1>1. SessionInv => CloseSaves
  BY DEF SessionInv, StateInv
<1> QED
  BY <1>1, SessionHolds, PTL

\* One acknowledgement is scheduled when ImageWatch owes one, none otherwise,
\* and only the inotify descriptor can be handled before it.
THEOREM OneAckScheduled == Spec => []AckScheduled
<1>1. SessionInv => AckScheduled
  <2> SUFFICES ASSUME SessionInv
               PROVE  AckScheduled
    OBVIOUS
  <2> DEFINE q == active \o timers
             acks == {n \in 1 .. Len(q) : q[n].kind = "ack"}
  <2>1. /\ active \in Seq(Scheduled) /\ timers \in Seq(Scheduled) /\ LoopInv
    BY DEF SessionInv, SessionTypes
  <2>2. /\ q \in Seq(Scheduled) /\ InLoopOrder(q)
        /\ HasAck(q) <=> owed # 0
    <3>1. CASE timers = <<>>
      <4>1. q = active /\ ~HasAck(timers)
        BY <2>1, <3>1, ConcatEmptySeq DEF HasAck
      <4> QED
        BY <2>1, <4>1 DEF LoopInv
    <3>2. CASE active = <<>>
      <4>1. q = timers /\ ~HasAck(active)
        BY <2>1, <3>2, ConcatEmptySeq DEF HasAck
      <4> QED
        BY <2>1, <4>1 DEF LoopInv
    <3> QED
      BY <2>1, <3>1, <3>2 DEF LoopInv
  <2> HIDE DEF q
  <2>3. \A n \in acks : n = 1 \/ (n = 2 /\ q[1].kind = "inotify")
    BY <2>2 DEF InLoopOrder
  <2>4. \A n \in acks : \A m \in 1 .. n - 1 : q[m].kind = "inotify"
    BY <2>3
  <2>5. Cardinality(acks) = IF owed # 0 THEN 1 ELSE 0
    <3>1. CASE owed # 0
      <4>1. PICK n \in acks : TRUE
        BY <2>2, <3>1 DEF HasAck
      <4>2. \A m \in acks : m = n
        <5>1. ASSUME NEW m \in acks, m # n
              PROVE  FALSE
          <6>1. q[1].kind = "inotify" /\ q[1].kind = "ack"
            BY <2>3, <4>1, <5>1
          <6> QED
            BY <6>1
        <5> QED
          BY <5>1
      <4>3. acks = {n}
        BY <4>1, <4>2
      <4> QED
        BY <3>1, <4>3, FS_Singleton
    <3>2. CASE owed = 0
      <4>1. acks = {}
        BY <2>2, <3>2 DEF HasAck
      <4> QED
        BY <3>2, <4>1, FS_EmptySet
    <3> QED
      BY <3>1, <3>2
  <2> QED
    BY <2>4, <2>5 DEF AckScheduled, q
<1> QED
  BY <1>1, SessionHolds, PTL
=============================================================================
