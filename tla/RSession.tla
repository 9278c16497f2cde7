------------------------------- MODULE RSession -------------------------------
(***************************************************************************)
(* The session process, src/src/RSession.cpp: one thread that runs         *)
(* libevent's loop, reads commands from the client's socket, evaluates R   *)
(* code and sends messages back.                                           *)
(*                                                                         *)
(* Four kinds of event compete.  Priority 0: the inotify queue of          *)
(* FileManager, the acknowledgement of an evaluation and the delayed       *)
(* listVariables command (both one-shot timers of 1 us).  Priority 1: the  *)
(* client's socket.  Priority 2: database notifications and the timer that *)
(* ends FileManager's ignoring of the file system.  A pass of the loop     *)
(* polls, queues what is ready (the inotify descriptor before the expired  *)
(* timers), runs the queue of the highest priority that has one, and polls *)
(* again.                                                                  *)
(*                                                                         *)
(* FileManager's images are the variables of ImageWatch, which this module *)
(* composes: a handler here is the ImageWatch step it performs together    *)
(* with what RSession does.  IW!Spec, checked as a property, says that the *)
(* loop only takes steps ImageWatch allows its caller.                     *)
(***************************************************************************)
EXTENDS Integers, Sequences, FiniteSets

CONSTANTS
  Images, ReadMin, BatchInDb, MaxScripts, MaxFaults,   \* of ImageWatch
  ClientOps,    \* the commands the client sends
  UnknownAs,    \* what an unknown msg may be taken for
  MaxCommands,  \* bound: commands the client sends
  MaxROps,      \* bound: effects of the R code, over all evaluations
  Notified,     \* bound: whether notifications of the database come at all
  MaxMishaps    \* bound: exceptions thrown in this module's handlers

ASSUME BoundsAssumption ==
  /\ ReadMin \in Nat \ {0} /\ BatchInDb \in Nat /\ MaxScripts \in Nat /\ MaxFaults \in Nat
  /\ MaxCommands \in Nat
  /\ MaxROps \in Nat
  /\ MaxMishaps \in Nat
  /\ Notified \in BOOLEAN

EvalOps == {"execScript", "execWatch", "execR", "execRmd", "execRnw"}
Ops == EvalOps \cup
       {"open", "close", "saveEnv", "clearFileChanges", "execOther",
        "execUnknownId", "help", "list", "listDelta", "getVariable",
        "watchOn", "watchOff", "unknown", "badArgument"}

ASSUME OpsAssumption ==
  /\ ClientOps \subseteq Ops
  /\ UnknownAs \subseteq Ops \ {"unknown"}

VARIABLES
  \* ImageWatch
  onDisk, written, watchOf, nextWd, dirWatched, inotifyQ, input, batch, pending,
  toClean, imageIds, sessionImageBatch, sessionimage, ignoreFS, owed, script, faults,
  alive, pc, reports, unacked, late, unseen,
  \* the client
  socket,          \* commands sent and not read yet
  nsent,           \* commands sent so far; a command's queryId is its number
  \* the session
  open, properlyClosed, watchVariables, currentQueryId,
  running,         \* the loop has not been broken
  \* the console
  ignoreOutput, captureStdOut,
  consoleOutBuffer,  \* the commands whose text is in the buffer
  stdOutCapture,     \* the same for the text captured during a render
  \* the event loop
  timers,          \* one-shot timers, in the order they were added
  active,          \* the queue of priority 0
  cur,             \* the command R is evaluating
  \* R
  env,             \* version of the global environment
  lastVars,        \* the version captureEnvironment remembered
  cwd,             \* R's working directory
  rdata,           \* the version in .RData of the session's directory, or NoFile
  savedEnv,        \* the version last committed to rcworkspacedata
  \* what the client receives, and history
  outbox,
  thrown,          \* commands in whose handler a step failed or threw
  spans,           \* spans[c]: environment before and after evaluation c
  rops, mishaps

IW == INSTANCE ImageWatch

images  == <<onDisk, written, watchOf, nextWd, dirWatched, inotifyQ, input, batch,
             pending, toClean, imageIds, sessionImageBatch, sessionimage, ignoreFS,
             owed, script, faults, alive, pc, reports, unacked, late, unseen>>
client  == <<socket, nsent>>
session == <<open, properlyClosed, watchVariables, running>>
console == <<ignoreOutput, captureStdOut, consoleOutBuffer, stdOutCapture>>
loop    == <<timers, active>>
rvars   == <<env, lastVars, cwd, rdata, savedEnv>>
history == <<thrown, spans, rops, mishaps>>
rest    == <<client, session, currentQueryId, console, loop, cur, rvars,
             outbox, history>>
vars    == <<images, rest>>

Commands == 1 .. MaxCommands
NoCommand == [op |-> "none", id |-> 0, delta |-> FALSE]

\* The span of a command that evaluates nothing.
NotRun == <<-1, -1>>

NoFile == -1

\* Timers and active events.
InotifyEvent == [kind |-> "inotify", id |-> 0, file |-> FALSE]
NoQueryId(c, f) == [kind |-> "ack", id |-> 0, file |-> f]        \* mutant
AckTimer(c, f) == [kind |-> "ack", id |-> c, file |-> f]
DeltaTimer(c) == [kind |-> "delta", id |-> c, file |-> FALSE]

\* A message to the client.  by: the command on whose behalf it is sent; text:
\* the commands whose output it carries; from, to: environments it compares.
Msg(m, by, q) == [msg |-> m, by |-> by, q |-> q, text |-> {}, from |-> 0, to |-> 0]

Init ==
  /\ IW!Init
  /\ socket = <<>> /\ nsent = 0
  /\ open = FALSE /\ properlyClosed = FALSE /\ watchVariables = FALSE
  /\ running = TRUE
  /\ currentQueryId = 0
  /\ ignoreOutput = FALSE /\ captureStdOut = FALSE
  /\ consoleOutBuffer = {} /\ stdOutCapture = {}
  /\ timers = <<>> /\ active = <<>>
  /\ cur = NoCommand
  /\ env = 0 /\ lastVars = 0 /\ cwd = "work" /\ rdata = NoFile /\ savedEnv = 0
  /\ outbox = <<>>
  /\ thrown = {}
  /\ spans = [c \in Commands |-> NotRun]
  /\ rops = 0 /\ mishaps = 0

-----------------------------------------------------------------------------
(* Shared parts of the handlers. *)

\* A poll finds nothing of priority 0, so lower priorities may run.
TimersNotFirst ==                                    \* mutant
  pc = "idle" /\ alive /\ running /\ active = <<>> /\ inotifyQ = <<>>
LoopQuiet ==
  /\ pc = "idle" /\ alive /\ running
  /\ active = <<>> /\ timers = <<>> /\ inotifyQ = <<>>

Send(msgs) == outbox' = outbox \o msgs
Reply(c, m) == Send(<<Msg(m, c.id, 0)>>)

\* formatErrorAsJson is handed `true' as the queryId of a caught exception.
CaughtError(c) == <<Msg("error", c.id, 1)>>

\* handleCommand notes the command's queryId before it dispatches.
KeepsQueryId(c) == UNCHANGED currentQueryId          \* mutant
SetsQueryId(c) == currentQueryId' = c.id

\* handleJsonCommand ends normally.
Returns == currentQueryId' = 0 /\ UNCHANGED <<thrown, mishaps>>

\* The handler throws.  A runtime_error is caught and answered; any other
\* exception is logged by handleJsonStatic, and currentQueryId stays.
Mishap(c) ==
  /\ mishaps < MaxMishaps
  /\ mishaps' = mishaps + 1
  /\ thrown' = thrown \cup {c.id}
Throws(c) == Mishap(c) /\ currentQueryId' = 0 /\ Send(CaughtError(c))
Escapes(c) == Mishap(c) /\ currentQueryId' = c.id /\ UNCHANGED outbox

\* flushOutputBuffer and sendOutputBufferToClient: the text in the buffer goes
\* out as a results message, if there is any, before what is sent next.
BufferedText ==
  IF consoleOutBuffer = {} THEN <<>>
  ELSE <<[Msg("results", cur.id, currentQueryId) EXCEPT !.text = consoleOutBuffer]>>
SendUncleared(next) ==                               \* mutant
  Send(BufferedText \o next) /\ UNCHANGED consoleOutBuffer
FlushAndSend(next) ==
  /\ Send(BufferedText \o next)
  /\ consoleOutBuffer' = {}

\* handleExecuteScript and executeFile remember the environment before they
\* evaluate, when a delta will be asked for.
NoCapture(watched) == UNCHANGED lastVars             \* mutant
CaptureEnvironment(watched) == lastVars' = IF watched THEN env ELSE lastVars

\* The buffers do not change in handlers that evaluate nothing; a call of
\* getExecuteCallback leaves ignoreOutput off.
QuietConsole ==
  /\ ignoreOutput' \in {ignoreOutput, FALSE}
  /\ UNCHANGED <<captureStdOut, consoleOutBuffer, stdOutCapture>>

-----------------------------------------------------------------------------
(* The client. *)

ClientSend(op) ==
  /\ nsent < MaxCommands
  /\ nsent' = nsent + 1
  /\ socket' = Append(socket, [op |-> op, id |-> nsent + 1])
  /\ UNCHANGED <<images, session, currentQueryId, console, loop, cur, rvars,
                 outbox, history>>

-----------------------------------------------------------------------------
(* Commands handled in one go. *)

\* handleOpenCommand.  The new directory has the .RData of the database, if there
\* is one.  A runtime_error is reported by the handler itself; a FormattedException
\* of setupInotify escapes it.
HandleOpen(c) ==
  /\ UNCHANGED <<images, properlyClosed, watchVariables, running, loop, cur, env,
                 lastVars, cwd, savedEnv, spans, rops, captureStdOut,
                 consoleOutBuffer, stdOutCapture>>
  /\ IF open
     THEN UNCHANGED <<open, ignoreOutput, currentQueryId, rdata, outbox, thrown, mishaps>>
     ELSE /\ rdata' \in {NoFile, savedEnv}
          /\ \/ /\ open' = TRUE /\ ignoreOutput' = FALSE
                /\ Reply(c, "openresponse") /\ Returns
             \/ /\ Mishap(c) /\ Reply(c, "openfailed") /\ currentQueryId' = 0
                /\ UNCHANGED <<open, ignoreOutput>>
             \/ /\ Mishap(c)
                /\ UNCHANGED <<open, ignoreOutput, outbox, currentQueryId>>

\* handleSaveEnvCommand: save.image() writes .RData in R's working directory, and
\* DBFileSource::saveRData commits the one in the session's, if there is one.
WritesImage == rdata' = IF cwd = "work" THEN env ELSE rdata
CommitsFile == savedEnv' = IF rdata' = NoFile THEN savedEnv ELSE rdata'

CommitsFirst(c) ==                                   \* mutant
  /\ savedEnv' = IF rdata = NoFile THEN savedEnv ELSE rdata
  /\ WritesImage /\ Returns
SaveEnv(c) ==
  \/ WritesImage /\ CommitsFile /\ Returns
  \* save.image() failed, or the table lock was refused: a silent return
  \/ /\ Mishap(c) /\ currentQueryId' = 0
     /\ \/ UNCHANGED rdata /\ CommitsFile
        \/ WritesImage /\ UNCHANGED savedEnv
SaveEnvThrows(c) ==
  /\ Mishap(c) /\ currentQueryId' = c.id
  /\ WritesImage /\ UNCHANGED savedEnv

HandleSaveEnv(c) ==
  /\ SaveEnv(c) \/ SaveEnvThrows(c)
  /\ UNCHANGED <<images, session, console, loop, cur, env, lastVars, cwd, outbox,
                 spans, rops>>

\* handleCloseCommand: properlyClosed is set first, the loop is broken last.
HandleClose(c) ==
  /\ UNCHANGED <<images, open, watchVariables, console, loop, cur, env, lastVars,
                 cwd, outbox, spans, rops>>
  /\ properlyClosed' = TRUE
  /\ IF properlyClosed
     THEN Returns /\ UNCHANGED <<running, rdata, savedEnv>>
     ELSE \/ SaveEnv(c) /\ running' = FALSE
          \/ SaveEnvThrows(c) /\ UNCHANGED running

HandleClearFileChanges(c) ==
  /\ IW!ResetOnly
  /\ Returns
  /\ UNCHANGED <<session, console, loop, cur, rvars, outbox, spans, rops>>

\* executeFile of a file that is not in filesById_.
HandleUnknownFile(c) ==
  /\ Send(<<Msg("error", c.id, c.id)>>)
  /\ Returns
  /\ UNCHANGED <<images, session, console, loop, cur, rvars, spans, rops>>

\* executeFile of a file with another extension, or one whose scratch directory
\* cannot be made: resetWatch and captureEnvironment come before.
HandleFileNotRun(c) ==
  /\ IW!ResetOnly
  /\ CaptureEnvironment(watchVariables)
  /\ IF c.op = "execOther"
     THEN Send(<<Msg("error", c.id, c.id)>>) /\ Returns
     ELSE c.op \in {"execRmd", "execRnw"} /\ Throws(c)
  /\ UNCHANGED <<session, console, loop, cur, env, cwd, rdata, savedEnv, spans, rops>>

\* handleHelpCommand: output is off for the evaluation.  A runtime_error ends
\* it without a reply; another exception leaves the output off.
HandleHelp(c) ==
  /\ \/ Reply(c, "help") /\ Returns /\ ignoreOutput' = FALSE
     \/ Mishap(c) /\ currentQueryId' = 0 /\ ignoreOutput' = FALSE /\ UNCHANGED outbox
     \/ Escapes(c) /\ ignoreOutput' = TRUE
  /\ UNCHANGED <<captureStdOut, consoleOutBuffer, stdOutCapture>>
  /\ UNCHANGED <<images, session, loop, cur, rvars, spans, rops>>

VariableList(c) == Msg("variableupdate", c.id, 0)
VariableDelta(id) ==
  [Msg("delta", id, 0) EXCEPT !.from = lastVars, !.to = env]

\* handleListVariablesCommand, handleGetVariableCommand.
HandleVariables(c) ==
  /\ \/ c.op = "list" /\ Send(<<VariableList(c)>>) /\ Returns
     \/ c.op = "listDelta" /\ Send(<<VariableDelta(c.id)>>) /\ Returns
     \/ c.op = "getVariable" /\ Reply(c, "variablevalue") /\ Returns
     \/ Escapes(c)
  /\ QuietConsole
  /\ UNCHANGED <<images, session, loop, cur, rvars, spans, rops>>

\* toggleVariableWatch
HandleToggle(c) ==
  /\ watchVariables' = (c.op = "watchOn")
  /\ IF watchVariables'
     THEN \/ Send(<<VariableList(c)>>) /\ Returns
          \/ Escapes(c)
     ELSE UNCHANGED outbox /\ Returns
  /\ QuietConsole
  /\ UNCHANGED <<images, open, properlyClosed, running, loop, cur, rvars, spans, rops>>

\* An argument that is not a string: the accessor throws.
HandleBadArgument(c) ==
  /\ Escapes(c)
  /\ UNCHANGED <<images, session, console, loop, cur, rvars, spans, rops>>

\* "R not open", and the default case of handleCommand.
HandleIgnored(c) ==
  /\ Returns
  /\ UNCHANGED <<images, session, console, loop, cur, rvars, outbox, spans, rops>>

-----------------------------------------------------------------------------
(* Evaluations: handleExecuteScript, executeFile, executeRMarkdown,          *)
(* executeSweave.  A handler runs to its end before the loop does anything   *)
(* else; the effects of the R code are steps between its start and its end.  *)

StartEval(c) ==
  /\ IW!StartScript
  /\ cur' = [op |-> c.op, id |-> c.id,
             delta |-> watchVariables \/ c.op = "execWatch"]
  /\ CaptureEnvironment(cur'.delta)
  /\ SetsQueryId(c)
  /\ spans' = [spans EXCEPT ![c.id] = <<env, env>>]
  /\ captureStdOut' = (c.op = "execRmd" \/ captureStdOut)
  /\ ignoreOutput' = (c.op = "execRmd" \/ ignoreOutput)
  /\ cwd' = CASE c.op = "execRmd" -> "tmp"
              [] c.op = "execRnw" -> "scratch"
              [] OTHER -> cwd
  /\ UNCHANGED <<session, consoleOutBuffer, stdOutCapture, loop, env, rdata, savedEnv,
                 outbox, thrown, rops, mishaps>>

Evaluating == pc = "script"

REffect ==
  /\ Evaluating
  /\ rops < MaxROps
  /\ rops' = rops + 1
  /\ UNCHANGED <<client, session, currentQueryId, ignoreOutput, captureStdOut,
                 loop, cur, lastVars, rdata, savedEnv, thrown, mishaps>>

\* consoleCallback with text for stdout, when R_Visible or sourceInProgress
\* lets it through.
RPrint ==
  /\ REffect
  /\ IF captureStdOut
     THEN /\ stdOutCapture' = stdOutCapture \cup {cur.id}
          /\ UNCHANGED consoleOutBuffer
     ELSE /\ ~ignoreOutput
          /\ consoleOutBuffer' = consoleOutBuffer \cup {cur.id}
          /\ UNCHANGED stdOutCapture
  /\ UNCHANGED <<images, env, cwd, outbox, spans>>

\* consoleCallback with text for stderr: sent at once.
RWarn ==
  /\ REffect
  /\ ~captureStdOut /\ ~ignoreOutput
  /\ Send(<<[Msg("results", cur.id, currentQueryId) EXCEPT !.text = {cur.id}]>>)
  /\ UNCHANGED <<images, env, cwd, spans, consoleOutBuffer, stdOutCapture>>

RAssign ==
  /\ REffect
  /\ env' = env + 1
  /\ spans' = [spans EXCEPT ![cur.id][2] = env + 1]
  /\ UNCHANGED <<images, cwd, outbox, consoleOutBuffer, stdOutCapture>>

\* setwd
RChangeDir ==
  /\ REffect
  /\ cwd' \in {"work", "other"} \ {cwd}
  /\ UNCHANGED <<images, env, outbox, spans, consoleOutBuffer, stdOutCapture>>

\* The plots of scripts appear in R's working directory, which is not the
\* session's after a document that failed, or after setwd.
RWriteFile ==
  /\ REffect
  /\ \/ IW!TouchFile
     \/ /\ cwd = "work"
        /\ \E i \in Images : IW!Draw(i) \/ IW!OpenPage(i) \/ IW!RemoveImage(i)
  /\ UNCHANGED <<env, cwd, outbox, spans, consoleOutBuffer, stdOutCapture>>

\* What scheduleExecCompleteAcknowledgmenet and scheduleDelayedCommand add.
NeverAdded(file, delta) ==                           \* mutant
  timers' = timers \o (IF delta THEN <<DeltaTimer(cur.id)>> ELSE <<>>)
DeltaFirst(file, delta) ==                           \* mutant
  timers' = timers \o (IF delta THEN <<DeltaTimer(cur.id)>> ELSE <<>>)
                   \o <<AckTimer(cur.id, file)>>
Acknowledge(file, delta) ==
  timers' = timers \o <<AckTimer(cur.id, file)>>
                   \o (IF delta THEN <<DeltaTimer(cur.id)>> ELSE <<>>)

EndEval ==
  /\ Evaluating
  /\ cur' = NoCommand
  /\ UNCHANGED <<client, session, active, env, lastVars, rdata, savedEnv, spans, rops>>

\* handleExecuteScript after parseEvalR.
EndExecScript(result) ==
  /\ cur.op \in {"execScript", "execWatch"}
  /\ EndEval
  /\ Returns
  /\ FlushAndSend(
       IF result = "incomplete"
       THEN <<[Msg("results", cur.id, currentQueryId) EXCEPT !.text = {cur.id}]>>
       ELSE <<>>)
  /\ ignoreOutput' = FALSE
  /\ IF result = "success" THEN Acknowledge(FALSE, cur.delta) ELSE UNCHANGED timers
  /\ IW!EndScript(result = "success", FALSE)
  /\ UNCHANGED <<captureStdOut, stdOutCapture, cwd>>

\* executeFile of an R script: acknowledged whatever R made of it.
EndSource ==
  /\ cur.op = "execR"
  /\ EndEval
  /\ Returns
  /\ FlushAndSend(<<>>)
  /\ ignoreOutput' = FALSE
  /\ Acknowledge(FALSE, cur.delta)
  /\ IW!EndScript(TRUE, FALSE)
  /\ UNCHANGED <<captureStdOut, stdOutCapture, cwd>>

\* What getExecuteCallback and executeRMarkdown do when render returns.
ForgetsOutput == captureStdOut' = FALSE /\ UNCHANGED ignoreOutput    \* mutant
EndsCapture == captureStdOut' = FALSE /\ ignoreOutput' = FALSE

\* executeRMarkdown after render.  stdOutCapture is never cleared.
EndRender ==
  /\ cur.op = "execRmd"
  /\ EndEval
  /\ EndsCapture
  /\ \/ \* the html was copied and its file found or added
        /\ FlushAndSend(<<>>) /\ Returns
        /\ cwd' = "work"
        /\ Acknowledge(TRUE, FALSE)
        /\ IW!EndScript(TRUE, TRUE)
     \/ \* no html
        /\ FlushAndSend(<<[Msg("error", cur.id, currentQueryId)
                              EXCEPT !.text = stdOutCapture]>>)
        /\ Returns
        /\ cwd' = "work"
        /\ IW!EndScript(FALSE, FALSE) /\ UNCHANGED timers
     \/ \* copying the html throws filesystem_error, or adding it a DBException
        /\ Mishap(cur) /\ FlushAndSend(CaughtError(cur))
        /\ currentQueryId' = 0
        /\ cwd' \in {cwd, "work"}
        /\ \E copied \in BOOLEAN : IW!EndScript(FALSE, copied)
        /\ UNCHANGED timers
     \/ \* adding it throws FormattedException
        /\ Mishap(cur) /\ FlushAndSend(<<>>) /\ currentQueryId' = cur.id
        /\ cwd' = "work"
        /\ IW!EndScript(FALSE, TRUE) /\ UNCHANGED timers
  /\ UNCHANGED stdOutCapture

\* executeSweave after Sweave.
EndSweave ==
  /\ cur.op = "execRnw"
  /\ EndEval
  /\ \/ \* Sweave failed: the directory is not restored
        /\ FlushAndSend(<<>>) /\ Returns
        /\ Acknowledge(FALSE, FALSE)
        /\ IW!EndScript(TRUE, FALSE)
        /\ UNCHANGED <<cwd, ignoreOutput>>
     \/ \* the pdf was made, or it was not
        /\ \E pdf, copied \in BOOLEAN :
             /\ pdf => copied    \* without a pdf, the log may be copied
             /\ Acknowledge(pdf, FALSE)
             /\ IW!EndScript(TRUE, copied)
        /\ FlushAndSend(<<>>) /\ Returns
        /\ ignoreOutput' = FALSE
        /\ cwd' = "work"
     \/ \* copying or adding the pdf throws: nothing is flushed or restored
        /\ \/ Throws(cur)
           \/ Escapes(cur)
        /\ \E copied \in BOOLEAN : IW!EndScript(FALSE, copied)
        /\ ignoreOutput' = FALSE
        /\ UNCHANGED <<consoleOutBuffer, cwd, timers>>
  /\ UNCHANGED <<captureStdOut, stdOutCapture>>

-----------------------------------------------------------------------------
(* handleJsonStatic, handleJsonCommand and handleCommand. *)

HandleOpened(c) ==
  \/ c.op = "close" /\ HandleClose(c)
  \/ c.op = "saveEnv" /\ HandleSaveEnv(c)
  \/ c.op = "clearFileChanges" /\ HandleClearFileChanges(c)
  \/ c.op \in EvalOps /\ StartEval(c)
  \/ c.op \in {"execOther", "execRmd", "execRnw"} /\ HandleFileNotRun(c)
  \/ c.op = "execUnknownId" /\ HandleUnknownFile(c)
  \/ c.op = "help" /\ HandleHelp(c)
  \/ c.op \in {"list", "listDelta", "getVariable"} /\ HandleVariables(c)
  \/ c.op \in {"watchOn", "watchOff"} /\ HandleToggle(c)
  \/ c.op = "badArgument" /\ HandleBadArgument(c)
  \/ c.op = "ignored" /\ HandleIgnored(c)

HandleCommand(c) ==
  \/ c.op = "open" /\ HandleOpen(c)
  \/ c.op # "open" /\ ~open /\ HandleIgnored(c)
  \/ c.op # "open" /\ open /\ HandleOpened(c)

\* The JsonCommand constructor assigns _type only for the names it knows: for
\* any other name the type is whatever the memory held.
TypesOf(c) ==
  IF c.op = "unknown" THEN {[c EXCEPT !.op = t] : t \in UnknownAs \cup {"ignored"}}
                      ELSE {c}

\* The bytes in the socket are drained, but only one message comes out of them
\* (see InputBuffer): the commands before it and after it may be lost.
ClientRead ==
  /\ LoopQuiet
  /\ \E j \in 1 .. Len(socket) :
       /\ socket' = SubSeq(socket, j + 1, Len(socket))
       /\ \E c \in TypesOf(socket[j]) : HandleCommand(c)
  /\ UNCHANGED nsent

-----------------------------------------------------------------------------
(* The event loop. *)

\* What a poll activates: the descriptor first, then the expired timers.
InotifyReady == IF inotifyQ # <<>> THEN <<InotifyEvent>> ELSE <<>>
TimersFirst == timers \o InotifyReady                \* mutant
ReadyEvents == InotifyReady \o timers

Poll ==
  /\ pc = "idle" /\ alive /\ running
  /\ active = <<>>
  /\ timers # <<>> \/ inotifyQ # <<>>
  /\ active' = ReadyEvents
  /\ timers' = <<>>
  /\ UNCHANGED <<images, client, session, currentQueryId, console, cur, rvars,
                 outbox, history>>

ActiveIs(kind) == active # <<>> /\ Head(active).kind = kind
Deactivate == active' = Tail(active) /\ UNCHANGED timers

\* FileManager::handleInotifyEvent
RunInotify ==
  /\ ActiveIs("inotify") /\ pc = "idle"
  /\ \/ IW!DropInotify /\ Deactivate
     \/ IW!ReadInotify /\ UNCHANGED loop
  /\ UNCHANGED <<client, session, currentQueryId, console, cur, rvars, outbox, history>>

InotifyStep ==
  /\ pc = "inotify"
  /\ \/ /\ \/ IW!StartImageWatch \/ IW!InsertClosedImage
           \/ IW!InsertClosedImageFails \/ IW!CloseOfUnknown \/ IW!SkipEvent
           \/ IW!LoneHeader \/ IW!ParseCutName
        /\ UNCHANGED loop
     \/ IW!EndInotify /\ Deactivate
  /\ UNCHANGED <<client, session, currentQueryId, console, cur, rvars, outbox, history>>

\* handleExecComplete: acknowledgeExecComplete cleans up the images first.
RunAck ==
  /\ ActiveIs("ack") /\ pc = "idle"
  /\ IW!StartAck
  /\ UNCHANGED rest

CleanupStep ==
  /\ \E p \in toClean : IW!CleanupOne(p) \/ IW!CleanupThrows(p)
  /\ UNCHANGED rest

FinishAck ==
  LET a == Head(active) IN
  /\ ActiveIs("ack") /\ pc = "cleanup"
  /\ IW!EndAck
  /\ Send(<<Msg("execComplete", a.id, a.id)>> \o
          IF a.file THEN <<Msg("showoutput", a.id, 0)>> ELSE <<>>)
  /\ Deactivate
  /\ UNCHANGED <<client, session, currentQueryId, console, cur, rvars, history>>

\* handleDelayedCommand, with a listVariables message.
RunDelta ==
  /\ ActiveIs("delta") /\ pc = "idle" /\ alive
  /\ Deactivate
  /\ \/ /\ Send(<<VariableDelta(Head(active).id)>>)
        /\ currentQueryId' = 0
        /\ QuietConsole
        /\ UNCHANGED images
     \/ /\ IW!AbortElsewhere
        /\ UNCHANGED <<outbox, currentQueryId, console>>
  /\ UNCHANGED <<client, session, cur, rvars, history>>

\* Priority 2.
IgnoreTimer ==
  /\ LoopQuiet
  /\ IW!IgnoreOff
  /\ UNCHANGED rest

DBNotify ==
  /\ Notified
  /\ LoopQuiet /\ open
  /\ IW!HandlesNotifications
  /\ UNCHANGED rest

RStep ==
  \/ RPrint \/ RWarn \/ RAssign \/ RChangeDir \/ RWriteFile
  \/ \E result \in {"success", "incomplete", "error"} : EndExecScript(result)
  \/ EndSource \/ EndRender \/ EndSweave

LoopStep == Poll \/ RunInotify \/ InotifyStep \/ RunAck \/ CleanupStep
            \/ FinishAck \/ RunDelta

Next ==
  \/ \E op \in ClientOps : ClientSend(op)
  \/ ClientRead
  \/ RStep
  \/ LoopStep
  \/ IgnoreTimer
  \/ DBNotify

Spec == Init /\ [][Next]_vars

\* The loop runs what is ready.  Nothing is assumed of the client, of R, whose
\* code may run for ever, or of priority 2.
FairSpec == Spec /\ WF_vars(LoopStep)

-----------------------------------------------------------------------------
(* Properties *)

Messages == [msg: {"openresponse", "openfailed", "results", "execComplete",
                   "showoutput", "variableupdate", "delta", "variablevalue",
                   "help", "error"},
             by: Commands, q: 0 .. MaxCommands, text: SUBSET Commands,
             from: 0 .. MaxROps, to: 0 .. MaxROps]
LoopEvents == [kind: {"inotify", "ack", "delta"}, id: 0 .. MaxCommands, file: BOOLEAN]

TypeOK ==
  /\ IW!TypeOK
  /\ socket \in Seq([op: Ops, id: Commands])
  /\ nsent \in 0 .. MaxCommands
  /\ {open, properlyClosed, watchVariables, running, ignoreOutput,
      captureStdOut} \subseteq BOOLEAN
  /\ currentQueryId \in 0 .. MaxCommands
  /\ consoleOutBuffer \subseteq Commands /\ stdOutCapture \subseteq Commands
  /\ timers \in Seq(LoopEvents) /\ active \in Seq(LoopEvents)
  /\ cur = NoCommand \/ cur \in [op: EvalOps, id: Commands, delta: BOOLEAN]
  /\ env \in 0 .. MaxROps /\ lastVars \in 0 .. env /\ savedEnv \in 0 .. env
  /\ rdata \in {NoFile} \cup 0 .. env
  /\ cwd \in {"work", "tmp", "scratch", "other"}
  /\ outbox \in Seq(Messages)
  /\ thrown \subseteq Commands

\* The loop starts scripts and handles notifications only when nothing is owed
\* to a script, and acknowledges one only after its events were read, or after
\* a read that was full: what ImageWatch, and so every theorem about it, asks of
\* its caller.
LoopKeepsImageContract == IW!Spec

\* The client hears about commands one after the other: whatever a command
\* causes, its acknowledgement and its delta included, is sent before anything
\* is sent for a later command, although both come from timers.
RepliesInOrder ==
  \A m, n \in 1 .. Len(outbox) : m < n => outbox[m].by <= outbox[n].by

\* Console text carries the queryId of the command that printed it, unless that
\* command's handler threw before the buffer was sent.
OutputTagged ==
  \A n \in 1 .. Len(outbox) : outbox[n].msg = "results" =>
    \A c \in outbox[n].text : c = outbox[n].q \/ c \in thrown

\* A command is acknowledged once, after all of its output; only its file and
\* its delta follow.
OutputBeforeAck ==
  \A m, n \in 1 .. Len(outbox) :
    (m < n /\ outbox[m].msg = "execComplete") =>
      /\ outbox[n].msg = "results" => outbox[m].by \notin outbox[n].text
      /\ outbox[n].by = outbox[m].by => outbox[n].msg \in {"showoutput", "delta"}

\* The delta sent after an evaluation spans exactly that evaluation: from the
\* environment it started with to the one it ended with.
DeltaSpansEvaluation ==
  \A n \in 1 .. Len(outbox) :
    (outbox[n].msg = "delta" /\ spans[outbox[n].by] # NotRun) =>
      <<outbox[n].from, outbox[n].to>> = spans[outbox[n].by]

\* Between handlers the console is as a handler expects it, unless one threw:
\* output is neither swallowed nor captured, and none waits in the buffer.
ConsoleRestored ==
  (pc = "idle" /\ thrown = {}) =>
    ~ignoreOutput /\ ~captureStdOut /\ consoleOutBuffer = {}

\* Unless a step fails, a close command ends the loop, and with R in the
\* session's directory the environment of that moment is in the database.
\* Elsewhere, after a Sweave that failed or a setwd, what an earlier save left in
\* the session's directory is committed again.
CloseSaves ==
  (properlyClosed /\ thrown = {}) =>
    /\ ~running
    /\ cwd = "work" => savedEnv = env
    /\ cwd # "work" => rdata \in {NoFile, savedEnv}

\* At most one acknowledgement is scheduled, and exactly when ImageWatch owes
\* one; it is never behind a delayed command.
AckScheduled ==
  LET q == active \o timers
      acks == {n \in 1 .. Len(q) : q[n].kind = "ack"}
  IN  /\ Cardinality(acks) = (IF owed # 0 THEN 1 ELSE 0)
      /\ \A n \in acks : \A m \in 1 .. n - 1 : q[m].kind = "inotify"

\* Every scheduled acknowledgement is sent, unless the process dies first: no
\* stream of commands, file events or notifications starves the timer.
AckSent == owed # 0 ~> (owed = 0 \/ ~alive)

\* RSession.cpp:392 logs "unknown command type" for a message it does not
\* know, and compute-api.md:3 lists the acceptable ones: reading any other
\* changes nothing.
UnknownIgnored ==
  [][\A c \in {socket[j] : j \in 1 .. Len(socket)} :
       (c.op = "unknown" /\ socket' = <<>> /\ Len(socket) = 1)
         => UNCHANGED <<session, cur, outbox>>]_vars
=============================================================================
