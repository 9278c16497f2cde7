# A TLA+ model of rc2compute

rc2compute is the R back end of rc2: `rserver` listens for clients and executes
one `rsession` process for each; `rsession` embeds R, reads JSON commands from
the client's socket, evaluates R code, and sends results, images and files back.
Files and images are shared through a PostgreSQL database. This directory holds
TLA+ specifications of the parts of it that depend on the order of events, the
TLC configurations that check them, and proofs of the theorems that hold for
every value of their constants. Paths below are relative to the repository.

## 1. Inventory

| component | source | state it keeps | operations | specification |
|---|---|---|---|---|
| session process | `src/RSession.cpp`, `src/JsonCommand.hpp` | open / closed, `currentQueryId`, console buffers and flags, scheduled timers, R's environment and directory | ten commands; `source`, R Markdown and Sweave files; acknowledgement and delayed-command timers; console callback | `RSession`, `RSessionProofs` |
| image collection | `src/FileManager.cpp` | pending images by watch descriptor, ids and batch of the current script, ignore window | inotify handler, `cleanupImageWatch`, `insertImage`, `resetWatch`, `checkWatch`, ignore timer | `ImageWatch`, `ImageWatchProofs` |
| file synchronisation | `src/FileManager.cpp`, `src/DBFileSource.cpp` | `filesById_`, `filesByWatchDesc_`, files on disk, rows of rcfile and rcfiledata | inotify handler, database notifications, insert / update / remove / load, `findOrAddFile`, `saveRData` | `FileSync`, `FileSyncProofs`, `FileSyncWatchProofs`; `saveRData`'s outcomes are in `RSession` |
| framing of commands | `src/InputBufferManager.cpp` | bytes collected, current message | `appendData`, `popCurrentMessage`, `reset` | `InputBuffer`, `FrameChannel`, `InputBufferProofs` |
| listener | `src/RServer.cpp` | listening socket, descriptors of the accepted clients | `handleEvent`: accept, fork, execve | `RServer`, `RServerProofs` |
| environment watcher | `src/EnvironmentWatcher.cpp` | the variables of the last capture | capture, delta, listing, conversion of R values to JSON | `EnvDelta`, `EnvDeltaProofs`, `EnvValues`; in `RSession` by versions |
| command line | `tclap/*.h`, `src/RServer.cpp`, `src/RSession.cpp` | the list of arguments, what each was given, `ignoreRest` | add, xorAdd, parse, reset, one `processArg` for each kind of argument | `CommandLine`, `CommandLineProofs` |
| database wrapper | `common/PGDBConnection.*`, `common/PostgresUtils.hpp` | connection, open transaction, notifications not yet handed out | query, commit, rollback, notifications | in `FileSync`; elsewhere as outcomes of statements |
| utilities, logging, exceptions | `common/RC2Utils.*`, ... | none | paths, UUIDs, file reading | not modelled |
| `EventBase`, `Event` | `common/Event*.cpp` | - | - | not compiled, not modelled |

### How they interact

`rserver` hands a socket's descriptor number to `rsession` as `-s`. In the
session everything runs in one thread on libevent's loop, at three priorities:

* 0: the inotify descriptor (`FileManager.cpp:362-366`), and the one-shot 1 us
  timers of the acknowledgement and of the delayed `listVariables`
  (`RSession.cpp:180-199`);
* 1: the client's socket, whose callback frames and dispatches one command;
* 2: the database connection's notifications (`FileManager.cpp:486-489`) and
  the 5 ms timer that ends the ignoring of file-system events (`:314-329`).

A command that evaluates R code runs to its end inside the socket callback.
Meanwhile the kernel queues inotify events for what R writes. The handler
schedules the acknowledgement and returns; the loop reads the inotify events
first, then runs the acknowledgement, which inserts the images still pending
and reports the ids collected. Handlers that change the directory themselves
turn on `ignoreFSNotifications_`, and the inotify handler drops what it reads
while that is on.

### What is hard, and what makes each component correct

* **Image collection**: three clocks (R's writes, the reading of events, the
  ignore window) and state that is cleared by a different handler from the one
  that reports it. Correct: every image reported once, with its batch, with its
  script; no crash; no image lost without a named cause.
* **Session**: replies come from handlers and from timers; exceptions leave
  handlers in four ways. Correct: replies in order of commands, text under the
  query that printed it and before its acknowledgement, deltas that span their
  evaluation, console flags restored, closing saves, acknowledgements sent.
* **Framing**: reads cut the stream anywhere. Correct: whole messages, in order,
  at most once, and none lost for a client that waits.
* **Listener**: forked tables of descriptors. Correct: one reader per client, a
  refused client is hung up, the server can go on serving.
* **File synchronisation**: two writers, two notification channels, two
  in-memory indexes. Correct: table, directory and database agree once nothing
  is pending, both indexes lead to each other, a version is never lost, a
  session does not react to its own changes.
* **Environment watcher**: what is compared is remembered by one command and
  reported by a timer of another, and values are references that may be shared,
  changed in place or contain themselves. Correct: a delta is the difference, a
  client that follows it is right, a value is written completely.
* **Command line**: one word may belong to several switches, and required
  arguments are counted instead of looked up. Correct: a line that is accepted
  gives every required argument, and no part of it is used twice or not at all.

`PROJECT.json` lists each hazard with its line and the properties that cover it.

## 2. Modules

| module | models | runs |
|---|---|---|
| `ImageWatch` | images from R's `png` device to `sessionimage` rows to `execComplete` | `ImageWatch.cfg`, `ImagesLost.cfg` (with `MCImageWatch`) |
| `ImageWatchProofs` | - | proofs |
| `RSession` | commands, evaluations, console, timers and loop, composed with `ImageWatch` | `SessionCommands.cfg`, `SessionImages.cfg`, `SessionUnknown.cfg` (with `MCRSession`) |
| `RSessionProofs` | - | proofs |
| `FileSync` | ordinary files between directory, file table and database | `FileSync.cfg`, `FilesOwnWrites.cfg` (with `MCFileSync`) |
| `FileSyncProofs` | - | proofs: types, table, versions, crashes |
| `FileSyncWatchProofs` | - | proofs: watches, directory |
| `CommandLineProofs` | - | proofs |
| `EnvDelta` | listings and deltas of R's global environment | `Environment.cfg` (with `MCEnvironment`) |
| `EnvDeltaProofs` | - | proofs |
| `EnvValues` | the recursion that writes a value as JSON | `Environment.cfg` (with `MCEnvironment`) |
| `CommandLine` | adding, parsing and resetting arguments | `CommandLine.cfg` (with `MCCommandLine`) |
| `InputBuffer` | bytes to messages | `InputBuffer.cfg` |
| `FrameChannel` | the channel of commands that `InputBuffer` implements | as a property of `InputBuffer.cfg` |
| `InputBufferProofs` | - | proofs |
| `RServer` | accept, fork, execve | `RServer.cfg`, `RServerExhausted.cfg` |
| `RServerProofs` | - | proofs |

Operators whose comment says *mutant* are wrong variants of the operator that
follows them. No specification uses them: `PROJECT.json` names the property
that fails when the variant takes the operator's place.

### ImageWatch

`pc` says which handler runs. *R's side*: `Draw`, `OpenPage`, `RemoveImage`,
`TouchFile` are what a script does to the directory, together with the events
the kernel queues for it (a directory event `IN_CREATE` only when the file is
new; `IN_CLOSE_WRITE` only for a watched file; equal neighbours merged).
*The session's side*: `ReadInotify` reads, and then one action per event:
`StartImageWatch`, `InsertClosedImage`, `InsertClosedImageFails`,
`CloseOfUnknown`, `SkipEvent`. `StartAck`, `CleanupOne`, `CleanupThrows`,
`EndAck` are `acknowledgeExecComplete`. `Insert` is the whole of `insertImage`:
the row, the id, the batch and the removal of the file.

A read is the code's (`Reads`): libevent moves some of the kernel's events behind
what `input` (the bufferevent) still holds, the handler takes `I_BUF_LEN` bytes of
that, and what is left waits until the kernel has more, the acknowledgement not.
How many events 2720 bytes hold depends on the names, so a read takes at least
`ReadMin` events and at most all; the constant stands for ten, the number the
buffer is made for. The last event may be cut behind its header: `LoneHeader` is
the header, `ParseCutName` the name that the next read begins with. The name's
bytes 12 to 15 are taken for a length, so that any number of the events behind it
are skipped, and what is found there may be a watch without an entry, a null
pointer, or, through a name that cannot be read, the end of the directory's own
watch (`dirWatched`).

A file is its name, the script that last finished it (0 while empty) and its
watch descriptor. Rows carry the batch and, as a history, the script. Three
histories name what the properties except: `unseen`, files the manager was never
told about (their events ignored, cut, skipped or never queued) or found empty;
`unacked`, scripts that ended without an acknowledgement; `late`, scripts after
which a read left events behind, or before which one had.
`BeginScript`, `BeginAck`, `ClearFileChanges` and `HandleDBNotifications` carry
what the module assumes of its caller.

### RSession

An action of `RSession` is a handler: `ClientRead` takes a command from the
socket and dispatches it as `handleJsonCommand` and `handleCommand` do. A
command that evaluates nothing is one step. An evaluation is a `StartEval`, any
number of effects of the R code (`RPrint`, `RWarn`, `RAssign`, `RChangeDir`,
`RWriteFile`) and an end (`EndExecScript`, `EndSource`, `EndRender`, `EndSweave`), all with
`pc = "script"`, so that nothing else runs between. `Poll`, `RunInotify`,
`InotifyStep`, `RunAck`, `CleanupStep`, `FinishAck`, `RunDelta` are the
priority-0 callbacks; `IgnoreTimer` and `DBNotify` have priority 2.

Exceptions follow the class hierarchy: `runtime_error` and its subclasses are
caught and answered by `handleJsonCommand` (`Throws`); `FormattedException`,
a `std::exception` only, is logged by `handleJsonStatic` without a reply
(`Escapes`); either one in a timer callback ends the process. The environment
is a version number that `RAssign` increments; deltas carry the two versions
they compare. Text is the set of commands that printed it.

Saving (`SaveEnv`) is two steps about two directories: `save.image()` writes
`.RData` where R is (`WritesImage`, only then in the session's directory when
`cwd` is `"work"`), and `saveRData` commits the `.RData` of the session's directory
(`CommitsFile`), whatever version that has (`rdata`). R is elsewhere after a
`setwd`, or after a Sweave that failed (`RSession.cpp:696-699`).

`ImageWatch`'s variables are variables here, each image-related step is the
`ImageWatch` action conjoined with what `RSession` does, and the guards of
`BeginScript`, `BeginAck`, `ClearFileChanges` and `HandleDBNotifications` are *not*
taken over: they are checked, as `LoopKeepsImageContract == IW!Spec`. So the loop's
priorities imply the contract and all that is proved of `ImageWatch` holds in the composition.

### FileSync

The variables are in three groups. *Outside the session*: `disk` and `watchOf`
(the working directory and the watches of its inodes), `rows`, `nextId` (the
database). *Between*: `kernelQ` (inotify events), `wire` (notifications on the
socket) and `notes` (those libpq has parsed). *Inside*: `filesById`, `byWd`
(`filesByWatchDesc_`), `manual`, `input` and `batch` (bytes of events), the
ignore window. Events are measured in units of 16 bytes, the size of an
`inotify_event` without a name, so that a read may cut one: its name is then read
as an event, as the code does. Bytes 12 to 15 of a name of up to 12 characters are
zero, and the next event is read (`CutName`). Those of a longer name, in
`LongNames`, are a length: `CutLongName` skips any part of the batch, after which
nothing may happen, a row may be refused for a file that does not exist, or the
session may crash on a watch that is not there (`misread`). Names that need a
second unit are left out, and so is that the misread bytes spell the number of a
live watch or the name of a file. A header whose name is behind the end of the read
is looked up by what is on the stack (`CreateSkipped`, `CreateFailed`).

`R` writes and removes files between `StartScript` and `EndScript`; `Others`
commits changes of rows at any time; `Inotify` and `Notifications` are the two
handlers, one action per event and per kind of notification, each with the
`DBFileSource` operation it calls. A transaction's statements run with the row
locked and nothing of the session between them, so each is one step: a commit or
a refusal. Every statement moves what is on the socket into libpq (`Absorb`).

Five history variables name the excuses the properties allow: `excused` (files
an event or change of which was lost: dropped in the ignore window, cut by a
read, refused by the database, committed before `listen`), `hastened` (rows
deleted while their insertion was still to be seen), `clobbered` (watch entries
erased under a file's id, or watches removed through an uninitialised
descriptor), `outrun` (files that a notification loaded or removed while an event
of R's about them lay in the bufferevent, left there by a read that was full:
`Outruns`), `misread` (long names that a read began with and that ended the
session). They are set where the code loses something and nowhere else.

### EnvDelta and EnvValues

`EnvDelta` keeps for each variable the object it is bound to and for each object
its value: `jsonDelta` compares addresses, so `Assign` and `ChangeInPlace`
differ. `client` is the copy a client builds from listings and deltas. `fresh`,
`base` and `behind` are histories of what a later delta will still report and
what none will. Among the last are the names that were captured with an object
that changes in place, even if they are bound to another one at that moment: a
script may bind them to it again, and the delta then compares equal addresses.

`EnvValues` is the recursion as a stack of calls over a heap of objects. It
keeps what makes it wrong: cycles through environments, the limit on children,
the reads past a vector's end (`FrameFaults`, `DimFaults`, `DateFaults`), each of
which may give anything or crash, and the exception of Rcpp's `Date` and `Datetime`
for what is not one number (`DateException`: every POSIXlt). `EnvDelta` is about
values that can be written: what a client does without a listing or a delta that
such a value prevents is not in it. The two modules share no variable; `MCEnvironment`
lets a behaviour be of the one or of the other, in one run.

### CommandLine

A word is a record (dashed letters, a dashed name, or text, with or without a
value behind a delimiter), and `(i, pos)` is the word and the argument it is
offered to: `SwitchArg`, `MultiSwitchArg`, `ValueArg`, `MultiArg`,
`UnlabeledValueArg` and `UnlabeledMultiArg` are the `processArg` functions,
`PassedOver` their early returns, `Took` what `CmdLine::parse` and
`XorHandler::check` do when one has returned true. `parseArgs` and
`parseArguments` are the arguments of rserver and rsession; the other programs
of `MCCommandLine` use the rest of the library, which neither program does.

### InputBuffer and FrameChannel

Headers keep their bytes and `Word` is `ntohl`, because a buffer that lost
alignment reads a length as a magic number (a text of 33 bytes, 0x21, does
that: the run includes it). `Receive(m)` reads any number of bytes and performs
`appendData`, `hasCompleteMessage` and `popCurrentMessage`, as `handleJsonStatic`
does after every read. That a message is never made of two frames is owed to that
order of calls: `appendData` adds to `_currentJson` (`InputBufferManager.cpp:41`), and
`tests/inputbuffer-t.cpp:39-53` appends two frames and expects one concatenated
text. The test uses the class as the session does not. The refinement maps
a frame to *in flight* while all of its bytes are in the wire or the buffer.

### RServer

A process is its table of descriptors; fork copies it and execve keeps it. The
listener, the standard streams and libevent's descriptors are left out of
`MaxFds`. `refused` are the clients whose fork failed, `over` those whose child has
ended or could not be executed: a failed `execve` (`RServer.cpp:103-106`) ends the
child, and the parent, which never closes what it gave away, leaves the client
connected to nobody.

## 3. Runs

| run | bounds | shows |
|---|---|---|
| `image_watch` | 2 images (symmetric), 2 scripts, 1 refused statement, 3 queued events, reads of at least 2 events | the invariants of `ImageWatch` |
| `images_lost` | 3 scripts, no refusals, reads of at least 3 events | *violation*: a script loses its images |
| `session_commands` | 4 commands of the kinds that say or evaluate something, 2 scripts, 2 effects of R code, 1 exception, no images, no notifications | the properties of replies, console and timers |
| `session_images` | `open`, `execScript`, an R noweb file and the commands that evaluate nothing, 3 commands, 2 scripts, 1 image, 3 effects of R code, 1 exception, 1 refused statement, reads of at least 1 event | `RSession` implements `ImageWatch`; acknowledgements are sent |
| `session_unknown` | `open` and one unknown message | *violation*: an unknown message is obeyed |
| `input_buffer` | 3 frames of 1 or 33 bytes, every cut | framing, and the refinement of `FrameChannel` with its liveness |
| `rserver` | 4 clients, 3 descriptors | one reader per client; who is connected is read, or its child is gone |
| `rserver_exhausted` | 3 clients, 2 descriptors | *violation*: the server stops serving |
| `file_sync` | 2 files, one with a long name, 1 write, 1 removal, 2 changes by another client, 2 scripts, 1 refused statement, reads of 2 units, the sequence at 2 | table, directory and database agree; a crash has a cause; versions grow; inotify first; notifications are processed |
| `files_own_writes` | 2 files, 1 write, 2 changes by another client | *violation*: the session takes its own write for R's |
| `environment` | 2 variables, 5 changes, 4 commands; every heap of 3 objects that R can build, at most 2 children written, 6 calls deep | clients' copies and deltas; JSON of values: complete, and endless only for a cycle |
| `command_line` | 8 programs, lines of up to 3 words, 2 lines parsed | what is accepted is complete, nothing is taken twice |

**Why the bounds are enough.** Two scripts are what it takes for an image to be
drawn, left behind or left pending by one and collected, redrawn or reported with
the other; two images distinguish batches and order. Three queued events and reads
of two are enough for a read that leaves events behind, whole or cut, before an
acknowledgement and before a script. The theorems hold for any bounds. The commands
left out of `session_commands` run `resetWatch` or nothing and are in
`session_images`, as are the notifications of the database, which share only the
ignore window and the queue of file events with commands. Sessions need `open`, one command that leaves something behind (a
timer, text, a flag, a captured environment), and two that could meet it. Two frames can
meet in a buffer, a third shows what the residue of a cut frame does. One
exception is enough because no handler recovers by means of another one.

File ids and watch descriptors must meet for an entry to be erased under the
wrong key, hence a sequence that stands at 2; in production they meet too, in a
young database. What a full read leaves in the bufferevent matters only if another
client's change of the same file is notified before the next read. That takes two
such changes and a read that ends between the events of one file, hence reads of
two units: without the exception of `outrun`, `DiskCoherent` fails with these
bounds. A read of two units also separates a create event from its name. Larger
instances run by hand (two writes and one foreign change with reads of three units;
three writes, two foreign changes and uncut reads, 18.8 million states) found
nothing more, and the theorems do not depend on the bounds. Three words are a flag, its value and
one that could be mistaken for either, and six calls exceed any heap of three
objects without a cycle. Five changes of variables are what it takes to make two
names share an object, part them, change it and bring them together again.

`CHECK_DEADLOCK FALSE` is in every configuration: clients may send nothing more,
a session ends after `close` or a crash, and the bounds stop the counters.

**Fairness.** `session_images` assumes `WF_vars(LoopStep)`: libevent runs a
callback that is ready at the highest priority. Nothing is assumed of clients,
of R (a script may run for ever: nothing is owed while it does) or of the
events of lower priority. `input_buffer` assumes that the loop reads a socket
that has bytes. `file_sync` assumes that what the loop has begun goes on: start-up,
the handler that is running, and scripts, which end.

**Assumption on time.** A 1 us timer set in a callback has expired when the loop
polls next. That is so with libevent 2.0 and any callback that takes a
microsecond; libevent 2.1 by default reads a coarse clock on Linux, with which a
short callback could be followed by a socket event before its timer. Two timers
of the same expiry are taken in the order they were added. `RepliesInOrder`,
`AckScheduled` and `LoopKeepsImageContract` rest on both.

### Findings

1. **Images lost in the ignore window** (`images_lost`). `handleInotifyEvent`
   drops what it reads for 5 ms after any handler that touched the directory or
   received any notification of the database, and the events of a script are
   read after it. A script that starts in the window loses its plots: they are
   not in its `execComplete`, although `tests/rsession-t.cpp:90` expects them,
   and the files that remain cause no `IN_CREATE` when they are drawn again.
   `LostOnlyIfUnseen` names the other ways: empty files, and what a read of
   `I_BUF_LEN` bytes cuts or skips.
2. **Unknown messages** (`session_unknown`). `JsonCommand` leaves `_type`
   uninitialised for a message it does not know.
3. **The listener's descriptors** (`rserver_exhausted`). The parent closes an
   accepted socket only when `fork` failed.

4. **Own writes taken for R's** (`files_own_writes`). A comment promises that
   events of higher priority are processed before ignoring ends
   (`FileManager.cpp:314-315`). The timer that ends it has the priority of the
   database notifications. When ignoring was already on, from an earlier event,
   `ignoreFSNotifications` sets no new timer; if the old one expires in the pass
   that handles a notification, ignoring ends right after the file was written
   and before its inotify events are read. The session commits a version nobody
   made, and other sessions load it.

### Observed while modelling

These are in the models as they are in the code; no text of the repository
promises otherwise.

* A script that removes an image while it is pending ends the session: the
  acknowledgement's `file_size` throws in a timer callback.
* `IN_CLOSE_WRITE` for a watch that is not pending dereferences a null pointer.
  `SurvivesAckedScripts` shows that this needs a script that was not
  acknowledged (an R error), a database failure or more events than a read takes.
* A script with more events than a read takes (85 of images, fewer of other files
  with long names) is acknowledged after the first read. Its other images are
  pending or read when the kernel next has an event, and reported with a later
  script.
* An event cut by the end of a read is parsed from the middle: its header looks for
  the name on the stack, and the bytes of its name are taken for a header with a
  length (`FileManager.cpp:442`), by which the events behind it are skipped.
* After a failed Sweave, or a `setwd` of the client's, `save.image()` writes
  elsewhere: closing commits the `.RData` of an earlier save, or none, without an
  error (`RSession.cpp:509`, `DBFileSource.cpp:82`).
* A client whose `execve` failed stays connected and is never read.
* Error replies to caught exceptions carry queryId 1: the third argument of
  `formatErrorAsJson` is the literal `true` (`RSession.cpp:426`).
* After an exception that escapes, `currentQueryId` is not reset; after one in
  help, output stays off until a later evaluation turns it on; after one in
  Sweave, buffered text goes out under a later command's queryId and R stays in
  the scratch directory.
* `properlyClosed` is set before the save: a session whose save failed cannot be
  closed by a command.
* `stdOutCapture` is never cleared (`RSession.cpp:650` assigns to
  `captureStdOut`), so an R Markdown error repeats earlier documents' output.
* R Markdown and Sweave evaluations never schedule a delta.
* Commands that reach the session in one read are lost but for the first.
* There is no callback for a client that disconnects: the session stays.
* `filesByWatchDesc_` is erased by file id at `FileManager.cpp:248` and `:428`,
  although its keys are watch descriptors: the entry meant to go stays, and
  another file's may go, after which its next event ends the session.
* A file inserted and deleted by another client before the session looks ends
  the session (`:266`, a null file object is watched).
* `DBFileInfo` leaves `watchDescriptor` uninitialised; a delete notification for
  a file that was never watched passes it to `inotify_rm_watch`.
* What R does to files while ignoring is on is not committed until R writes them
  again. The products of R Markdown and Sweave are inserted at once
  (`findOrAddFile`) and do not depend on it.
* The bufferevent keeps what a full read left, and its callback runs again only
  when the kernel has more. A notification processed in between loads or removes
  the file under an event that is older: R's earlier removal, taken for one of
  the new file, or a close whose content is no longer R's. Reads hold at least ten
  events, so it needs a script that does more than that.
* Notifications of the session's own commits are taken in by libpq during the
  next statement and handled only when a later one wakes the handler.
* `executeDBCommand` logs an error when the command succeeded and returns false
  (`:299`); `resumeNotifyEvents` disables what it should enable (`:503`). Neither
  is called.
* A NaN is never recognised (`d == R_NaN`, `EnvironmentWatcher.cpp:400`), a
  logical NA is written as true (`:383`), every row of a string column is its
  first string (`:291`), and the summary of a nested name is that of a global
  variable of this name (`:146`).
* An environment that contains itself is written until the stack overflows.
* A POSIXlt, and a Date of any length but one, cannot be written: Rcpp throws, and
  with it fails the whole listing or delta (`EnvironmentWatcher.cpp:229`, `:238`). The
  first number of an empty POSIXct is read past its end (`:235`), as are a data
  frame's cells when its first column is longer than others (a matrix is), the
  columns of one that has none, and the second dimension of a one-dimensional array.
* tclap: `-` alone and an empty word are accepted and dropped; `-p ""` keeps the
  default; a `MultiSwitchArg` in an xor list is not counted (`-c 7 -mm` passes);
  `MultiArg::isRequired` waits for a second value although its comment says the
  first (`MultiArg.h:379-387`), without which the first would not be counted;
  `reset` leaves `ignoreRest`, `_allowMore` and a `MultiSwitchArg`'s set flag.

## 4. Proofs

Each proof module extends the module it is about. A theorem is proved in the same
way throughout: an invariant that is inductive and implies the property, a lemma
that the initial states have it, a lemma for each operation that changes what it
is about, one lemma that runs through the disjuncts of `Next`, and a step of
temporal logic. What follows says which invariant, and why the property is not
inductive alone.

### Images: `ImageWatchProofs`

For every set of images and every bound:

* `TypeCorrect == Spec => []TypeOK`. `TypeOK` is inductive because it contains
  what the types rest on: ids are positions of existing rows, the images being
  cleaned up are pending, an acknowledgement in progress is owed.
* `ReportsCorrect == Spec => [](ReportedBatch /\ ReportsDisjoint /\
  BatchAboveHistory)`, and `BatchesReported` and `BatchesGrow`, which state two of
  the three alone. None is inductive: an `EndAck` appends a report made of
  `imageIds` and `sessionImageBatch`, so they hold only if those two are related
  to the rows and to earlier reports at all times. `ReportsInv` says that rows'
  batches never decrease and exceed `BatchInDb`; that the ids collected are of
  rows of the current batch; and that reports made before the current reset are
  below both.
* `NothingElseLost == Spec => []LostOnlyIfUnseen`: an image file is left behind
  only if its creation was never handled, or waits in the bufferevent, or it was
  found empty. The property compares files with tables, but what carries a file to
  the tables is the events in between. `NoticedInv` follows it: every file is given up, or its creation is
  queued, left over or being handled, or it is pending.
* `ReportsOwnImages == Spec => []ImageOfItsScript`: `OwnInv` says that whatever is
  pending or about to be was not finished by a script that has been acknowledged,
  unless that script is in `late`; `RowsInv` the same of the rows collected. Both
  need that the images of a script are pending when its acknowledgement starts, and
  hence that its events were read then, or a read was full (`QuietInv`, from the
  guard of `BeginAck`). The lemma `ReadsEvents` says of a read, however it is cut,
  where every event goes.
* `SurvivesIfAcked == Spec => []SurvivesAckedScripts`: as long as every script is
  acknowledged, no read leaves events behind and the database works, the process
  lives. `CalmInv` says that in such a behaviour every `IN_CLOSE_WRITE` under way is
  of a watch that is pending, or will be when the `IN_CREATE` before it has been
  handled.

### The session: `RSessionProofs`

For any commands, any images and any bounds, in three layers:

* `LoopInv` is about the event loop: `active` and `timers` hold at most one
  inotify callback, then one acknowledgement, then the delta of the same command,
  and an acknowledgement is scheduled exactly while one is owed. With it, every
  step of the session is a step of `ImageWatch` *with the guards of its caller*:
  `LoopKeepsContract == Spec => LoopKeepsImageContract`, the refinement, is a
  theorem. By it everything proved of `ImageWatch` holds in the session:
  `SessionImages` gives the batches, disjoint reports, the images of their script
  and the causes of a loss for the composition. `EventsRead` connects the two: an
  acknowledgement is active behind a read that took everything, or its script is in
  `late`.
  `TypeCorrect` and `OneAckScheduled` (`AckScheduled`) are in this layer.
* `SpeechInv` is about what the client hears: for which commands the session can
  still speak. Nothing was said about a command in the socket or a later one; of
  the command being evaluated at most results were sent; of the one whose
  acknowledgement is scheduled, not an acknowledgement. From it follow
  `AnswersInOrder` (`RepliesInOrder`) and `AckAfterOutput` (`OutputBeforeAck`).
* `StateInv` is about what a handler leaves to the next: which commands' text the
  console buffer can hold, when the flags are set, which capture a scheduled delta
  will compare with, what a close has saved. From it follow `OutputOfItsCommand`
  (`OutputTagged`), `DeltaOfItsEvaluation` (`DeltaSpansEvaluation`),
  `ConsoleAsExpected` (`ConsoleRestored`) and `CloseCommits` (`CloseSaves`).

So every safety property of `RSession` that the runs check is a theorem.

### Framing: `InputBufferProofs`

For texts of any size and any number of frames, of which less than two gigabytes are
under way, and every way to cut the stream:

* `TypeCorrect`, `WholeMessages` (`MessagesWhole`) and `FramesAligned`
  (`Aligned`). `StreamInv` describes the bytes under way (buffer and wire
  together) without counting frames: each byte stands at its distance from the
  other bytes of its frame, the stream ends with the end of a frame, and only the
  first frame may lack its front. The point is what `appendData` can accept as a
  header when the front of the stream is *not* the start of a frame, which happens
  once a client has sent before its last message was read. A magic number is read
  only at a magic number, or at the length field of a frame of 33 bytes; in the
  second case the next four bytes are text and, read as a length, exceed any
  buffer, so that no message comes out. This is why the model has texts of 33
  bytes, and where the proof uses that fewer bytes are under way than four characters
  of text read as a number say, about two gigabytes (`TextAsLength`): a guard of
  `SendFrame`, from which `StreamInv` has its third part. Without that bound the
  statement is false: to a client that far ahead of the session such a message would
  be delivered. `LengthBytes` says that the four bytes of a length that is not 33 do
  not read as the magic number.
* `InputIsChannel == Spec => Channel!Init /\ [][Channel!Next]_(Channel!channelVars)`:
  the safety part of the refinement of `FrameChannel`, step by step. `FlightInv`
  says that a frame is in flight exactly as long as its first byte is under way,
  which is how a frame cut at its front counts as lost.
* `CommandsInOrder == Spec => []InOrder`: the commands handed on are in the order
  sent and none twice. It is proved from the abstract specification's step and the
  refinement, not from the bytes.

### Files: `FileSyncProofs` and `FileSyncWatchProofs`

For any files, any number of writes, removals, changes by other clients, refusals
and scripts, and any size of the buffer:

* `TypeCorrect == Spec => []TypeOK`.
* `TableFollowsDatabase == Spec => []CacheCoherent`. That *some* notification
  about a file is pending is not inductive: a deletion that is pending for a row
  that the table lacks would bring nothing. `CacheInv` says that the pending one is
  of the kind that mends the difference: an insertion for a row without a file
  object, a deletion for a file object without a row, an insertion or an update
  for another version. It rests on ids not being used twice and on a notification
  naming its row, `SameNames`, which also says that no deletion is pending of an
  id that has a row. The lemmas `RowAdded`, `RowUpdated`, `RowRemoved` and
  `NoteDone` say what each kind of change makes of the four things compared (rows,
  file objects, notifications, excuses), whichever handler makes it.
* `VersionsGrow == Spec => VersionGrows`. `updateDBFile` writes the *memory's*
  version plus one; that this is more than the row's is `CacheInv`.
* `EventsBeforeLoads == Spec => InotifyFirst`, from `OwnEventsOnly`: while
  notifications are processed, the kernel holds only events of what the session
  itself wrote. The handler starts only on an empty queue and R does not run.
* `CrashesExplained == Spec => []CrashHasCause`. Two places dereference a null
  pointer. An event's watch lacks an entry only if one was erased under a file's
  id (`Entered`, about every watch and every event in the kernel, the bufferevent
  and the batch). An insertion finds neither row nor file object only if the
  database refused it, or if the deletion overtook it (`Overtaken`). What is left is
  a read that begins in a long name (`misread`).
* `WatchesLeadBack == Spec => []WatchLeadsBack`. A file object has a descriptor, the
  inode has a watch, and `filesByWatchDesc_` has an entry; each changes in another
  handler. `BackInv` says of every file object that its descriptor has an entry
  that names it, and that its file is watched under this descriptor *or* that the
  event of its removal is still to be processed; otherwise its insertion or
  deletion is still to be seen, or there is a named cause. It needs that
  notifications of one name come in the order of the ids (`NotesInv`), that the
  table has one file of a name (`FilesUnique`), that a descriptor is of one file
  (`WatchesApart`), and that a header of the directory's watch is followed by its
  name unless a read cut it off (`QueueInv`).
* `DirectoryFollowsDatabase == Spec => []DiskCoherent`. The property speaks of the
  moment when nothing is pending; `DiskInv` says at every moment that what *is*
  pending suffices. For every file of which nothing was lost (`Followed`), two
  things hold. It is `Led`: its watch, and every event of it, leads to its file
  object, and if it was removed and is there again, a create event comes after the
  last removal event. And it is `Agreed`: a notification that will be acted on is
  pending, or the directory, the table and the row differ only by what a queued
  close, create or removal event will mend. The order of the events counts, so the
  invariant is about the sequence of those read, left over and in the kernel
  (`Stream`); `DescriptorInv` says that descriptors in it are of one file, that
  their entries name that file, and that a removal is the last event of its watch.
  A file is not followed while the notification that will remove it under an older
  event is being processed (`Doomed`); after it the file is in `outrun`.

  The attempt to prove this showed that the property as first stated was false:
  it had no exception for a notification that overtakes an event left in the
  bufferevent, and the bounds of `file_sync` did not reach that case. TLC found it
  with two changes by another client and reads of two units. The exception is now a
  history variable that exactly such a step sets, and `file_sync` has these bounds.

### Environment: `EnvDeltaProofs`

For any variables and any number of changes and commands:

* `TypeCorrect == Spec => []TypeOK`. The number of scheduled deltas is bounded
  because each belongs to a command that evaluated (`DeltasCounted`).
* `DeltasExact == Spec => []DeltaExact`. `jsonDelta` compares names in one
  difference and pairs of a name and an object in the other; the two fit together
  only if a capture holds one object for a name (`CapturedOnce`), which is what
  the lemma `OnceIsExact` needs and the actions keep. A capture that did not
  clear the earlier list breaks it.
* `ClientRight == Spec => []ClientAgrees`. A delta says nothing of a variable that
  is bound to what was captured, so the client is right about it only if its copy
  already has what was captured *as it is now*. That is `CapturedAgrees`, which
  every capture turns agreement with the environment into, and every listing and
  delta keeps. The attempt to prove this showed an exception that the property had
  not named and four changes do not reach: a variable is bound to another object,
  its captured object changes in place under another name, and it is bound to
  that object again. The delta does not report it and the client stays wrong.
  `behind` now has such names, and the run takes five changes.

### Listener: `RServerProofs`

For any number of clients and descriptors:

* `TypeCorrect == Spec => []TypeOK`.
* `EachClientItsSession == Spec => []OneReaderPerClient` and
  `ConnectedIsRead == Spec => []OpenIsRead`. Children copy each other's
  sockets, so neither is inductive. `IInv` says that the parent's table holds a
  client once and no refused one, that a child's table is a part of the parent's
  (because the parent never closes what it gave away, the same fact that
  exhausts it), that distinct children have distinct `sock`, that every client in the
  parent's table has a child or is in `over`, and that a waiting connection is in no
  table and was not refused.

### Command line: `CommandLineProofs`

For any programs, any words and lines of any length. The kinds of `processArg`
come to four things they may do (`ProcessCases`): fail or leave, pass the word on,
take letters of it and pass it on, take it (and the next word with it).

* `TypeCorrect == Spec => []TypeOK`. The invariant is `Typed` with `ListInv`: no
  two arguments have one name, which `add` checks, and `numRequired` is the number
  of required ones.
* `WordsTakenOnce == Spec => []TakenOnce`. What was taken of words already passed
  is not enough: a switch that takes a letter leaves the word where it is, with
  the letter blanked. `WordInv` says that of the word being offered exactly the
  blanked letters were taken, and nothing of a later word; so an argument that
  takes a whole word, which needs one without blanks, takes one that nobody
  touched, and a word with all of its letters blanked was taken letter by letter.
* `AcceptedComplete == Spec => []AcceptedIsComplete`. The property compares *which*
  arguments were given, `parse` only their number. `CountInv` says that
  `requiredCount` is at most the number of required arguments accounted for
  (`Counted`): one given, or one whose xor list has a member that is given while
  the others are set and not given. No step adds more to the count than it adds to
  that set, for different reasons: a single-valued argument that is set again
  fails; a `MultiArg` is no longer required once it has a second value; of an xor
  list the first adds all and `allowMore` keeps a repetition from adding them
  again (`TakesCounts`). A switch that takes letters adds nothing to the count. So
  a count equal to `numRequired` means that all are accounted for.

### What the theorems assume

The named `ASSUME`s of the modules, which TLC evaluates in every run: bounds are
natural numbers; a read takes at least one event; the mark of a closed descriptor is
not a client; no text is longer than two gigabytes; a switch is not required
(no constructor of one takes it), and neither a flag nor a word holds the bell
character that tclap puts in place of a letter it took. Sets are arbitrary. TLC found
the properties, and the inductive invariants, to hold on small instances first.

**Only model-checked**: `OverflowNeedsCycle` and `WritesEverything` of `EnvValues`,
whose invariant would be an induction over the heap that is written. Every other
safety property of a passing run is a theorem.
**Not provable with TLAPS here**: liveness (`AckSent`, `NotificationsProcessed`,
the fairness part of `ImplementsChannel`).

## 5. Not modelled, and why

* Images and ordinary files in one model: they share the handler, its window and
  its reads, which both modules have, and no other state.
* Renames, by R (no branch handles `IN_MOVE`) and by other clients; directories;
  names that start with a dot.
* Writers of the working directory other than the script: TeX and pandoc run
  inside the evaluation; nothing else writes there.
* The content of messages and of files; the text, classes and names of R values;
  logging.
* tclap's usage, completion and DocBook output (`StdOutput.h`,
  `ZshCompletionOutput.h`, `DocBookOutput.h`): formatting without state.
* `RC2Utils`, `FormattedException`, `ScopeGuard`: helpers without state; `Event`
  and `EventBase` are not compiled; `json.hpp` is third-party.
* The failed `execve` of `texi2pdf`, after which the child continues as a copy
  of the session (`RSession.cpp:733-736`).
* The destructor of `RSession` and the start of R.

## 6. Plan

1. *(done)* `ImageWatch`, its runs, `TypeCorrect` and `ReportsCorrect`;
   `RSession` over it; `InputBuffer` and `FrameChannel`; `RServer`.
2. *(done)* `FileSync`, `EnvDelta`, `EnvValues`, `CommandLine` and their runs;
   liveness of acknowledgements and the refinement of `ImageWatch` in one run.
3. *(done)* Theorems about `EnvDelta` and `RServer`, about all that the runs check
   of `ImageWatch`, `RSession` and `InputBuffer`, and the safety part of both
   refinements.
4. *(done)* Theorems about `FileSync` and `CommandLine`, all that their runs check
   but for liveness.
5. Open: what `EnvValues` writes, for heaps of any size; a composition of `FileSync`
   with the session's loop. No module uses a RECURSIVE operator.
