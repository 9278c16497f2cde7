------------------------------ MODULE ImageWatch ------------------------------
(***************************************************************************)
(* The image half of src/src/FileManager.cpp: how the plots an R script    *)
(* leaves in the session's working directory become rows of the table      *)
(* sessionimage, and how the ids of those rows reach the client in the     *)
(* execComplete message of the script.                                     *)
(*                                                                         *)
(* The kernel's inotify queue stands between the two.  R writes the files  *)
(* while a script runs; nothing else runs then, so the queue is read only  *)
(* after the script, by handleInotifyEvent.  One call takes I_BUF_LEN      *)
(* bytes at most; the rest stays in the bufferevent until the kernel has   *)
(* more.  The handler drops what it reads while ignoreFSNotifications_ is  *)
(* on, which every handler that changes the directory itself turns on for  *)
(* 5 ms.  The acknowledgement of the script (acknowledgeExecComplete)      *)
(* inserts the images still pending and reports the ids collected since    *)
(* the last resetWatch.                                                    *)
(*                                                                         *)
(* The module states what it needs of its caller as guards: a script does  *)
(* not start while an acknowledgement is owed, the acknowledgement runs    *)
(* after the script's events were read, or after one read that had to      *)
(* leave some behind, and notifications are handled when nothing is owed.  *)
(* RSession.tla composes it with the event loop and shows that the loop    *)
(* keeps to these guards.                                                  *)
(***************************************************************************)
EXTENDS Integers, Sequences, FiniteSets, FiniteSetsExt

CONSTANTS
  Images,       \* names matching imgRegex_, rc2imgNNN.png
  ReadMin,      \* the events a read takes at least, if they are there: the ten
                \* that I_BUF_LEN is made for, when all names are the longest
  BatchInDb,    \* max(batchid) of this session's rows when it was opened
  MaxScripts,   \* bound: scripts run
  MaxFaults     \* bound: statements the database refuses

ASSUME ConstantsAssumption ==
  /\ ReadMin \in Nat \ {0}
  /\ BatchInDb \in Nat
  /\ MaxScripts \in Nat
  /\ MaxFaults \in Nat

VARIABLES
  onDisk,             \* the image files in the working directory
  written,            \* written[i]: the script that finished i, 0 while i is empty
  watchOf,            \* watchOf[i]: watch descriptor of the file i, 0 when unwatched
  nextWd,             \* the next descriptor inotify_add_watch hands out
  dirWatched,         \* the directory's watch is there, for IN_CREATE
  inotifyQ,           \* events queued in the kernel
  input,              \* events a read left in the bufferevent
  batch,              \* events read by handleInotifyEvent, not processed yet
  pending,            \* pendingImagesByWatchDesc_
  toClean,            \* the entries cleanupImageWatch has not reached yet
  imageIds,           \* imageIds_
  sessionImageBatch,  \* sessionImageBatch_
  sessionimage,       \* rows this session inserted; a row's id is its position
  ignoreFS,           \* ignoreFSNotifications_
  owed,               \* the script whose acknowledgement is scheduled, or 0
  script,             \* scripts started so far
  faults,             \* statements refused so far
  alive,              \* the process has not crashed
  pc,                 \* which handler is running
  reports,            \* the execComplete messages sent
  unacked,            \* history: the scripts that ended without being acknowledged
  late,               \* history: the scripts after which a read left events behind,
                      \* or before which one had
  unseen              \* history: files whose events were ignored, cut, skipped or
                      \* never queued, or that were found empty

files   == <<onDisk, written, watchOf, nextWd, dirWatched>>
tables  == <<imageIds, sessionImageBatch, sessionimage>>
history == <<unacked, late, unseen>>
vars    == <<files, inotifyQ, input, batch, pending, toClean, tables, ignoreFS, owed,
             script, faults, alive, pc, reports, history>>

Scripts == 1 .. MaxScripts

PendingImage == [wd: Nat \ {0}, img: Images]
Row == [batch: Nat, by: 0 .. MaxScripts]
Report == [script: Scripts, ids: SUBSET (Nat \ {0}), batch: Nat]

-----------------------------------------------------------------------------
(* Events.  Only two kinds matter to images.  IN_DELETE and IN_IGNORED, which *)
(* follow a removal, and the events of all other files are Other here.  A    *)
(* read may end between the header of an event and its name.                 *)

CreateEvent(i) == [kind |-> "create", img |-> i, wd |-> 0]
CloseWriteEvent(i, w) == [kind |-> "closeWrite", img |-> i, wd |-> w]
Other == [kind |-> "other"]
Header == [kind |-> "header"]
CutName == [kind |-> "name"]
Events == [kind: {"create"}, img: Images, wd: {0}]
            \cup [kind: {"closeWrite"}, img: Images, wd: Nat]
            \cup {Other, Header, CutName}

\* The images whose creation is in q.
ImagesOf(q) == {i \in Images : \E n \in 1 .. Len(q) : q[n] = CreateEvent(i)}

\* The kernel merges an event into the last queued one when they are the same.
Queued(q, e) ==
  IF q # <<>> /\ q[Len(q)] = e THEN q ELSE Append(q, e)

-----------------------------------------------------------------------------
Init ==
  /\ onDisk = {}
  /\ written = [i \in Images |-> 0]
  /\ watchOf = [i \in Images |-> 0]
  /\ nextWd = 1
  /\ dirWatched = TRUE
  /\ inotifyQ = <<>>
  /\ input = <<>>
  /\ batch = <<>>
  /\ pending = {}
  /\ toClean = {}
  /\ imageIds = {}
  /\ sessionImageBatch = 0
  /\ sessionimage = <<>>
  /\ ignoreFS = FALSE
  /\ owed = 0
  /\ script = 0
  /\ faults = 0
  /\ alive = TRUE
  /\ pc = "idle"
  /\ reports = <<>>
  /\ unacked = {}
  /\ late = {}
  /\ unseen = {}

-----------------------------------------------------------------------------
(* FileManager::resetWatch *)
ResetKeepsIds ==                                     \* mutant
  /\ sessionImageBatch' = IF imageIds # {} THEN sessionImageBatch + 1
                                           ELSE sessionImageBatch
  /\ UNCHANGED <<imageIds, sessionimage>>
ResetKeepsBatch ==                                   \* mutant
  imageIds' = {} /\ UNCHANGED <<sessionImageBatch, sessionimage>>
ResetWatch ==
  /\ sessionImageBatch' = IF imageIds # {} THEN sessionImageBatch + 1
                                           ELSE sessionImageBatch
  /\ imageIds' = {}
  /\ UNCHANGED sessionimage

\* A script starts: resetWatch, then the evaluation.
StartScript ==
  /\ pc = "idle" /\ alive
  /\ script < MaxScripts
  /\ script' = script + 1
  /\ late' = IF input = <<>> THEN late ELSE late \cup {script + 1}
  /\ pc' = "script"
  /\ ResetWatch
  /\ UNCHANGED <<files, inotifyQ, input, batch, pending, toClean, ignoreFS, owed,
                 faults, alive, reports, unacked, unseen>>

BeginScript == owed = 0 /\ StartScript

\* R opens the file of a new page for writing and closes it when the page is
\* done.  A file that exists is truncated: no IN_CREATE.
OpensFile(i) ==
  IF i \in onDisk \/ ~dirWatched THEN inotifyQ ELSE Queued(inotifyQ, CreateEvent(i))
Unnoticed(i) ==
  unseen' = IF i \in onDisk \/ dirWatched THEN unseen ELSE unseen \cup {i}

Draw(i) ==
  /\ pc = "script"
  /\ onDisk' = onDisk \cup {i}
  /\ written' = [written EXCEPT ![i] = script]
  /\ inotifyQ' = IF watchOf[i] # 0
                 THEN Queued(OpensFile(i), CloseWriteEvent(i, watchOf[i]))
                 ELSE OpensFile(i)
  /\ Unnoticed(i)
  /\ UNCHANGED <<watchOf, nextWd, dirWatched, input, batch, pending, toClean, tables,
                 ignoreFS, owed, script, faults, alive, pc, reports, unacked, late>>

\* A page is opened on a device that stays open: the file is empty for now.
OpenPage(i) ==
  /\ pc = "script"
  /\ onDisk' = onDisk \cup {i}
  /\ written' = [written EXCEPT ![i] = 0]
  /\ inotifyQ' = OpensFile(i)
  /\ Unnoticed(i)
  /\ UNCHANGED <<watchOf, nextWd, dirWatched, input, batch, pending, toClean, tables,
                 ignoreFS, owed, script, faults, alive, pc, reports, unacked, late>>

\* The script removes an image file; the kernel drops the file's watch.
RemoveImage(i) ==
  /\ pc = "script"
  /\ i \in onDisk
  /\ onDisk' = onDisk \ {i}
  /\ watchOf' = [watchOf EXCEPT ![i] = 0]
  /\ inotifyQ' = Queued(inotifyQ, Other)
  /\ unseen' = unseen \ {i}
  /\ UNCHANGED <<written, nextWd, dirWatched, input, batch, pending, toClean, tables,
                 ignoreFS, owed, script, faults, alive, pc, reports, unacked, late>>

\* The script writes another file of the directory.
TouchFile ==
  /\ pc = "script"
  /\ inotifyQ' = Queued(inotifyQ, Other)
  /\ UNCHANGED <<files, input, batch, pending, toClean, tables, ignoreFS, owed,
                 script, faults, alive, pc, reports, history>>

\* The evaluation returns; the acknowledgement is scheduled or it is not.  A
\* document's output may have been copied into the directory first.
EndScript(acked, copied) ==
  /\ pc = "script"
  /\ pc' = "idle"
  /\ inotifyQ' = IF copied THEN Queued(inotifyQ, Other) ELSE inotifyQ
  /\ owed' = IF acked THEN script ELSE 0
  /\ unacked' = IF acked THEN unacked ELSE unacked \cup {script}
  /\ UNCHANGED <<files, input, batch, pending, toClean, tables, ignoreFS,
                 script, faults, alive, reports, late, unseen>>

\* The client's clearFileChanges command, and an execFile that fails before
\* anything is evaluated: resetWatch alone.
ResetOnly ==
  /\ pc = "idle" /\ alive
  /\ ResetWatch
  /\ UNCHANGED <<files, inotifyQ, input, batch, pending, toClean, ignoreFS, owed,
                 script, faults, alive, pc, reports, history>>

ClearFileChanges == owed = 0 /\ ResetOnly

-----------------------------------------------------------------------------
(* Impl::insertImage.  nextval makes the ids increase; the first image of a  *)
(* run takes the batch after the last one the database has for the session.  *)
(* Rows are inserted with batches that never decrease, so the last row holds  *)
(* max(batchid).                                                              *)

MaxBatchId ==
  IF sessionimage = <<>> THEN BatchInDb
                         ELSE sessionimage[Len(sessionimage)].batch

LastBatchAgain ==                                    \* mutant
  IF sessionImageBatch <= 0 THEN MaxBatchId ELSE sessionImageBatch
BatchForInsert ==
  IF sessionImageBatch <= 0 THEN MaxBatchId + 1 ELSE sessionImageBatch

\* mutant: nextval is called again for the id that is collected
CollectsNextId(i) ==
  /\ sessionimage' = Append(sessionimage,
                            [batch |-> BatchForInsert, by |-> written[i]])
  /\ sessionImageBatch' = BatchForInsert
  /\ imageIds' = imageIds \cup {Len(sessionimage) + 2}
  /\ onDisk' = onDisk \ {i}
  /\ watchOf' = [watchOf EXCEPT ![i] = 0]
  /\ inotifyQ' = Queued(inotifyQ, Other)
  /\ unseen' = unseen \ {i}

\* The row is written, its id collected, and the file removed; the kernel
\* drops the file's watch.
Insert(i) ==
  /\ sessionimage' = Append(sessionimage,
                            [batch |-> BatchForInsert, by |-> written[i]])
  /\ sessionImageBatch' = BatchForInsert
  /\ imageIds' = imageIds \cup {Len(sessionimage) + 1}
  /\ onDisk' = onDisk \ {i}
  /\ watchOf' = [watchOf EXCEPT ![i] = 0]
  /\ inotifyQ' = Queued(inotifyQ, Other)
  /\ unseen' = unseen \ {i}

\* A zero-length file: nothing is inserted, the file stays, and the caller
\* removes the watch (which may be that of an older file of this name).
EmptyStaysWatched(p) ==                              \* mutant
  unseen' = unseen \cup {p.img} /\ UNCHANGED <<tables, onDisk, watchOf, inotifyQ>>
SkipEmpty(p) ==
  /\ unseen' = unseen \cup {p.img}
  /\ IF watchOf[p.img] = p.wd
     THEN /\ watchOf' = [watchOf EXCEPT ![p.img] = 0]
          /\ inotifyQ' = Queued(inotifyQ, Other)
     ELSE UNCHANGED <<watchOf, inotifyQ>>
  /\ UNCHANGED <<tables, onDisk>>

-----------------------------------------------------------------------------
(* Impl::handleInotifyEvent *)

\* The handler reads I_BUF_LEN bytes of what the bufferevent holds: all of it, or
\* as many events as fit and perhaps the header of one more.
Least(q) == Min({ReadMin, Len(q)})

TakesFrom(got, ignored) ==
  \E j \in Least(got) .. Len(got), cut \in BOOLEAN :
    LET whole == SubSeq(got, 1, j)
        left  == SubSeq(got, j + 1, Len(got))
    IN
    /\ cut => left # <<>> /\ Head(left).kind \in {"create", "other"}
    /\ input' = IF cut THEN <<CutName>> \o Tail(left) ELSE left
    /\ batch' = IF ignored THEN <<>>
                ELSE IF cut THEN Append(whole, Header) ELSE whole
    /\ unseen' = unseen \cup (onDisk \cap
         ((IF ignored THEN ImagesOf(whole) ELSE {}) \cup
          (IF cut THEN ImagesOf(<<Head(left)>>) ELSE {})))

\* libevent puts what the kernel gives it, up to its own limit, behind what an
\* earlier call left.
Reads(ignored) ==
  \E k \in 1 .. Len(inotifyQ) :
    /\ input = <<>> => k >= Least(inotifyQ)
    /\ inotifyQ' = SubSeq(inotifyQ, k + 1, Len(inotifyQ))
    /\ TakesFrom(input \o SubSeq(inotifyQ, 1, k), ignored)
    /\ late' = IF input' = <<>> /\ inotifyQ' = <<>> THEN late ELSE late \cup {script}

\* What was read is dropped; a created image is not noticed.
DropInotify ==
  /\ pc = "idle" /\ alive /\ inotifyQ # <<>>
  /\ ignoreFS
  /\ Reads(TRUE)
  /\ UNCHANGED <<files, pending, toClean, tables, ignoreFS, owed, script, faults,
                 alive, pc, reports, unacked>>

ReadInotify ==
  /\ pc = "idle" /\ alive /\ inotifyQ # <<>>
  /\ ~ignoreFS
  /\ ignoreFS' = TRUE
  /\ Reads(FALSE)
  /\ pc' = "inotify"
  /\ UNCHANGED <<files, pending, toClean, tables, owed, script, faults, alive,
                 reports, unacked>>

NextEvent(kind) ==
  /\ pc = "inotify" /\ alive
  /\ batch # <<>>
  /\ Head(batch).kind = kind
  /\ batch' = Tail(batch)
  /\ UNCHANGED <<written, input, toClean, ignoreFS, owed, script, pc, reports, unacked,
                 late>>

\* startImageWatch: inotify_add_watch answers the watch the file already has.
\* It fails when the file is gone, and the handler logs the exception.
StartImageWatch ==
  LET i  == Head(batch).img
      wd == IF watchOf[i] # 0 THEN watchOf[i] ELSE nextWd
  IN
  /\ NextEvent("create")
  /\ IF i \in onDisk
     THEN /\ watchOf' = [watchOf EXCEPT ![i] = wd]
          /\ nextWd' = IF watchOf[i] # 0 THEN nextWd ELSE nextWd + 1
          /\ pending' = pending \cup {[wd |-> wd, img |-> i]}
     ELSE UNCHANGED <<watchOf, nextWd, pending>>
  /\ UNCHANGED <<onDisk, dirWatched, inotifyQ, tables, faults, alive, unseen>>

\* IN_CLOSE_WRITE of a pending image: insertImage, then stopImageWatch.
InsertClosedImage ==
  \E p \in pending :
    /\ NextEvent("closeWrite")
    /\ p.wd = Head(batch).wd
    /\ p.img \in onDisk
    /\ IF written[p.img] # 0 THEN Insert(p.img) ELSE SkipEmpty(p)
    /\ pending' = pending \ {p}
    /\ UNCHANGED <<nextWd, dirWatched, faults, alive>>

\* insertImage throws: the file is gone, or the database refuses one of its
\* statements, the insert after the batch was chosen.  The handler logs the
\* exception; the image stays pending.
InsertClosedImageFails ==
  \E p \in pending :
    /\ NextEvent("closeWrite")
    /\ p.wd = Head(batch).wd
    /\ IF p.img \in onDisk
       THEN /\ written[p.img] # 0 /\ faults < MaxFaults /\ faults' = faults + 1
            /\ sessionImageBatch' \in {sessionImageBatch, BatchForInsert}
       ELSE UNCHANGED <<faults, sessionImageBatch>>
    /\ UNCHANGED <<onDisk, watchOf, nextWd, dirWatched, inotifyQ, pending, imageIds,
                   sessionimage, alive, unseen>>

\* IN_CLOSE_WRITE of a descriptor that is not pending: filesByWatchDesc_[wd]
\* answers a null pointer, which the next line dereferences.
CloseOfUnknown ==
  /\ NextEvent("closeWrite")
  /\ \A p \in pending : p.wd # Head(batch).wd
  /\ alive' = FALSE
  /\ UNCHANGED <<onDisk, watchOf, nextWd, dirWatched, inotifyQ, pending, tables, faults,
                 unseen>>

SkipEvent ==
  /\ NextEvent("other")
  /\ UNCHANGED <<onDisk, watchOf, nextWd, dirWatched, inotifyQ, pending, tables, faults,
                 alive, unseen>>

\* The name of an IN_CREATE is looked for behind the end of buf, on the stack.
\* Empty, it names the directory: the watch of the row it gets, where the
\* directory can be read as a file, takes the place of the directory's.
LoneHeader ==
  /\ NextEvent("header")
  /\ dirWatched' \in {dirWatched, FALSE}
  /\ UNCHANGED <<onDisk, watchOf, nextWd, inotifyQ, pending, tables, faults, alive,
                 unseen>>

\* The name is read as an event.  Its bytes 12 to 15 are taken for the length of
\* its name: as much of the read is skipped, and what follows may be read from the
\* middle of an event, as one without a file or, seldom, of an IN_CREATE.
ParseCutName ==
  /\ pc = "inotify" /\ alive
  /\ batch # <<>> /\ Head(batch).kind = "name"
  /\ \E k \in 1 .. Len(batch) :
       /\ batch' = SubSeq(batch, k + 1, Len(batch))
       /\ unseen' = unseen \cup (onDisk \cap ImagesOf(SubSeq(batch, 1, k)))
  /\ alive' \in BOOLEAN
  /\ dirWatched' \in {dirWatched, FALSE}
  /\ UNCHANGED <<onDisk, written, watchOf, nextWd, inotifyQ, input, pending, toClean,
                 tables, ignoreFS, owed, script, faults, pc, reports, unacked, late>>

EndInotify ==
  /\ pc = "inotify" /\ alive
  /\ batch = <<>>
  /\ pc' = "idle"
  /\ UNCHANGED <<files, inotifyQ, input, batch, pending, toClean, tables, ignoreFS,
                 owed, script, faults, alive, reports, history>>

-----------------------------------------------------------------------------
(* Impl::cleanupImageWatch, called by acknowledgeExecComplete.  A map is     *)
(* walked in the order of its keys, the descriptors.                         *)

OnlyOtherQueued ==
  \A n \in 1 .. Len(inotifyQ) : inotifyQ[n] = Other

NoCleanup ==                                         \* mutant
  /\ pc = "idle" /\ alive
  /\ owed # 0
  /\ toClean' = {}
  /\ pc' = "cleanup"
  /\ UNCHANGED <<files, inotifyQ, input, batch, pending, tables, ignoreFS, owed, script,
                 faults, alive, reports, history>>
StartAck ==
  /\ pc = "idle" /\ alive
  /\ owed # 0
  /\ toClean' = pending
  /\ pc' = "cleanup"
  /\ UNCHANGED <<files, inotifyQ, input, batch, pending, tables, ignoreFS, owed, script,
                 faults, alive, reports, history>>

\* The timer runs after the script's events were read, once.
BeginAck == (OnlyOtherQueued \/ script \in late) /\ StartAck

FirstToClean(p) ==
  /\ p \in toClean
  /\ \A o \in toClean : p.wd <= o.wd

CleanupOne(p) ==
  /\ pc = "cleanup" /\ alive
  /\ FirstToClean(p)
  /\ p.img \in onDisk
  /\ IF written[p.img] # 0
     THEN Insert(p.img) /\ ignoreFS' = TRUE
     ELSE SkipEmpty(p) /\ UNCHANGED ignoreFS
  /\ toClean' = toClean \ {p}
  /\ UNCHANGED <<written, nextWd, dirWatched, input, batch, pending, owed, script,
                 faults, alive, pc, reports, unacked, late>>

\* file_size throws when the file is gone, insertImage when the database
\* refuses.  The exception leaves a timer callback: the process aborts.
CleanupThrows(p) ==
  /\ pc = "cleanup" /\ alive
  /\ FirstToClean(p)
  /\ IF p.img \in onDisk
     THEN written[p.img] # 0 /\ faults < MaxFaults /\ faults' = faults + 1
     ELSE UNCHANGED faults
  /\ alive' = FALSE
  /\ UNCHANGED <<files, inotifyQ, input, batch, pending, toClean, tables, ignoreFS, owed,
                 script, pc, reports, history>>

\* pendingImagesByWatchDesc_ is emptied; addImagesToJson reports what
\* checkWatch answers, which neither clears imageIds_ nor the batch.
EndAck ==
  /\ pc = "cleanup" /\ alive
  /\ toClean = {}
  /\ pending' = {}
  /\ reports' = Append(reports, [script |-> owed, ids |-> imageIds,
                                 batch |-> sessionImageBatch])
  /\ owed' = 0
  /\ pc' = "idle"
  /\ UNCHANGED <<files, inotifyQ, input, batch, toClean, tables, ignoreFS, script,
                 faults, alive, history>>

-----------------------------------------------------------------------------
(* The 5 ms timer of ignoreFSNotifications fires. *)
IgnoreOff ==
  /\ pc = "idle" /\ alive
  /\ ignoreFS
  /\ ignoreFS' = FALSE
  /\ UNCHANGED <<files, inotifyQ, input, batch, pending, toClean, tables, owed, script,
                 faults, alive, pc, reports, history>>

\* handleDBNotifications starts by ignoring the file system, and writes or removes
\* other files.  The watch it removes with a file's may be any watch: a file object
\* that was never watched has an uninitialised descriptor.
HandlesNotifications ==
  /\ pc = "idle" /\ alive
  /\ ignoreFS' = TRUE
  /\ \/ inotifyQ' \in {inotifyQ, Queued(inotifyQ, Other)} /\ UNCHANGED <<watchOf, dirWatched>>
     \/ /\ inotifyQ' = Queued(inotifyQ, Other)
        /\ \/ dirWatched' = FALSE /\ UNCHANGED watchOf
           \/ /\ \E i \in Images : watchOf' = [watchOf EXCEPT ![i] = 0]
              /\ UNCHANGED dirWatched
  /\ UNCHANGED <<onDisk, written, nextWd, input, batch, pending, toClean, tables, owed,
                 script, faults, alive, pc, reports, history>>

HandleDBNotifications == owed = 0 /\ HandlesNotifications

\* An exception leaves a timer callback of the session: the process aborts.
AbortElsewhere ==
  /\ pc = "idle" /\ alive
  /\ faults < MaxFaults
  /\ faults' = faults + 1
  /\ alive' = FALSE
  /\ UNCHANGED <<files, inotifyQ, input, batch, pending, toClean, tables, ignoreFS, owed,
                 script, pc, reports, history>>

ScriptStep ==
  \/ \E i \in Images : Draw(i) \/ OpenPage(i) \/ RemoveImage(i)
  \/ TouchFile
  \/ \E acked, copied \in BOOLEAN : EndScript(acked, copied)

InotifyStep ==
  \/ DropInotify \/ ReadInotify
  \/ StartImageWatch \/ InsertClosedImage \/ InsertClosedImageFails
  \/ CloseOfUnknown \/ SkipEvent \/ LoneHeader \/ ParseCutName \/ EndInotify

AckStep ==
  \/ BeginAck
  \/ \E p \in toClean : CleanupOne(p) \/ CleanupThrows(p)
  \/ EndAck

Next ==
  \/ BeginScript \/ ScriptStep \/ ClearFileChanges
  \/ InotifyStep \/ AckStep
  \/ IgnoreOff \/ HandleDBNotifications
  \/ AbortElsewhere

Spec == Init /\ [][Next]_vars

-----------------------------------------------------------------------------
(* Properties *)

FilesOK ==
  /\ onDisk \subseteq Images
  /\ written \in [Images -> 0 .. MaxScripts]
  /\ watchOf \in [Images -> Nat]
  /\ nextWd \in Nat \ {0}
  /\ dirWatched \in BOOLEAN
  /\ unseen \subseteq onDisk

QueuesOK ==
  /\ inotifyQ \in Seq(Events)
  /\ input \in Seq(Events)
  /\ batch \in Seq(Events)
  /\ pending \subseteq PendingImage
  /\ toClean \subseteq pending
  /\ pc # "cleanup" => toClean = {}

TablesOK ==
  /\ imageIds \subseteq 1 .. Len(sessionimage)
  /\ sessionImageBatch \in Nat
  /\ sessionimage \in Seq(Row)

CountersOK ==
  /\ owed \in 0 .. MaxScripts
  /\ script \in 0 .. MaxScripts
  /\ pc = "script" => script # 0
  /\ pc = "cleanup" => owed # 0
  /\ faults \in 0 .. MaxFaults
  /\ unacked \subseteq Scripts
  /\ late \subseteq 0 .. MaxScripts

FlagsOK ==
  /\ ignoreFS \in BOOLEAN
  /\ alive \in BOOLEAN
  /\ pc \in {"idle", "script", "inotify", "cleanup"}

ReportsOK == reports \in Seq(Report)

TypeOK ==
  FilesOK /\ QueuesOK /\ TablesOK /\ CountersOK /\ FlagsOK /\ ReportsOK

\* The batch id an execComplete names is the batch of every row whose id it
\* names, although the rows were inserted by other handlers, some of them
\* before the script began (imgBatch and images of addImagesToJson).
ReportedBatch ==
  \A n \in 1 .. Len(reports) : \A id \in reports[n].ids :
    /\ id \in 1 .. Len(sessionimage)
    /\ sessionimage[id].batch = reports[n].batch

\* Every image row is reported at most once, and a batch belongs to the images
\* of one report: checkWatch clears nothing, so this rests on the resetWatch
\* before the next script.
ReportsDisjoint ==
  \A m, n \in 1 .. Len(reports) :
    m < n => /\ reports[m].ids \cap reports[n].ids = {}
             /\ (reports[m].ids # {} /\ reports[n].ids # {})
                   => reports[m].batch < reports[n].batch

\* A batch number is never one the session used in an earlier run.
BatchAboveHistory ==
  \A id \in 1 .. Len(sessionimage) : sessionimage[id].batch > BatchInDb

\* An image is reported with the script that drew it, or else its script ended
\* without an acknowledgement, or events were left behind by the read before or
\* after it: a later execComplete never shows other plots of a script that was
\* already acknowledged.
ImageOfItsScript ==
  \A n \in 1 .. Len(reports) : \A id \in reports[n].ids :
    \/ sessionimage[id].by = reports[n].script
    \/ /\ sessionimage[id].by \in unacked \cup late
       /\ sessionimage[id].by < reports[n].script

\* The null pointer of CloseOfUnknown, the exceptions of CleanupThrows and the
\* names that ParseCutName misreads need a script that ended without an
\* acknowledgement, a database failure, or more events than one read takes:
\* otherwise no watch outlives the acknowledgement of its script.
SurvivesAckedScripts ==
  (unacked = {} /\ late = {} /\ faults = 0) => alive

\* Between scripts, a finished image that is still on disk is pending, or its
\* IN_CREATE waits in the bufferevent until the kernel has more, or the manager
\* gave up on it: the event was ignored, cut, skipped or never queued, or the
\* file was empty when it was collected.  Nothing else loses an image.
LostOnlyIfUnseen ==
  (pc = "idle" /\ inotifyQ = <<>>)
    => \A i \in onDisk : written[i] # 0 =>
         i \in unseen \cup ImagesOf(input) \/ \E p \in pending : p.img = i

\* tests/rsession-t.cpp:90, of a script that makes two plots:
\* ASSERT_EQ(results["images"].size(), 2).  Every plot a script finished is
\* in its execComplete, so none is left in the directory after it, as long as
\* the directory is watched.
AllPlotsReported ==
  dirWatched => \A n \in 1 .. Len(reports) :
    \A i \in onDisk : written[i] # reports[n].script
=============================================================================
