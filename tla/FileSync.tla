------------------------------- MODULE FileSync -------------------------------
(***************************************************************************)
(* The file half of src/src/FileManager.cpp and src/src/DBFileSource.cpp:  *)
(* how the files of a session's working directory and the rows of rcfile   *)
(* and rcfiledata follow each other.                                       *)
(*                                                                         *)
(* Two queues feed the session.  The kernel queues inotify events for what *)
(* R (and the session itself) does to the directory; handleInotifyEvent    *)
(* reads them, at most BufUnits at a time, and inserts, updates and        *)
(* removes rows.  The database queues a notification for every committed   *)
(* change of rcfile, the session's own changes included;                   *)
(* handleDBNotifications reads them and writes or removes local files.     *)
(* libpq parses notifications during any statement: those that arrive then *)
(* wait in its memory and the socket does not become readable for them, so *)
(* they are processed only when a later one arrives.                       *)
(*                                                                         *)
(* A file's content is the number of the write that produced it.           *)
(*                                                                         *)
(* Left out: images (ImageWatch.tla); IN_OPEN and IN_MODIFY, which are     *)
(* only logged, after the same lookup as the IN_CLOSE_WRITE that follows   *)
(* them; IN_DELETE and IN_IGNORED, which no branch handles; renames by R   *)
(* (IN_MOVE, no branch either) and by other clients.                       *)
(***************************************************************************)
EXTENDS Integers, Sequences, FiniteSets, FiniteSetsExt, Functions

CONSTANTS
  Names,          \* names of ordinary files: none starts with a dot, each fits one unit
  LongNames,      \* those whose bytes 12 to 15 are not all zero: 13 characters or more
  FirstId,        \* where the sequence rcfile_seq stands
  BufUnits,       \* I_BUF_LEN in units of 16 bytes, the size of an event without its name
  MaxWrites,      \* bound: contents written by R
  MaxRemovals,    \* bound: files removed by R
  MaxForeign,     \* bound: changes committed by other clients
  MaxScripts,     \* bound: commands that evaluate R code
  MaxFaults       \* bound: statements the database refuses

Dir == "."

ASSUME FileSyncAssumption ==
  /\ Dir \notin Names /\ LongNames \subseteq Names
  /\ FirstId \in Nat \ {0} /\ BufUnits \in Nat \ {0}
  /\ {MaxWrites, MaxRemovals, MaxForeign, MaxScripts, MaxFaults} \subseteq Nat

VARIABLES
  disk,       \* the content of each file in the working directory
  watchOf,    \* the descriptor of the watch on the directory (Dir) or on a
              \* file's inode, 0 when unwatched
  nextWd,     \* the next descriptor inotify_add_watch hands out
  rows,       \* committed rows of rcfile joined with rcfiledata, by id
  nextId,     \* the next value of rcfile_seq
  wire,       \* notifications on the connection's socket
  notes,      \* notifications parsed by libpq
  filesById,  \* filesById_
  byWd,       \* filesByWatchDesc_: the id of the file object of each entry
  manual,     \* manuallyAddedFiles_
  kernelQ,    \* inotify events queued in the kernel
  input,      \* bytes left in the bufferevent by an earlier read
  batch,      \* what handleInotifyEvent read and has not processed yet
  ignoreFS,   \* ignoreFSNotifications_
  due,        \* the timer that clears it runs in the same pass as the notifications
  listening,  \* "listen rcfile" was executed
  pc,         \* which handler is running
  alive,      \* the process has not crashed
  count,      \* what the bounds bound
  excused,    \* history: names for which an event or a change was lost
  hastened,   \* history: ids deleted while their insertion was not yet seen
  clobbered,  \* history: watches whose entry was erased under a file's id, or
              \* that were removed through an uninitialised descriptor
  outrun,     \* history: files that a notification changed while an event of
              \* R's about them was left in the bufferevent
  misread     \* history: names whose characters were read as an event of a watch
              \* that is not there

dirState == <<disk, watchOf, nextWd>>
database == <<rows, nextId>>
dbQueues == <<wire, notes>>
indexes  == <<filesById, byWd, manual>>
fsQueues == <<kernelQ, input, batch>>
history  == <<excused, hastened, clobbered, outrun, misread>>
session  == <<ignoreFS, due, listening, pc, alive>>
vars     == <<dirState, database, dbQueues, indexes, fsQueues, session, count, history>>

Present == DOMAIN disk
Known == DOMAIN filesById
KnownNames == {filesById[id].name : id \in Known}
RowNames == {rows[id].name : id \in DOMAIN rows}

FileInfo == [name: Names, version: Nat, wd: Nat]
RowType  == [name: Names, version: Nat, data: Nat]
Note     == [op: {"i", "u", "d"}, id: Nat, name: Names]

\* f without the entry for x, f with x |-> v
Without(f, x) == Restrict(f, DOMAIN f \ {x})
With(f, x, v) == [y \in DOMAIN f \cup {x} |-> IF y = x THEN v ELSE f[y]]

\* A notification carries the row's id; its name is a history.
NoteOf(op, id) == [op |-> op, id |-> id, name |-> rows[id].name]

\* One unit of the event stream.  An event of the directory's watch is a header
\* and a name, one of a file's watch is a header.  by is a history: who did it.
Unit(kind, n, wd, by) == [kind |-> kind, name |-> n, wd |-> wd, by |-> by]
CreateUnits(n, by) ==
  IF watchOf[Dir] = 0 THEN <<>> ELSE <<Unit("create", n, 0, by), Unit("name", n, 0, by)>>

Bump(c) == [count EXCEPT ![c] = @ + 1]
Stamp   == count.writes + count.foreign + 1

\* Every statement of the session is answered or refused.
Answered(ok) ==
  /\ ok \/ count.faults < MaxFaults
  /\ count' = IF ok THEN count ELSE Bump("faults")

\* A statement reads what has come on the socket; the notification of the
\* session's own commit comes with its answer.
Absorb(own) ==
  /\ notes' = notes \o wire \o (IF listening THEN own ELSE <<>>)
  /\ wire' = <<>>

InsertPending(id) == \E i \in DOMAIN (notes \o wire) :
                        (notes \o wire)[i].op = "i" /\ (notes \o wire)[i].id = id

\* Mutant: the entry is filed under the file's id.
watchFileUnderId(id, files) ==
  LET n  == files[id].name
      wd == IF watchOf[n] # 0 THEN watchOf[n] ELSE nextWd
  IN /\ watchOf' = [watchOf EXCEPT ![n] = wd] /\ nextWd' = nextWd + 1
     /\ filesById' = [files EXCEPT ![id].wd = wd] /\ byWd' = With(byWd, id, id)

\* Mutant: the descriptor is not kept in the file object.
watchFileForgotten(id, files) ==
  /\ watchOf' = [watchOf EXCEPT ![files[id].name] = nextWd] /\ nextWd' = nextWd + 1
  /\ filesById' = files /\ byWd' = With(byWd, nextWd, id)

\* Mutant: inotify_add_watch's -1 is taken for a descriptor.
watchFileUnchecked(id, files) ==
  /\ watchOf' = [watchOf EXCEPT ![files[id].name] = -1] /\ nextWd' = nextWd
  /\ filesById' = [files EXCEPT ![id].wd = -1] /\ byWd' = With(byWd, -1, id)

\* watchFile(files[id]): the same inode keeps its descriptor.
watchFile(id, files) ==
  LET n  == files[id].name
      wd == IF watchOf[n] # 0 THEN watchOf[n] ELSE nextWd
  IN /\ watchOf' = [watchOf EXCEPT ![n] = wd]
     /\ nextWd' = IF wd = nextWd THEN nextWd + 1 ELSE nextWd
     /\ filesById' = [files EXCEPT ![id].wd = wd]
     /\ byWd' = With(byWd, wd, id)

-----------------------------------------------------------------------------
(* DBFileSource.  A transaction's statements run with nothing of the session *)
(* between them and the row's lock held: each operation is one commit, or    *)
(* one refusal that rolls back and reaches the caller as an exception.       *)

\* A second row of one name is refused (external: the table's constraint).
newFile(n) == With(filesById, nextId, [name |-> n, version |-> 1, wd |-> 0])

insertDBFile(n) ==
  /\ n \notin RowNames
  /\ rows' = With(rows, nextId, [name |-> n, version |-> 1, data |-> disk[n]])
  /\ nextId' = nextId + 1
  /\ Absorb(<<[op |-> "i", id |-> nextId, name |-> n]>>)
  /\ UNCHANGED excused

\* There is no such file; nextval is not rolled back.
insertFails == nextId' = nextId + 1 /\ Absorb(<<>>) /\ UNCHANGED rows

\* The file has no row and, from now on, no events.
insertRefused(n) == insertFails /\ excused' = excused \cup {n}

\* Mutant: the row keeps its version.
updateDBFileSameVersion(id, n) ==
  IF id \notin DOMAIN rows THEN Absorb(<<>>) /\ UNCHANGED <<rows, filesById>>
  ELSE /\ rows' = [rows EXCEPT ![id].data = disk[n]]
       /\ Absorb(<<NoteOf("u", id)>>) /\ UNCHANGED filesById

\* The new version is the memory's plus one, whatever the row's is.
updateDBFile(id, n) ==
  LET new == filesById[id].version + 1
  IN IF id \notin Known THEN Absorb(<<>>) /\ UNCHANGED <<rows, filesById>>
     ELSE /\ filesById' = [filesById EXCEPT ![id].version = new]
          /\ IF id \notin DOMAIN rows THEN Absorb(<<>>) /\ UNCHANGED rows
             ELSE /\ rows' = [rows EXCEPT ![id].version = new, ![id].data = disk[n]]
                  /\ Absorb(<<NoteOf("u", id)>>)

removeDBFile(id) ==
  /\ filesById' = Without(filesById, id) /\ rows' = Without(rows, id)
  /\ Absorb(IF id \notin DOMAIN rows THEN <<>> ELSE <<NoteOf("d", id)>>)
  /\ hastened' = IF InsertPending(id) THEN hastened \cup {id} ELSE hastened

\* Mutant: a file object that is already there is kept as it is.
fileFromRowOnce(id) ==
  IF id \in Known THEN filesById
  ELSE With(filesById, id, [name |-> rows[id].name, version |-> rows[id].version, wd |-> 0])

\* The row becomes the file object and the file's content, which inotify sees.
fileFromRow(id) ==
  With(filesById, id, [name |-> rows[id].name, version |-> rows[id].version,
                       wd |-> IF id \in Known THEN filesById[id].wd ELSE 0])

\* What a notification does to the file comes before what an earlier read left.
Outruns(n) ==
  outrun' = outrun \cup {u.name : u \in {v \in Range(input) : v.name = n /\ v.by = "R"}}

\* Mutant: a file that exists is not overwritten.
writeFileNew(n, data) ==
  /\ Outruns(n)
  /\ IF n \in Present THEN UNCHANGED <<disk, kernelQ>>
     ELSE disk' = With(disk, n, data) /\ kernelQ' = kernelQ \o CreateUnits(n, "self")

writeFile(n, data) ==
  /\ Outruns(n)
  /\ disk' = With(disk, n, data)
  /\ kernelQ' = kernelQ \o
       (CASE n \notin Present -> CreateUnits(n, "self")
          [] n \in Present /\ watchOf[n] # 0 -> <<Unit("closeWrite", n, watchOf[n], "self")>>
          [] OTHER -> <<>>)

-----------------------------------------------------------------------------
Init ==
  /\ disk = <<>> /\ watchOf = [n \in Names \cup {Dir} |-> 0] /\ nextWd = 1
  /\ \E old \in SUBSET Names :                 \* files of an earlier session
       LET ids == FirstId .. FirstId + 1
       IN \E f \in [old -> ids] :
            /\ \A m, n \in old : f[m] = f[n] => m = n
            /\ rows = [id \in {f[n] : n \in old} |->
                         [name |-> CHOOSE n \in old : f[n] = id,
                          version |-> 1, data |-> 0]]
  /\ nextId = FirstId + 2
  /\ wire = <<>> /\ notes = <<>>
  /\ filesById = <<>> /\ byWd = <<>> /\ manual = {}
  /\ kernelQ = <<>> /\ input = <<>> /\ batch = <<>>
  /\ ignoreFS = FALSE /\ due = FALSE /\ listening = FALSE
  /\ pc = "load" /\ alive = TRUE
  /\ count = [writes |-> 0, removals |-> 0, foreign |-> 0, scripts |-> 0, faults |-> 0]
  /\ excused = {} /\ hastened = {} /\ clobbered = {} /\ outrun = {} /\ misread = {}

-----------------------------------------------------------------------------
(* initFileManager *)

\* connect: every row becomes a file object and a file.
connect ==
  /\ pc = "load" /\ pc' = "setup"
  /\ \E ok \in BOOLEAN :
       /\ Answered(ok)
       /\ filesById' = IF ~ok THEN <<>> ELSE
            [id \in DOMAIN rows |-> [name |-> rows[id].name,
                                     version |-> rows[id].version, wd |-> 0]]
       /\ disk' = IF ~ok THEN <<>> ELSE
            [n \in RowNames |->
               rows[CHOOSE id \in DOMAIN rows : rows[id].name = n].data]
       /\ excused' = IF ok THEN excused ELSE RowNames
  /\ UNCHANGED <<watchOf, nextWd, database, dbQueues, byWd, manual, fsQueues, ignoreFS,
                 due, listening, alive, hastened, clobbered, outrun, misread>>

setupInotify ==
  /\ pc = "setup" /\ pc' = "listen"
  /\ LET wd == [id \in Known |-> 1 + Cardinality({j \in Known : j <= id})]
     IN /\ filesById' = [id \in Known |-> [filesById[id] EXCEPT !.wd = wd[id]]]
        /\ byWd' = [w \in {wd[id] : id \in Known} |-> CHOOSE id \in Known : wd[id] = w]
        /\ watchOf' = [n \in Names \cup {Dir} |->
                         IF n = Dir THEN 1 ELSE IF n \notin KnownNames THEN 0
                         ELSE wd[CHOOSE id \in Known : filesById[id].name = n]]
  /\ nextWd' = 2 + Cardinality(Known)
  /\ UNCHANGED <<disk, database, dbQueues, manual, fsQueues, ignoreFS, due, listening,
                 alive, count, history>>

\* The result of "listen rcfile" is not looked at.
listen ==
  /\ pc = "listen" /\ pc' = "idle"
  /\ \E ok \in BOOLEAN : Answered(ok) /\ listening' = ok
  /\ UNCHANGED <<dirState, database, dbQueues, indexes, fsQueues, ignoreFS, due, alive,
                 history>>

-----------------------------------------------------------------------------
(* R, and findOrAddFile for the files an Rmd or Sweave command produces *)

\* A command arrives: a lower priority than inotify, so nothing is queued there.
StartScript ==
  /\ pc = "idle" /\ kernelQ = <<>> /\ count.scripts < MaxScripts
  /\ pc' = "script" /\ manual' = {} /\ count' = Bump("scripts")
  /\ UNCHANGED <<dirState, database, dbQueues, filesById, byWd, fsQueues, ignoreFS, due,
                 listening, alive, history>>

\* R writes a file: a new inode, one that is watched, or one nobody watches.
RWrite(n) ==
  /\ pc = "script" /\ count.writes < MaxWrites
  /\ count' = Bump("writes") /\ disk' = With(disk, n, Stamp)
  /\ kernelQ' = kernelQ \o
       (CASE n \notin Present -> CreateUnits(n, "R")
          [] n \in Present /\ watchOf[n] # 0 -> <<Unit("closeWrite", n, watchOf[n], "R")>>
          [] OTHER -> <<>>)
  /\ excused' = IF \/ n \in Present \cap KnownNames /\ watchOf[n] = 0
                   \/ n \notin Present /\ watchOf[Dir] = 0
                THEN excused \cup {n} ELSE excused
  /\ UNCHANGED <<watchOf, nextWd, database, dbQueues, indexes, input, batch, session,
                 hastened, clobbered, outrun, misread>>

RRemove(n) ==
  /\ pc = "script" /\ n \in Present /\ count.removals < MaxRemovals
  /\ count' = Bump("removals") /\ disk' = Without(disk, n)
  /\ watchOf' = [watchOf EXCEPT ![n] = 0]
  /\ kernelQ' = IF watchOf[n] = 0 THEN kernelQ
                ELSE Append(kernelQ, Unit("deleteSelf", n, watchOf[n], "R"))
  /\ excused' = IF n \in KnownNames /\ watchOf[n] = 0 THEN excused \cup {n} ELSE excused
  /\ UNCHANGED <<nextWd, database, dbQueues, indexes, input, batch, session, hastened,
                 clobbered, outrun, misread>>

\* findOrAddFile: the file gets a row and a file object, and no watch.
findOrAddFile(n) ==
  /\ pc = "script" /\ n \in Present \ KnownNames
  /\ \E ok \in BOOLEAN :
       /\ Answered(ok)
       /\ IF ok
          THEN insertDBFile(n) /\ filesById' = newFile(n) /\ manual' = manual \cup {n}
          ELSE insertRefused(n) /\ UNCHANGED <<filesById, manual>>
  /\ UNCHANGED <<dirState, byWd, fsQueues, session, hastened, clobbered, outrun, misread>>

EndScript ==
  /\ pc = "script" /\ pc' = "idle"
  /\ UNCHANGED <<dirState, database, dbQueues, indexes, fsQueues, ignoreFS, due,
                 listening, alive, count, history>>

-----------------------------------------------------------------------------
(* Other clients commit changes *)

Foreign(op, id, n) ==
  /\ alive /\ count.foreign < MaxForeign /\ count' = Bump("foreign")
  /\ IF listening
     THEN wire' = Append(wire, [op |-> op, id |-> id, name |-> n]) /\ UNCHANGED excused
     ELSE excused' = excused \cup {n} /\ UNCHANGED wire
  /\ UNCHANGED <<dirState, notes, indexes, fsQueues, session, clobbered, outrun, misread>>

ForeignInsert(n) ==
  /\ n \notin RowNames
  /\ rows' = With(rows, nextId, [name |-> n, version |-> 1, data |-> Stamp])
  /\ nextId' = nextId + 1
  /\ Foreign("i", nextId, n) /\ UNCHANGED hastened

ForeignUpdate(id) ==
  /\ id \in DOMAIN rows
  /\ rows' = [rows EXCEPT ![id].version = @ + 1, ![id].data = Stamp]
  /\ Foreign("u", id, rows[id].name) /\ UNCHANGED <<nextId, hastened>>

ForeignDelete(id) ==
  /\ id \in DOMAIN rows
  /\ rows' = Without(rows, id)
  /\ hastened' = IF InsertPending(id) THEN hastened \cup {id} ELSE hastened
  /\ Foreign("d", id, rows[id].name) /\ UNCHANGED nextId

-----------------------------------------------------------------------------
(* handleInotifyEvent *)

\* One read takes at most I_BUF_LEN bytes; the rest stays in the bufferevent
\* until the kernel has more.  While ignoring, what was read is dropped.
handleInotifyEvent ==
  /\ pc = "idle" /\ kernelQ # <<>>
  /\ LET got  == input \o kernelQ
         read == SubSeq(got, 1, Min({BufUnits, Len(got)}))
     IN /\ input' = SubSeq(got, BufUnits + 1, Len(got)) /\ kernelQ' = <<>>
        /\ IF ignoreFS
           THEN /\ excused' = excused \cup
                     {read[i].name : i \in {j \in DOMAIN read : read[j].by = "R"}}
                /\ UNCHANGED <<batch, pc, ignoreFS>>
           ELSE batch' = read /\ pc' = "inotify" /\ ignoreFS' = TRUE /\ UNCHANGED excused
  /\ UNCHANGED <<dirState, database, dbQueues, indexes, due, listening, alive, count,
                 hastened, clobbered, outrun, misread>>

Event(kind) == pc = "inotify" /\ batch # <<>> /\ Head(batch).kind = kind
Skip(k) == batch' = SubSeq(batch, k + 1, Len(batch))
Lost(n) == excused' = excused \cup {n}

\* A name that the read cut off from its header is taken for an event.  Bytes 12
\* to 15 of a short one are zero: no branch handles it and the next unit is read.
CutName ==
  /\ Event("name") /\ Head(batch).name \notin LongNames /\ Skip(1)
  /\ UNCHANGED <<dirState, database, dbQueues, indexes, kernelQ, input, session, count,
                 history>>

\* Those of a long one are a length: some of what was read, or all of it, is
\* skipped.  Where reading goes on between two events, what it finds is handled by
\* no branch, as the creation of a file that does not exist, or as an event of a
\* watch without an entry, a null pointer.  (That its bytes spell the number of a
\* watch, or the name of a file, is left out.)
CutLongName ==
  /\ Event("name") /\ Head(batch).name \in LongNames
  /\ \E k \in 1 .. Len(batch) :
       /\ Skip(k)
       /\ excused' = excused \cup {batch[i].name : i \in {j \in 1 .. k : batch[j].by = "R"}}
  /\ UNCHANGED <<database, dbQueues>> \/ insertFails
  /\ \/ UNCHANGED <<pc, alive, misread>>
     \/ alive' = FALSE /\ pc' = "crashed" /\ misread' = misread \cup {Head(batch).name}
  /\ UNCHANGED <<dirState, indexes, kernelQ, input, ignoreFS, due, listening, count,
                 hastened, clobbered, outrun>>

\* A file added by findOrAddFile, a name already known, or a header alone, where the
\* bytes behind what was read are taken for a name and it starts with a dot.
CreateSkipped ==
  LET n == Head(batch).name
  IN /\ Event("create")
     /\ \/ Len(batch) = 1 /\ Lost(n)
        \/ /\ Len(batch) > 1 /\ n \in manual \cup KnownNames
           /\ IF n \in manual \/ watchOf[n] # 0 THEN UNCHANGED excused ELSE Lost(n)
     /\ Skip(IF Len(batch) = 1 THEN 1 ELSE 2)
     /\ UNCHANGED <<dirState, database, dbQueues, indexes, kernelQ, input, session,
                    count, hastened, clobbered, outrun, misread>>

\* A file that is gone again, or a header alone whose bytes behind name no file.
CreateFailed ==
  LET n == Head(batch).name
  IN /\ Event("create")
     /\ \/ Len(batch) = 1 /\ Lost(n)
        \/ /\ Len(batch) > 1 /\ n \notin Present \cup manual \cup KnownNames
           /\ UNCHANGED excused
     /\ Skip(IF Len(batch) = 1 THEN 1 ELSE 2)
     /\ insertFails
     /\ UNCHANGED <<dirState, indexes, kernelQ, input, session, count, hastened, clobbered,
                    outrun, misread>>

\* insertDBFile and watchFile.
CreateInserted ==
  LET n == Head(batch).name
  IN /\ Event("create") /\ Len(batch) > 1 /\ n \in Present \ (manual \cup KnownNames)
     /\ Skip(2)
     /\ \E ok \in BOOLEAN :
          /\ Answered(ok)
          /\ IF ok
             THEN insertDBFile(n) /\ watchFile(nextId, newFile(n))
             ELSE insertRefused(n) /\ UNCHANGED <<watchOf, nextWd, filesById, byWd>>
     /\ manual' = manual
     /\ UNCHANGED <<disk, kernelQ, input, session, hastened, clobbered, outrun, misread>>

\* filesByWatchDesc_[wd] without an entry is a null pointer, dereferenced.
NoEntry ==
  /\ pc = "inotify" /\ batch # <<>> /\ Head(batch).kind \in {"closeWrite", "deleteSelf"}
  /\ Head(batch).wd \notin DOMAIN byWd
  /\ alive' = FALSE /\ pc' = "crashed"
  /\ UNCHANGED <<dirState, database, dbQueues, indexes, fsQueues, ignoreFS, due,
                 listening, count, history>>

CloseWrite ==
  LET e == Head(batch)
      id == byWd[e.wd]
  IN /\ Event("closeWrite") /\ e.wd \in DOMAIN byWd /\ Skip(1)
     /\ IF e.name \notin Present          \* stat fails
        THEN UNCHANGED <<rows, dbQueues, filesById, count, excused>>
        ELSE \E ok \in BOOLEAN :
               /\ Answered(ok)
               /\ IF ok THEN updateDBFile(id, e.name) /\ UNCHANGED excused
                  ELSE Lost(e.name) /\ Absorb(<<>>) /\ UNCHANGED <<rows, filesById>>
     /\ UNCHANGED <<dirState, nextId, byWd, manual, kernelQ, input, session, hastened,
                    clobbered, outrun, misread>>

\* The entry that is erased is the one under the file's id, not under its watch.
forget(id, unwatched) ==
  /\ byWd' = Without(byWd, id)
  /\ clobbered' = clobbered \cup ({id} \cap DOMAIN byWd) \cup unwatched

DeleteSelf ==
  LET e == Head(batch)
      id == byWd[e.wd]
  IN /\ Event("deleteSelf") /\ e.wd \in DOMAIN byWd /\ Skip(1)
     /\ \E ok \in BOOLEAN :
          /\ Answered(ok)
          /\ IF ok THEN removeDBFile(id) /\ UNCHANGED excused
             ELSE Lost(e.name) /\ Absorb(<<>>) /\ UNCHANGED <<rows, filesById, hastened>>
     /\ forget(id, {})
     /\ UNCHANGED <<dirState, nextId, manual, kernelQ, input, session, outrun, misread>>

EndBatch ==
  /\ pc = "inotify" /\ batch = <<>> /\ pc' = "idle"
  /\ UNCHANGED <<dirState, database, dbQueues, indexes, fsQueues, ignoreFS, due,
                 listening, alive, count, history>>

-----------------------------------------------------------------------------
(* handleDBNotifications *)

\* Mutant: the two events have one priority.
handleDBNotificationsAnytime ==
  /\ pc = "idle" /\ wire # <<>>
  /\ Absorb(<<>>) /\ pc' = "notes"
  /\ ignoreFS' = TRUE /\ due' \in {FALSE, ignoreFS}
  /\ UNCHANGED <<dirState, database, indexes, fsQueues, listening, alive, count,
                 history>>

\* consumeInput takes what is on the socket.  The timer that ends ignoring may be
\* due in the same pass of the event loop, and then runs right after this.
handleDBNotifications ==
  /\ pc = "idle" /\ kernelQ = <<>> /\ wire # <<>>
  /\ Absorb(<<>>) /\ pc' = "notes"
  /\ ignoreFS' = TRUE /\ due' \in {FALSE, ignoreFS}
  /\ UNCHANGED <<dirState, database, indexes, fsQueues, listening, alive, count,
                 history>>

Noted(op) == pc = "notes" /\ notes # <<>> /\ Head(notes).op = op
noted == Head(notes).id

\* A statement of the handler absorbs too, after the notification it is for.
Reload ==
  /\ notes' = Tail(notes) \o wire
  /\ wire' = <<>>

noteUnknown ==
  /\ Noted("d") \/ Noted("u")
  /\ noted \notin Known
  /\ notes' = Tail(notes)
  /\ UNCHANGED <<dirState, database, wire, indexes, fsQueues, session, count, history>>

\* The constructor of DBFileInfo leaves watchDescriptor uninitialised: for a file
\* that was never watched, inotify_rm_watch may remove any watch, the directory's
\* included, or none.
noteDelete ==
  LET n  == filesById[noted].name
      wd == filesById[noted].wd
  IN /\ Noted("d") /\ noted \in Known
     /\ notes' = Tail(notes)
     /\ \E w \in IF wd # 0 THEN {wd} ELSE {0} \cup {watchOf[m] : m \in DOMAIN watchOf} :
          /\ watchOf' = [m \in DOMAIN watchOf |->
                           IF m = n \/ watchOf[m] = w THEN 0 ELSE watchOf[m]]
          /\ forget(noted, IF wd # 0 THEN {} ELSE {w} \ {0})
     /\ disk' = Without(disk, n) /\ Outruns(n)
     /\ filesById' = Without(filesById, noted)
     /\ UNCHANGED <<nextWd, database, wire, manual, fsQueues, session, count, excused,
                    hastened, misread>>

\* loadFiles and watchFile; with no row and no file object, a null pointer.
noteInsert ==
  LET n == IF noted \in DOMAIN rows THEN rows[noted].name ELSE filesById[noted].name
  IN /\ Noted("i") /\ Reload
     /\ \E ok \in BOOLEAN :
          /\ Answered(ok)
          /\ excused' = IF ok THEN excused ELSE excused \cup {Head(notes).name}
          /\ CASE ok /\ noted \in DOMAIN rows ->
                    /\ writeFile(n, rows[noted].data)
                    /\ watchFile(noted, fileFromRow(noted))
                    /\ UNCHANGED <<pc, alive>>
               [] ~(ok /\ noted \in DOMAIN rows) /\ noted \in Known ->
                    /\ IF n \in Present THEN watchFile(noted, filesById)
                       ELSE UNCHANGED <<watchOf, nextWd, filesById, byWd>>
                    /\ UNCHANGED <<disk, kernelQ, pc, alive, outrun>>
               [] OTHER ->
                    /\ alive' = FALSE /\ pc' = "crashed"
                    /\ UNCHANGED <<dirState, filesById, byWd, kernelQ, outrun>>
     /\ manual' = manual
     /\ UNCHANGED <<database, input, batch, ignoreFS, due, listening, hastened,
                    clobbered, misread>>

noteUpdate ==
  /\ Noted("u") /\ noted \in Known /\ Reload
  /\ \E ok \in BOOLEAN :
       /\ Answered(ok)
       /\ excused' = IF ok THEN excused ELSE excused \cup {Head(notes).name}
       /\ IF ok /\ noted \in DOMAIN rows
          THEN /\ writeFile(rows[noted].name, rows[noted].data)
               /\ filesById' = fileFromRow(noted)
          ELSE UNCHANGED <<disk, kernelQ, filesById, outrun>>
  /\ UNCHANGED <<watchOf, nextWd, database, byWd, manual, input, batch, session,
                 hastened, clobbered, misread>>

\* Mutant: one notification for each wake-up.
EndNotesEarly ==
  /\ pc = "notes" /\ pc' = "idle"
  /\ ignoreFS' = ~due /\ due' = FALSE
  /\ UNCHANGED <<dirState, database, dbQueues, indexes, fsQueues, listening, alive,
                 count, history>>

EndNotes ==
  /\ pc = "notes" /\ notes = <<>> /\ pc' = "idle"
  /\ ignoreFS' = ~due /\ due' = FALSE
  /\ UNCHANGED <<dirState, database, dbQueues, indexes, fsQueues, listening, alive,
                 count, history>>

\* The timer of ignoreFSNotifications: a lower priority than inotify.
handleIgnoreFSNotesOff ==
  /\ pc = "idle" /\ kernelQ = <<>> /\ ignoreFS /\ ignoreFS' = FALSE
  /\ UNCHANGED <<dirState, database, dbQueues, indexes, fsQueues, due, listening, pc,
                 alive, count, history>>

-----------------------------------------------------------------------------
Startup == connect \/ setupInotify \/ listen
R == \/ StartScript \/ EndScript
     \/ \E n \in Names : RWrite(n) \/ RRemove(n) \/ findOrAddFile(n)
Others == \/ \E n \in Names : ForeignInsert(n)
          \/ \E id \in DOMAIN rows : ForeignUpdate(id) \/ ForeignDelete(id)
Inotify == \/ handleInotifyEvent \/ CutName \/ CutLongName \/ CreateSkipped \/ CreateFailed
           \/ CreateInserted \/ NoEntry \/ CloseWrite \/ DeleteSelf \/ EndBatch
Notifications == \/ handleDBNotifications \/ noteUnknown \/ noteDelete \/ noteInsert
                 \/ noteUpdate \/ EndNotes

Next == Startup \/ R \/ Others \/ Inotify \/ Notifications \/ handleIgnoreFSNotesOff

\* The event loop runs what is ready, and a script ends.
Spec == /\ Init /\ [][Next]_vars
        /\ WF_vars(Startup \/ EndScript \/ Inotify \/ Notifications)

-----------------------------------------------------------------------------
(* Properties *)

Units == kernelQ \o input \o batch
Notified == notes \o wire
PendingFile(n) == \E i \in DOMAIN Units : Units[i].name = n
PendingNote(id) == \E i \in DOMAIN Notified : Notified[i].id = id

\* What the variables hold.
TypeOK ==
  /\ Present \subseteq Names /\ \A n \in Present : disk[n] \in Nat
  /\ watchOf \in [Names \cup {Dir} -> Nat] /\ nextWd \in Nat \ {0}
  /\ \A id \in DOMAIN rows : id \in Nat /\ rows[id] \in RowType
  /\ nextId \in Nat
  /\ wire \in Seq(Note) /\ notes \in Seq(Note)
  /\ \A id \in Known : id \in Nat /\ filesById[id] \in FileInfo
  /\ \A w \in DOMAIN byWd : w \in Nat /\ byWd[w] \in Nat
  /\ manual \subseteq Names
  /\ {ignoreFS, due, listening, alive} \subseteq BOOLEAN
  /\ pc \in {"load", "setup", "listen", "idle", "script", "inotify", "notes", "crashed"}
  /\ excused \subseteq Names

\* The file table agrees with the database: a file is known exactly when it has
\* a row, with the row's version, unless a notification about it is still to be
\* processed or an event of it was lost (loadFiles, insertDBFile, updateDBFile,
\* removeDBFile, processDBNotification).
Serving == alive /\ pc # "load"
CacheCoherent ==
  Serving => \A id \in Known \cup DOMAIN rows :
    \/ PendingNote(id)
    \/ id \in Known /\ filesById[id].name \in excused
    \/ id \in DOMAIN rows /\ rows[id].name \in excused
    \/ /\ id \in Known \cap DOMAIN rows
       /\ filesById[id].name = rows[id].name /\ filesById[id].version = rows[id].version

\* The directory agrees with the database: a file exists exactly when it has a
\* row and holds the row's content, unless an event of R's or a notification
\* about it is still to be processed, one was lost, or a notification's load
\* or removal overtook an event that an earlier read had left in the bufferevent.
DiskCoherent ==
  Serving => \A n \in Names \ (excused \cup outrun) :
    \/ \E i \in DOMAIN Units : Units[i].name = n /\ Units[i].by = "R"
    \/ \E i \in DOMAIN Notified : Notified[i].name = n
    \/ n \notin Present \cup RowNames
    \/ n \in Present /\ \E id \in DOMAIN rows : rows[id].name = n /\ rows[id].data = disk[n]

\* A file in the table is watched, and its watch leads back to it, unless its
\* insertion is still to be seen (which without "listen" it never is), its row
\* refused or its entry erased under another file's id (watchFile,
\* filesByWatchDesc_.erase).
WatchLeadsBack ==
  Serving /\ pc # "setup" => \A id \in Known :
    LET f == filesById[id]
    IN \/ f.name \in excused \/ PendingNote(id)
       \/ \E i \in DOMAIN Units : Units[i].name = f.name
       \/ f.wd \in clobbered \/ ~listening
       \/ f.wd # 0 /\ watchOf[f.name] = f.wd /\ f.wd \in DOMAIN byWd /\ byWd[f.wd] = id

\* The process dereferences a null pointer only when a file was deleted before
\* the notification of its insertion was processed, when the database refused
\* to give the row, when a watch's entry was erased under a file's id, or when
\* a read began in a name of 13 characters or more (FileManager.cpp:442).
CrashHasCause ==
  ~alive => hastened \cup clobbered # {} \/ misread # {} \/ count.faults > 0

\* A file's row is never replaced without a higher version, unless the session
\* had not yet processed a notification about it or one was lost (updateDBFile:
\* the memory's version plus one).
VersionGrows ==
  [][\A id \in DOMAIN rows \cap DOMAIN rows' :
       rows'[id].data # rows[id].data =>
         \/ rows'[id].version > rows[id].version
         \/ PendingNote(id) \/ rows[id].name \in excused]_vars

\* A notification's load never overwrites or removes a file while the kernel holds
\* an event of what R did to it: inotify events have the higher priority
\* (initFileManager, setupInotify).
InotifyFirst ==
  [][pc = "notes" => \A n \in Present :
       (n \notin DOMAIN disk' \/ disk'[n] # disk[n]) =>
         ~\E i \in DOMAIN kernelQ : kernelQ[i].name = n /\ kernelQ[i].by = "R"]_vars

\* What the session itself writes to the directory is never taken for R's work
\* (ignoreFSNotifications).
OwnWritesIgnored == \A i \in DOMAIN batch : batch[i].by = "R"

\* Once notifications are looked at, all of them are processed, those that
\* waited in libpq with them (handleDBNotifications).
NotificationsProcessed == pc = "notes" ~> (notes = <<>> \/ ~alive)
=============================================================================
