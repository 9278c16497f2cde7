---------------------------- MODULE FileSyncProofs ----------------------------
(***************************************************************************)
(* The file table follows the database, for any files, any bounds and any  *)
(* buffer; FileSyncWatchProofs goes on with the watches and the directory. *)
(*                                                                         *)
(* Typed adds to the types that tables are finite and what an event is.    *)
(* CacheInv compares rows and file objects: an id keeps its name, and      *)
(* wherever the two differ a notification of the kind that mends the       *)
(* difference is to be processed (an insertion for a row without a file    *)
(* object, a deletion for a file object without a row).  OwnEventsOnly is  *)
(* what the priorities of the event loop give: while notifications are     *)
(* processed the kernel holds only events of the session's own writes.     *)
(* CauseInv says which notifications find no row and which events find no  *)
(* entry, which is where a null pointer would be dereferenced.             *)
(*                                                                         *)
(* NotesInv, FilesUnique and WatchesApart are for the second module:       *)
(* notifications of one name come in the order of the ids, no two files of *)
(* the table have one name, and a descriptor is of one file.               *)
(***************************************************************************)
EXTENDS FileSync, FiniteSetTheorems, SequenceTheorems, TLAPS

-----------------------------------------------------------------------------
(* What the variables hold. *)

EventType == [kind: {"create", "name", "closeWrite", "deleteSelf"}, name: Names, wd: Nat,
              by: {"R", "self"}]
CountType == [writes: Nat, removals: Nat, foreign: Nat, scripts: Nat, faults: Nat]

DiskTyped(d) == DOMAIN d \subseteq Names /\ \A n \in DOMAIN d : d[n] \in Nat
RowsTyped(r) ==
  IsFiniteSet(DOMAIN r) /\ \A id \in DOMAIN r : id \in Nat /\ r[id] \in RowType
FilesTyped(f) ==
  IsFiniteSet(DOMAIN f) /\ \A id \in DOMAIN f : id \in Nat /\ f[id] \in FileInfo
EntriesTyped(e) == \A w \in DOMAIN e : w \in Nat /\ e[w] \in Nat

OutsideTyped ==
  /\ DiskTyped(disk) /\ RowsTyped(rows) /\ nextId \in Nat
  /\ watchOf \in [Names \cup {Dir} -> Nat] /\ nextWd \in Nat \ {0}
QueuesTyped ==
  /\ wire \in Seq(Note) /\ notes \in Seq(Note)
  /\ kernelQ \in Seq(EventType) /\ input \in Seq(EventType) /\ batch \in Seq(EventType)
TablesTyped == FilesTyped(filesById) /\ EntriesTyped(byWd) /\ manual \subseteq Names
FlagsTyped ==
  /\ {ignoreFS, due, listening, alive} \subseteq BOOLEAN
  /\ pc \in {"load", "setup", "listen", "idle", "script", "inotify", "notes", "crashed"}
  /\ excused \subseteq Names /\ count \in CountType

Typed == OutsideTyped /\ QueuesTyped /\ TablesTyped /\ FlagsTyped

-----------------------------------------------------------------------------
(* Functions *)

\* The types survive an entry more or less.
LEMMA DiskEntry ==
  ASSUME NEW d, DiskTyped(d), NEW n
  PROVE  /\ \A v \in Nat : n \in Names => DiskTyped(With(d, n, v))
         /\ DiskTyped(Without(d, n))
<1>1. ASSUME NEW v \in Nat, n \in Names PROVE DiskTyped(With(d, n, v))
  BY <1>1 DEF With, DiskTyped
<1>2. DiskTyped(Without(d, n))
  BY DEF Without, Restrict, DiskTyped
<1> QED
  BY <1>1, <1>2

LEMMA RowEntry ==
  ASSUME NEW r, RowsTyped(r), NEW id
  PROVE  /\ \A v \in RowType : id \in Nat => RowsTyped(With(r, id, v))
         /\ RowsTyped(Without(r, id))
<1>1. /\ IsFiniteSet(DOMAIN r \cup {id}) /\ IsFiniteSet(DOMAIN r \ {id})
      /\ \A jd \in DOMAIN r : jd \in Nat /\ r[jd] \in RowType
  BY FS_AddElement, FS_RemoveElement DEF RowsTyped
<1>2. ASSUME NEW v \in RowType, id \in Nat PROVE RowsTyped(With(r, id, v))
  <2> DEFINE s == With(r, id, v)
  <2>1. DOMAIN s = DOMAIN r \cup {id} /\ s[id] = v /\ \A y \in DOMAIN r \ {id} : s[y] = r[y]
    BY DEF With
  <2> HIDE DEF s
  <2>2. IsFiniteSet(DOMAIN s)
    BY <1>1, <2>1
  <2>3. ASSUME NEW jd \in DOMAIN s PROVE jd \in Nat /\ s[jd] \in RowType
    <3>1. CASE jd = id
      BY <1>2, <2>1, <3>1
    <3>2. CASE jd # id
      <4>1. jd \in DOMAIN r \ {id} /\ s[jd] = r[jd]
        BY <2>1, <3>2
      <4> QED
        BY <1>1, <4>1
    <3> QED
      BY <3>1, <3>2
  <2>4. RowsTyped(s)
    BY <2>2, <2>3 DEF RowsTyped
  <2> QED
    BY <2>4 DEF s
<1>3. RowsTyped(Without(r, id))
  <2> DEFINE s == Without(r, id)
  <2>1. DOMAIN s = DOMAIN r \ {id} /\ \A y \in DOMAIN r \ {id} : s[y] = r[y]
    BY DEF Without, Restrict
  <2> HIDE DEF s
  <2>2. RowsTyped(s)
    BY <1>1, <2>1 DEF RowsTyped
  <2> QED
    BY <2>2 DEF s
<1> QED
  BY <1>2, <1>3

LEMMA FileEntry ==
  ASSUME NEW f, FilesTyped(f), NEW id
  PROVE  /\ \A v \in FileInfo : id \in Nat => FilesTyped(With(f, id, v))
         /\ FilesTyped(Without(f, id))
<1>1. /\ IsFiniteSet(DOMAIN f \cup {id}) /\ IsFiniteSet(DOMAIN f \ {id})
      /\ \A jd \in DOMAIN f : jd \in Nat /\ f[jd] \in FileInfo
  BY FS_AddElement, FS_RemoveElement DEF FilesTyped
<1>2. ASSUME NEW v \in FileInfo, id \in Nat PROVE FilesTyped(With(f, id, v))
  <2> DEFINE s == With(f, id, v)
  <2>1. DOMAIN s = DOMAIN f \cup {id} /\ s[id] = v /\ \A y \in DOMAIN f \ {id} : s[y] = f[y]
    BY DEF With
  <2> HIDE DEF s
  <2>2. IsFiniteSet(DOMAIN s)
    BY <1>1, <2>1
  <2>3. ASSUME NEW jd \in DOMAIN s PROVE jd \in Nat /\ s[jd] \in FileInfo
    <3>1. CASE jd = id
      BY <1>2, <2>1, <3>1
    <3>2. CASE jd # id
      <4>1. jd \in DOMAIN f \ {id} /\ s[jd] = f[jd]
        BY <2>1, <3>2
      <4> QED
        BY <1>1, <4>1
    <3> QED
      BY <3>1, <3>2
  <2>4. FilesTyped(s)
    BY <2>2, <2>3 DEF FilesTyped
  <2> QED
    BY <2>4 DEF s
<1>3. FilesTyped(Without(f, id))
  <2> DEFINE s == Without(f, id)
  <2>1. DOMAIN s = DOMAIN f \ {id} /\ \A y \in DOMAIN f \ {id} : s[y] = f[y]
    BY DEF Without, Restrict
  <2> HIDE DEF s
  <2>2. FilesTyped(s)
    BY <1>1, <2>1 DEF FilesTyped
  <2> QED
    BY <2>2 DEF s
<1> QED
  BY <1>2, <1>3

LEMMA WatchEntry ==
  ASSUME NEW e, EntriesTyped(e), NEW w
  PROVE  /\ \A id \in Nat : w \in Nat => EntriesTyped(With(e, w, id))
         /\ EntriesTyped(Without(e, w))
<1>1. ASSUME NEW id \in Nat, w \in Nat PROVE EntriesTyped(With(e, w, id))
  BY <1>1 DEF With, EntriesTyped
<1>2. EntriesTyped(Without(e, w))
  BY DEF Without, Restrict, EntriesTyped
<1> QED
  BY <1>1, <1>2

-----------------------------------------------------------------------------
(* What the operations do to the types. *)

LEMMA AnsweredTypes ==
  ASSUME count \in CountType, NEW ok \in BOOLEAN, Answered(ok)
  PROVE  count' \in CountType
BY DEF Answered, Bump, CountType

LEMMA AbsorbTypes ==
  ASSUME notes \in Seq(Note), wire \in Seq(Note), NEW own \in Seq(Note), Absorb(own)
  PROVE  /\ notes' \in Seq(Note) /\ wire' \in Seq(Note)
         /\ Notified' = Notified \o (IF listening THEN own ELSE <<>>)
<1> DEFINE S == Seq(Note)
           more == IF listening THEN own ELSE <<>>
<1>1. more \in S /\ <<>> \in S /\ \A a, b \in S : a \o b \in S /\ a \o <<>> = a
  BY ConcatProperties
<1>2. notes' = notes \o wire \o more /\ wire' = <<>>
  BY DEF Absorb
<1> HIDE DEF S, more
<1>3. notes' \in S /\ wire' \in S
  BY <1>1, <1>2 DEF S
<1>4. Notified' = notes'
  BY <1>1, <1>2, <1>3 DEF Notified
<1> QED
  BY <1>2, <1>3, <1>4 DEF Notified, S, more

LEMMA WatchFileTypes ==
  ASSUME Typed, NEW files, FilesTyped(files), NEW id \in DOMAIN files, watchFile(id, files)
  PROVE  /\ watchOf' \in [Names \cup {Dir} -> Nat] /\ nextWd' \in Nat \ {0}
         /\ FilesTyped(filesById)' /\ EntriesTyped(byWd)'
<1> DEFINE n == files[id].name
           wd == IF watchOf[n] # 0 THEN watchOf[n] ELSE nextWd
<1>1. n \in Names /\ wd \in Nat /\ id \in Nat /\ files[id] \in FileInfo
  BY DEF FilesTyped, FileInfo, Typed, OutsideTyped
<1>2. /\ watchOf' = [watchOf EXCEPT ![n] = wd]
      /\ nextWd' = IF wd = nextWd THEN nextWd + 1 ELSE nextWd
      /\ filesById' = [files EXCEPT ![id].wd = wd]
      /\ byWd' = With(byWd, wd, id)
  BY DEF watchFile
<1> HIDE DEF wd, n
<1>3. watchOf' \in [Names \cup {Dir} -> Nat] /\ nextWd' \in Nat \ {0}
  BY <1>1, <1>2 DEF Typed, OutsideTyped
<1>4. FilesTyped(filesById')
  BY <1>1, <1>2 DEF FilesTyped, FileInfo
<1>5. EntriesTyped(byWd')
  BY <1>1, <1>2, WatchEntry DEF Typed, TablesTyped
<1> QED
  BY <1>3, <1>4, <1>5 DEF FilesTyped, EntriesTyped

\* What an action that leaves a part of the state alone leaves of its types.
LEMMA Untouched ==
  /\ OutsideTyped /\ UNCHANGED <<dirState, database>> => OutsideTyped'
  /\ QueuesTyped /\ UNCHANGED <<dbQueues, fsQueues>> => QueuesTyped'
  /\ TablesTyped /\ UNCHANGED indexes => TablesTyped'
<1>1. OutsideTyped /\ UNCHANGED <<dirState, database>> => OutsideTyped'
  BY DEF OutsideTyped, dirState, database, DiskTyped, RowsTyped
<1>2. QueuesTyped /\ UNCHANGED <<dbQueues, fsQueues>> => QueuesTyped'
  BY DEF QueuesTyped, dbQueues, fsQueues
<1>3. TablesTyped /\ UNCHANGED indexes => TablesTyped'
  BY DEF TablesTyped, indexes, FilesTyped, EntriesTyped
<1> QED
  BY <1>1, <1>2, <1>3

LEMMA UnitTypes ==
  ASSUME Typed, NEW n \in Names, NEW by \in {"R", "self"}
  PROVE  /\ CreateUnits(n, by) \in Seq(EventType)
         /\ <<Unit("closeWrite", n, watchOf[n], by)>> \in Seq(EventType)
         /\ <<Unit("deleteSelf", n, watchOf[n], by)>> \in Seq(EventType)
<1>1. watchOf[n] \in Nat /\ 0 \in Nat
  BY DEF Typed, OutsideTyped
<1>2. \A kind \in {"create", "name", "closeWrite", "deleteSelf"} : \A w \in Nat :
        Unit(kind, n, w, by) \in EventType
  BY DEF Unit, EventType
<1>3. \A u, v \in EventType : <<u, v>> \in Seq(EventType) /\ <<u>> \in Seq(EventType)
  OBVIOUS
<1>4. <<>> \in Seq(EventType)
  OBVIOUS
<1> QED
  BY <1>1, <1>2, <1>3, <1>4 DEF CreateUnits

LEMMA WriteFileTypes ==
  ASSUME Typed, NEW n \in Names, NEW data \in Nat, writeFile(n, data)
  PROVE  DiskTyped(disk)' /\ kernelQ' \in Seq(EventType)
<1>1. DiskTyped(With(disk, n, data))
  BY DiskEntry DEF Typed, OutsideTyped
<1>2. kernelQ' = kernelQ \/ \E q \in Seq(EventType) : kernelQ' = kernelQ \o q
  <2>1. CASE n \notin Present
    BY <2>1, UnitTypes DEF writeFile
  <2>2. CASE n \in Present /\ watchOf[n] # 0
    BY <2>2, UnitTypes DEF writeFile
  <2>3. CASE n \in Present /\ watchOf[n] = 0
    <3>1. kernelQ' = kernelQ \o <<>> /\ <<>> \in Seq(EventType)
      BY <2>3 DEF writeFile
    <3> QED
      BY <3>1
  <2> QED
    BY <2>1, <2>2, <2>3
<1>3. kernelQ' \in Seq(EventType)
  <2>1. kernelQ \in Seq(EventType)
    BY DEF Typed, QueuesTyped
  <2> QED
    BY <1>2, <2>1, ConcatProperties
<1> QED
  BY <1>1, <1>3 DEF writeFile, DiskTyped

LEMMA FileFromRowTypes ==
  ASSUME Typed, NEW id \in DOMAIN rows
  PROVE  FilesTyped(fileFromRow(id)) /\ id \in DOMAIN fileFromRow(id)
<1> DEFINE v == [name |-> rows[id].name, version |-> rows[id].version,
                 wd |-> IF id \in Known THEN filesById[id].wd ELSE 0]
<1>1. v \in FileInfo /\ id \in Nat
  BY DEF Typed, OutsideTyped, TablesTyped, RowsTyped, FilesTyped, RowType, FileInfo, Known
<1>2. fileFromRow(id) = With(filesById, id, v)
  BY DEF fileFromRow
<1> HIDE DEF v
<1>3. FilesTyped(filesById)
  BY DEF Typed, TablesTyped
<1>4. FilesTyped(With(filesById, id, v))
  BY <1>1, <1>3, FileEntry
<1>5. id \in DOMAIN With(filesById, id, v)
  BY DEF With
<1> QED
  BY <1>2, <1>4, <1>5

\* The head of a queue, and the queue without it.
LEMMA QueueHead ==
  ASSUME NEW X, NEW q \in Seq(X), q # <<>>
  PROVE  Head(q) \in X /\ Tail(q) \in Seq(X) /\ Head(q) = q[1] /\ 1 \in DOMAIN q
BY HeadTailProperties

LEMMA SkipTypes ==
  ASSUME Typed, batch # <<>>, NEW k \in Nat, Skip(k), k <= Len(batch)
  PROVE  Head(batch) \in EventType /\ batch' \in Seq(EventType)
<1>1. batch \in Seq(EventType) /\ Len(batch) \in Nat
  BY DEF Typed, QueuesTyped
<1>2. batch' \in Seq(EventType)
  BY <1>1, SubSeqProperties DEF Skip
<1>3. Head(batch) \in EventType
  BY <1>1, QueueHead
<1> QED
  BY <1>2, <1>3

LEMMA NoteTypes ==
  ASSUME NEW op \in {"i", "u", "d"}, NEW id \in Nat, NEW n \in Names
  PROVE  <<[op |-> op, id |-> id, name |-> n]>> \in Seq(Note) /\ <<>> \in Seq(Note)
<1>1. [op |-> op, id |-> id, name |-> n] \in Note
  BY DEF Note
<1> QED
  BY <1>1

LEMMA NoteOfTypes ==
  ASSUME Typed, NEW op \in {"i", "u", "d"}, NEW id \in DOMAIN rows
  PROVE  NoteOf(op, id) \in Note /\ <<NoteOf(op, id)>> \in Seq(Note)
<1>1. id \in Nat /\ rows[id].name \in Names
  BY DEF Typed, OutsideTyped, RowsTyped, RowType
<1>2. NoteOf(op, id) \in Note
  BY <1>1 DEF NoteOf, Note
<1> QED
  BY <1>2

\* What the statements on rcfile leave: rows, file objects and notifications.
LEMMA InsertTypes ==
  ASSUME Typed, NEW n \in Names
  PROVE  /\ FilesTyped(newFile(n)) /\ nextId \in DOMAIN newFile(n)
         /\ n \in Present /\ insertDBFile(n) =>
              RowsTyped(rows)' /\ nextId' \in Nat /\ notes' \in Seq(Note) /\ wire' \in Seq(Note)
         /\ insertFails \/ insertRefused(n) =>
              RowsTyped(rows)' /\ nextId' \in Nat /\ notes' \in Seq(Note) /\ wire' \in Seq(Note)
<1>1. /\ nextId \in Nat /\ RowsTyped(rows) /\ FilesTyped(filesById)
      /\ notes \in Seq(Note) /\ wire \in Seq(Note)
  BY DEF Typed, OutsideTyped, QueuesTyped, TablesTyped
<1>2. FilesTyped(newFile(n)) /\ nextId \in DOMAIN newFile(n)
  <2>1. [name |-> n, version |-> 1, wd |-> 0] \in FileInfo
    BY DEF FileInfo
  <2>2. FilesTyped(With(filesById, nextId, [name |-> n, version |-> 1, wd |-> 0]))
    BY <1>1, <2>1, FileEntry
  <2>3. nextId \in DOMAIN With(filesById, nextId, [name |-> n, version |-> 1, wd |-> 0])
    BY DEF With
  <2> QED
    BY <2>2, <2>3 DEF newFile
<1>3. ASSUME n \in Present, insertDBFile(n)
      PROVE  RowsTyped(rows)' /\ nextId' \in Nat /\ notes' \in Seq(Note) /\ wire' \in Seq(Note)
  <2>1. disk[n] \in Nat
    BY <1>3 DEF Typed, OutsideTyped, DiskTyped, Present
  <2>2. [name |-> n, version |-> 1, data |-> disk[n]] \in RowType
    BY <2>1 DEF RowType
  <2>3. RowsTyped(With(rows, nextId, [name |-> n, version |-> 1, data |-> disk[n]]))
    BY <1>1, <2>2, RowEntry
  <2>4. <<[op |-> "i", id |-> nextId, name |-> n]>> \in Seq(Note)
    BY <1>1, NoteTypes
  <2>5. notes' \in Seq(Note) /\ wire' \in Seq(Note)
    BY <1>1, <1>3, <2>4, AbsorbTypes DEF insertDBFile
  <2> QED
    BY <1>1, <1>3, <2>3, <2>5 DEF insertDBFile, RowsTyped
<1>4. ASSUME insertFails \/ insertRefused(n)
      PROVE  RowsTyped(rows)' /\ nextId' \in Nat /\ notes' \in Seq(Note) /\ wire' \in Seq(Note)
  <2>1. <<>> \in Seq(Note)
    OBVIOUS
  <2>2. notes' \in Seq(Note) /\ wire' \in Seq(Note)
    BY <1>1, <1>4, <2>1, AbsorbTypes DEF insertRefused, insertFails
  <2> QED
    BY <1>1, <1>4, <2>2 DEF insertRefused, insertFails, RowsTyped
<1> QED
  BY <1>2, <1>3, <1>4

\* A new version, or one with its new content, in place of a row or a file object.
LEMMA Replaced ==
  ASSUME Typed, NEW id \in Nat, NEW v \in Nat
  PROVE  /\ id \in Known => FilesTyped([filesById EXCEPT ![id].version = v])
         /\ \A d \in Nat : id \in DOMAIN rows =>
              RowsTyped([rows EXCEPT ![id].version = v, ![id].data = d])
<1>1. RowsTyped(rows) /\ FilesTyped(filesById)
  BY DEF Typed, OutsideTyped, TablesTyped
<1>2. ASSUME id \in Known PROVE FilesTyped([filesById EXCEPT ![id].version = v])
  BY <1>1, <1>2 DEF FilesTyped, FileInfo, Known
<1>3. ASSUME NEW d \in Nat, id \in DOMAIN rows
      PROVE  RowsTyped([rows EXCEPT ![id].version = v, ![id].data = d])
  BY <1>1, <1>3 DEF RowsTyped, RowType
<1> QED
  BY <1>2, <1>3

LEMMA UpdateTypes ==
  ASSUME Typed, NEW n \in Present, NEW id \in Nat, updateDBFile(id, n)
  PROVE  /\ RowsTyped(rows)' /\ FilesTyped(filesById)'
         /\ notes' \in Seq(Note) /\ wire' \in Seq(Note)
<1> DEFINE new == filesById[id].version + 1
<1>1. /\ RowsTyped(rows) /\ FilesTyped(filesById) /\ n \in Names /\ disk[n] \in Nat
      /\ notes \in Seq(Note) /\ wire \in Seq(Note)
  BY DEF Typed, OutsideTyped, QueuesTyped, TablesTyped, DiskTyped, Present
<1>2. <<>> \in Seq(Note)
  OBVIOUS
<1>3. notes' \in Seq(Note) /\ wire' \in Seq(Note)
  <2>1. Absorb(<<>>) \/ (id \in DOMAIN rows /\ Absorb(<<NoteOf("u", id)>>))
    BY DEF updateDBFile
  <2>2. id \in DOMAIN rows => <<NoteOf("u", id)>> \in Seq(Note)
    BY NoteOfTypes
  <2> QED
    BY <1>1, <1>2, <2>1, <2>2, AbsorbTypes
<1>4. CASE id \notin Known
  BY <1>1, <1>3, <1>4 DEF updateDBFile, RowsTyped, FilesTyped
<1>5. CASE id \in Known
  <2>1. new \in Nat
    BY <1>1, <1>5 DEF FilesTyped, FileInfo, Known
  <2>2. filesById' = [filesById EXCEPT ![id].version = new]
    BY <1>5 DEF updateDBFile
  <2>3. \/ rows' = rows
        \/ /\ id \in DOMAIN rows
           /\ rows' = [rows EXCEPT ![id].version = new, ![id].data = disk[n]]
    <3>1. CASE id \in DOMAIN rows
      BY <1>5, <3>1 DEF updateDBFile
    <3>2. CASE id \notin DOMAIN rows
      BY <1>5, <3>2 DEF updateDBFile
    <3> QED
      BY <3>1, <3>2
  <2> HIDE DEF new
  <2>4. FilesTyped([filesById EXCEPT ![id].version = new])
    BY <1>5, <2>1, Replaced
  <2>7. FilesTyped(filesById')
    BY <2>2, <2>4
  <2>5. id \in DOMAIN rows => RowsTyped([rows EXCEPT ![id].version = new, ![id].data = disk[n]])
    BY <1>1, <2>1, Replaced
  <2>6. RowsTyped(rows')
    BY <1>1, <2>3, <2>5
  <2> QED
    BY <1>3, <2>6, <2>7 DEF RowsTyped, FilesTyped
<1> QED
  BY <1>4, <1>5

LEMMA RemoveTypes ==
  ASSUME Typed, NEW id \in Nat, removeDBFile(id)
  PROVE  /\ RowsTyped(rows)' /\ FilesTyped(filesById)'
         /\ notes' \in Seq(Note) /\ wire' \in Seq(Note)
<1> DEFINE own == IF id \notin DOMAIN rows THEN <<>>
                  ELSE <<NoteOf("d", id)>>
<1>1. /\ RowsTyped(rows) /\ FilesTyped(filesById)
      /\ notes \in Seq(Note) /\ wire \in Seq(Note)
  BY DEF Typed, OutsideTyped, QueuesTyped, TablesTyped
<1>2. own \in Seq(Note)
  BY NoteOfTypes
<1>3. /\ filesById' = Without(filesById, id) /\ rows' = Without(rows, id)
      /\ Absorb(own)
  BY DEF removeDBFile
<1> HIDE DEF own
<1>4. notes' \in Seq(Note) /\ wire' \in Seq(Note)
  BY <1>1, <1>2, <1>3, AbsorbTypes
<1>5. RowsTyped(rows') /\ FilesTyped(filesById')
  BY <1>1, <1>3, RowEntry, FileEntry
<1> QED
  BY <1>4, <1>5 DEF RowsTyped, FilesTyped

-----------------------------------------------------------------------------
(* Every step keeps the types. *)

LEMMA InitTyped == Init => Typed
<1> SUFFICES ASSUME Init PROVE Typed
  OBVIOUS
<1>0. FirstId \in Nat /\ Dir \notin Names
  BY FileSyncAssumption
<1>1. RowsTyped(rows)
  <2> DEFINE ids == FirstId .. FirstId + 1
  <2>1. PICK old \in SUBSET Names : \E f \in [old -> ids] :
          /\ \A m, n \in old : f[m] = f[n] => m = n
          /\ rows = [id \in {f[n] : n \in old} |->
                       [name |-> CHOOSE n \in old : f[n] = id, version |-> 1, data |-> 0]]
    BY DEF Init
  <2>2. PICK f \in [old -> ids] :
          rows = [id \in {f[n] : n \in old} |->
                    [name |-> CHOOSE n \in old : f[n] = id, version |-> 1, data |-> 0]]
    BY <2>1
  <2>3. IsFiniteSet(ids) /\ ids \subseteq Nat
    BY <1>0, FS_Interval
  <2> HIDE DEF ids
  <2>4. DOMAIN rows = {f[n] : n \in old} /\ DOMAIN rows \subseteq ids
    BY <2>2
  <2>5. IsFiniteSet(DOMAIN rows)
    BY <2>3, <2>4, FS_Subset
  <2>6. ASSUME NEW id \in DOMAIN rows PROVE id \in Nat /\ rows[id] \in RowType
    <3>1. PICK n \in old : f[n] = id
      BY <2>4
    <3>2. (CHOOSE m \in old : f[m] = id) \in Names
      BY <3>1
    <3> DEFINE n0 == CHOOSE m \in old : f[m] = id
    <3>3. rows[id] = [name |-> n0, version |-> 1, data |-> 0]
      BY <2>2
    <3>4. n0 \in Names
      BY <3>2
    <3> HIDE DEF n0
    <3>5. [name |-> n0, version |-> 1, data |-> 0] \in RowType
      BY <3>4 DEF RowType
    <3> QED
      BY <2>3, <2>4, <3>3, <3>5
  <2> QED
    BY <2>5, <2>6 DEF RowsTyped
<1>2. OutsideTyped
  <2>1. DiskTyped(disk)
    BY DEF Init, DiskTyped
  <2> QED
    BY <1>0, <1>1, <2>1 DEF Init, OutsideTyped
<1>3. QueuesTyped
  BY DEF Init, QueuesTyped
<1>4. TablesTyped
  <2>1. filesById = <<>> /\ byWd = <<>> /\ manual = {} /\ DOMAIN <<>> = {}
    BY DEF Init
  <2>2. FilesTyped(<<>>) /\ EntriesTyped(<<>>)
    BY <2>1, FS_EmptySet DEF FilesTyped, EntriesTyped
  <2> QED
    BY <2>1, <2>2 DEF TablesTyped
<1>5. FlagsTyped
  BY DEF Init, FlagsTyped, CountType
<1> QED
  BY <1>2, <1>3, <1>4, <1>5 DEF Typed

LEMMA StartupTyped == ASSUME Typed, Startup PROVE Typed'
<1>1. ASSUME connect PROVE Typed'
  <2>1. PICK ok \in BOOLEAN :
          /\ Answered(ok)
          /\ filesById' = IF ~ok THEN <<>> ELSE
               [id \in DOMAIN rows |-> [name |-> rows[id].name,
                                        version |-> rows[id].version, wd |-> 0]]
          /\ disk' = IF ~ok THEN <<>> ELSE
               [n \in RowNames |->
                  rows[CHOOSE id \in DOMAIN rows : rows[id].name = n].data]
          /\ excused' = IF ok THEN excused ELSE RowNames
    BY <1>1 DEF connect
  <2>2. RowsTyped(rows) /\ RowNames \subseteq Names
    BY DEF Typed, OutsideTyped, RowsTyped, RowType, RowNames
  <2>3. FilesTyped(filesById')
    <3>1. CASE ok
      BY <2>1, <2>2, <3>1 DEF RowsTyped, RowType, FilesTyped, FileInfo
    <3>2. CASE ~ok
      <4>1. filesById' = <<>> /\ DOMAIN <<>> = {}
        BY <2>1, <3>2
      <4> QED
        BY <4>1, FS_EmptySet DEF FilesTyped
    <3> QED
      BY <3>1, <3>2
  <2>4. DiskTyped(disk')
    <3>1. ASSUME NEW n \in RowNames
          PROVE  rows[CHOOSE id \in DOMAIN rows : rows[id].name = n].data \in Nat
      <4>1. PICK id \in DOMAIN rows : rows[id].name = n
        BY DEF RowNames
      <4>2. (CHOOSE jd \in DOMAIN rows : rows[jd].name = n) \in DOMAIN rows
        BY <4>1
      <4> QED
        BY <2>2, <4>2 DEF RowsTyped, RowType
    <3>2. CASE ok
      BY <2>1, <2>2, <3>1, <3>2 DEF DiskTyped
    <3>3. CASE ~ok
      BY <2>1, <3>3 DEF DiskTyped
    <3> QED
      BY <3>2, <3>3
  <2>5. OutsideTyped'
    BY <1>1, <2>4 DEF Typed, OutsideTyped, connect, database, DiskTyped, RowsTyped
  <2>6. QueuesTyped'
    BY <1>1, Untouched DEF Typed, connect
  <2>7. TablesTyped'
    BY <1>1, <2>3 DEF Typed, TablesTyped, connect, FilesTyped, EntriesTyped
  <2>8. FlagsTyped'
    BY <1>1, <2>1, <2>2, AnsweredTypes DEF Typed, FlagsTyped, connect
  <2> QED
    BY <2>5, <2>6, <2>7, <2>8 DEF Typed
<1>2. ASSUME setupInotify PROVE Typed'
  <2> DEFINE wd == [id \in Known |-> 1 + Cardinality({j \in Known : j <= id})]
  <2>1. IsFiniteSet(Known) /\ Known \subseteq Nat /\ FilesTyped(filesById)
    BY DEF Typed, TablesTyped, FilesTyped, Known
  <2>2. \A id \in Known : wd[id] \in Nat
    <3>1. ASSUME NEW id \in Known PROVE Cardinality({j \in Known : j <= id}) \in Nat
      <4>1. {j \in Known : j <= id} \subseteq Known
        OBVIOUS
      <4> QED
        BY <2>1, <4>1, FS_Subset, FS_CardinalityType
    <3> QED
      BY <3>1
  <2>3. /\ filesById' = [id \in Known |-> [filesById[id] EXCEPT !.wd = wd[id]]]
        /\ byWd' = [w \in {wd[id] : id \in Known} |-> CHOOSE id \in Known : wd[id] = w]
        /\ watchOf' = [n \in Names \cup {Dir} |->
                         IF n = Dir THEN 1 ELSE IF n \notin KnownNames THEN 0
                         ELSE wd[CHOOSE id \in Known : filesById[id].name = n]]
        /\ nextWd' = 2 + Cardinality(Known)
    BY <1>2 DEF setupInotify
  <2> HIDE DEF wd
  <2>4. FilesTyped(filesById')
    BY <2>1, <2>2, <2>3 DEF FilesTyped, FileInfo, Known
  <2>5. EntriesTyped(byWd')
    <3>1. ASSUME NEW w \in {wd[id] : id \in Known}
          PROVE  w \in Nat /\ (CHOOSE id \in Known : wd[id] = w) \in Nat
      BY <2>1, <2>2
    <3> QED
      BY <2>3, <3>1 DEF EntriesTyped
  <2>6. watchOf' \in [Names \cup {Dir} -> Nat]
    <3>1. ASSUME NEW n \in KnownNames
          PROVE  wd[CHOOSE id \in Known : filesById[id].name = n] \in Nat
      <4>1. (CHOOSE id \in Known : filesById[id].name = n) \in Known
        BY DEF KnownNames
      <4> QED
        BY <2>2, <4>1
    <3> QED
      BY <2>3, <3>1
  <2>7. nextWd' \in Nat \ {0}
    <3>1. Cardinality(Known) \in Nat
      BY <2>1, FS_CardinalityType
    <3> QED
      BY <2>3, <3>1
  <2>8. OutsideTyped'
    BY <1>2, <2>6, <2>7 DEF Typed, OutsideTyped, setupInotify, database, DiskTyped, RowsTyped
  <2>9. QueuesTyped'
    BY <1>2, Untouched DEF Typed, setupInotify
  <2>10. TablesTyped'
    BY <1>2, <2>4, <2>5 DEF Typed, TablesTyped, setupInotify, FilesTyped, EntriesTyped
  <2>11. FlagsTyped'
    BY <1>2 DEF Typed, FlagsTyped, setupInotify, history
  <2> QED
    BY <2>8, <2>9, <2>10, <2>11 DEF Typed
<1>3. ASSUME listen PROVE Typed'
  <2>1. OutsideTyped' /\ QueuesTyped' /\ TablesTyped'
    BY <1>3, Untouched DEF Typed, listen
  <2>2. FlagsTyped'
    BY <1>3, AnsweredTypes DEF Typed, FlagsTyped, listen, history
  <2> QED
    BY <2>1, <2>2 DEF Typed
<1> QED
  BY <1>1, <1>2, <1>3 DEF Startup

LEMMA BumpTypes ==
  ASSUME count \in CountType,
         NEW c \in {"writes", "removals", "foreign", "scripts", "faults"}
  PROVE  Bump(c) \in CountType
BY DEF Bump, CountType

LEMMA RTyped == ASSUME Typed, R PROVE Typed'
<1>1. ASSUME StartScript PROVE Typed'
  <2>1. OutsideTyped' /\ QueuesTyped'
    BY <1>1, Untouched DEF Typed, StartScript
  <2>2. TablesTyped'
    BY <1>1 DEF Typed, TablesTyped, StartScript, FilesTyped, EntriesTyped
  <2>3. FlagsTyped'
    BY <1>1, BumpTypes DEF Typed, FlagsTyped, StartScript, history
  <2> QED
    BY <2>1, <2>2, <2>3 DEF Typed
<1>2. ASSUME EndScript PROVE Typed'
  <2>1. OutsideTyped' /\ QueuesTyped' /\ TablesTyped'
    BY <1>2, Untouched DEF Typed, EndScript
  <2>2. FlagsTyped'
    BY <1>2 DEF Typed, FlagsTyped, EndScript, history
  <2> QED
    BY <2>1, <2>2 DEF Typed
<1>3. ASSUME NEW n \in Names, RWrite(n) PROVE Typed'
  <2>1. Stamp \in Nat
    BY DEF Typed, FlagsTyped, CountType, Stamp
  <2>2. DiskTyped(disk')
    BY <1>3, <2>1, DiskEntry DEF Typed, OutsideTyped, RWrite
  <2>3. kernelQ' \in Seq(EventType)
    <3>1. kernelQ \in Seq(EventType) /\ kernelQ \o <<>> = kernelQ
      BY ConcatProperties DEF Typed, QueuesTyped
    <3>2. CASE n \notin Present
      BY <1>3, <3>1, <3>2, UnitTypes, ConcatProperties DEF RWrite
    <3>3. CASE n \in Present /\ watchOf[n] # 0
      BY <1>3, <3>1, <3>3, UnitTypes, ConcatProperties DEF RWrite
    <3>4. CASE n \in Present /\ watchOf[n] = 0
      BY <1>3, <3>1, <3>4 DEF RWrite
    <3> QED
      BY <3>2, <3>3, <3>4
  <2>4. OutsideTyped'
    BY <1>3, <2>2 DEF Typed, OutsideTyped, RWrite, database, DiskTyped, RowsTyped
  <2>5. QueuesTyped'
    BY <1>3, <2>3 DEF Typed, QueuesTyped, RWrite, dbQueues
  <2>6. TablesTyped'
    BY <1>3, Untouched DEF Typed, RWrite
  <2>7. FlagsTyped'
    BY <1>3, BumpTypes DEF Typed, FlagsTyped, RWrite, session
  <2> QED
    BY <2>4, <2>5, <2>6, <2>7 DEF Typed
<1>4. ASSUME NEW n \in Names, RRemove(n) PROVE Typed'
  <2>1. DiskTyped(disk')
    BY <1>4, DiskEntry DEF Typed, OutsideTyped, RRemove
  <2>2. kernelQ' \in Seq(EventType)
    <3>1. Unit("deleteSelf", n, watchOf[n], "R") \in EventType
      BY DEF Typed, OutsideTyped, Unit, EventType
    <3> QED
      BY <1>4, <3>1 DEF Typed, QueuesTyped, RRemove
  <2>3. OutsideTyped'
    BY <1>4, <2>1 DEF Typed, OutsideTyped, RRemove, database, DiskTyped, RowsTyped
  <2>4. QueuesTyped'
    BY <1>4, <2>2 DEF Typed, QueuesTyped, RRemove, dbQueues
  <2>5. TablesTyped'
    BY <1>4, Untouched DEF Typed, RRemove
  <2>6. FlagsTyped'
    BY <1>4, BumpTypes DEF Typed, FlagsTyped, RRemove, session
  <2> QED
    BY <2>3, <2>4, <2>5, <2>6 DEF Typed
<1>5. ASSUME NEW n \in Names, findOrAddFile(n) PROVE Typed'
  <2>1. PICK ok \in BOOLEAN :
          /\ Answered(ok)
          /\ IF ok
             THEN insertDBFile(n) /\ filesById' = newFile(n) /\ manual' = manual \cup {n}
             ELSE insertRefused(n) /\ UNCHANGED <<filesById, manual>>
    BY <1>5 DEF findOrAddFile
  <2>2. n \in Present
    BY <1>5 DEF findOrAddFile
  <2>3. RowsTyped(rows)' /\ nextId' \in Nat /\ notes' \in Seq(Note) /\ wire' \in Seq(Note)
    <3>1. CASE ok
      BY <2>1, <2>2, <3>1, InsertTypes
    <3>2. CASE ~ok
      BY <2>1, <2>2, <3>2, InsertTypes
    <3> QED
      BY <3>1, <3>2
  <2>4. FilesTyped(filesById)' /\ manual' \subseteq Names /\ excused' \subseteq Names
    <3>1. CASE ok
      BY <2>1, <3>1, InsertTypes DEF Typed, FlagsTyped, TablesTyped, insertDBFile, FilesTyped
    <3>2. CASE ~ok
      BY <2>1, <3>2 DEF Typed, FlagsTyped, TablesTyped, insertRefused, insertFails, FilesTyped
    <3> QED
      BY <3>1, <3>2
  <2>5. OutsideTyped'
    BY <1>5, <2>3 DEF Typed, OutsideTyped, findOrAddFile, dirState, DiskTyped
  <2>6. QueuesTyped'
    BY <1>5, <2>3 DEF Typed, QueuesTyped, findOrAddFile, fsQueues
  <2>7. TablesTyped'
    BY <1>5, <2>4 DEF Typed, TablesTyped, findOrAddFile, EntriesTyped
  <2>8. FlagsTyped'
    BY <1>5, <2>1, <2>4, AnsweredTypes DEF Typed, FlagsTyped, findOrAddFile, session
  <2> QED
    BY <2>5, <2>6, <2>7, <2>8 DEF Typed
<1> QED
  BY <1>1, <1>2, <1>3, <1>4, <1>5 DEF R

LEMMA ForeignTypes ==
  ASSUME Typed, NEW op \in {"i", "u", "d"}, NEW id \in Nat, NEW n \in Names,
         Foreign(op, id, n), RowsTyped(rows)', nextId' \in Nat
  PROVE  Typed'
<1>1. wire' \in Seq(Note) /\ excused' \subseteq Names
  <2>1. [op |-> op, id |-> id, name |-> n] \in Note
    BY DEF Note
  <2>2. wire' = wire \/ wire' = Append(wire, [op |-> op, id |-> id, name |-> n])
    BY DEF Foreign
  <2>3. wire \in Seq(Note) /\ excused \subseteq Names
    BY DEF Typed, QueuesTyped, FlagsTyped
  <2>4. wire' \in Seq(Note)
    BY <2>1, <2>2, <2>3, AppendProperties
  <2>5. excused' = excused \/ excused' = excused \cup {n}
    BY DEF Foreign
  <2> QED
    BY <2>3, <2>4, <2>5
<1>2. OutsideTyped'
  BY DEF Typed, OutsideTyped, Foreign, dirState, DiskTyped
<1>3. QueuesTyped'
  BY <1>1 DEF Typed, QueuesTyped, Foreign, fsQueues
<1>4. TablesTyped'
  BY Untouched DEF Typed, Foreign
<1>5. FlagsTyped'
  BY <1>1, BumpTypes DEF Typed, FlagsTyped, Foreign, session
<1> QED
  BY <1>2, <1>3, <1>4, <1>5 DEF Typed

LEMMA OthersTyped == ASSUME Typed, Others PROVE Typed'
<1>1. RowsTyped(rows) /\ nextId \in Nat /\ Stamp \in Nat
  BY DEF Typed, OutsideTyped, FlagsTyped, CountType, Stamp
<1>2. ASSUME NEW n \in Names, ForeignInsert(n) PROVE Typed'
  <2>1. [name |-> n, version |-> 1, data |-> Stamp] \in RowType
    BY <1>1 DEF RowType
  <2>2. RowsTyped(With(rows, nextId, [name |-> n, version |-> 1, data |-> Stamp]))
    BY <1>1, <2>1, RowEntry
  <2>3. RowsTyped(rows)' /\ nextId' \in Nat
    BY <1>1, <1>2, <2>2 DEF ForeignInsert, RowsTyped
  <2> QED
    BY <1>1, <1>2, <2>3, ForeignTypes DEF ForeignInsert
<1>3. ASSUME NEW id \in DOMAIN rows, ForeignUpdate(id) PROVE Typed'
  <2>1. id \in Nat /\ rows[id] \in RowType /\ rows[id].name \in Names
    BY <1>1 DEF RowsTyped, RowType
  <2>2. rows[id].version + 1 \in Nat
    BY <2>1 DEF RowType
  <2>3. RowsTyped([rows EXCEPT ![id].version = rows[id].version + 1, ![id].data = Stamp])
    BY <1>1, <2>1, <2>2, Replaced
  <2>4. rows' = [rows EXCEPT ![id].version = rows[id].version + 1, ![id].data = Stamp]
    BY <1>3 DEF ForeignUpdate
  <2>5. RowsTyped(rows)' /\ nextId' \in Nat
    BY <1>1, <1>3, <2>3, <2>4 DEF ForeignUpdate, RowsTyped
  <2> QED
    BY <1>3, <2>1, <2>5, ForeignTypes DEF ForeignUpdate
<1>4. ASSUME NEW id \in DOMAIN rows, ForeignDelete(id) PROVE Typed'
  <2>1. id \in Nat /\ rows[id].name \in Names
    BY <1>1 DEF RowsTyped, RowType
  <2>2. RowsTyped(Without(rows, id))
    BY <1>1, RowEntry
  <2>3. RowsTyped(rows)' /\ nextId' \in Nat
    BY <1>1, <1>4, <2>2 DEF ForeignDelete, RowsTyped
  <2> QED
    BY <1>4, <2>1, <2>3, ForeignTypes DEF ForeignDelete
<1> QED
  BY <1>2, <1>3, <1>4 DEF Others

LEMMA InotifyTyped == ASSUME Typed, Inotify PROVE Typed'
<1>0. /\ kernelQ \in Seq(EventType) /\ input \in Seq(EventType) /\ batch \in Seq(EventType)
      /\ excused \subseteq Names /\ \A id \in Known : id \in Nat
  BY DEF Typed, QueuesTyped, FlagsTyped, TablesTyped, FilesTyped, Known
<1>1. ASSUME handleInotifyEvent PROVE Typed'
  <2> DEFINE got == input \o kernelQ
             m == Min({BufUnits, Len(got)})
             read == SubSeq(got, 1, m)
  <2>1. got \in Seq(EventType) /\ Len(got) \in Nat /\ BufUnits \in Nat
    BY <1>0, ConcatProperties, FileSyncAssumption
  <2>2. /\ input' = SubSeq(got, BufUnits + 1, Len(got)) /\ kernelQ' = <<>>
        /\ \/ /\ excused' = excused \cup
                   {read[i].name : i \in {j \in DOMAIN read : read[j].by = "R"}}
              /\ UNCHANGED <<batch, pc, ignoreFS>>
           \/ batch' = read /\ pc' = "inotify" /\ ignoreFS' = TRUE /\ UNCHANGED excused
    BY <1>1 DEF handleInotifyEvent
  <2>3. m \in {BufUnits, Len(got)} /\ m <= Len(got)
    <3> DEFINE S == {BufUnits, Len(got)}
    <3>1. \E x \in S : \A y \in S : x <= y
      BY <2>1
    <3>2. m \in S /\ \A y \in S : m <= y
      BY <3>1 DEF Min
    <3> QED
      BY <3>2
  <2> HIDE DEF m, got
  <2>4. m \in 0 .. Len(got)
    BY <2>1, <2>3
  <2>5. read \in Seq(EventType)
    BY <2>1, <2>4, SubSeqProperties
  <2>6. \A i \in DOMAIN read : read[i].name \in Names
    BY <2>5 DEF EventType
  <2>7. input' \in Seq(EventType)
    BY <2>1, <2>2, SubSeqProperties
  <2> HIDE DEF read
  <2>8. batch' \in Seq(EventType) /\ excused' \subseteq Names
    BY <1>0, <2>2, <2>5, <2>6
  <2>9. OutsideTyped' /\ TablesTyped'
    BY <1>1, Untouched DEF Typed, handleInotifyEvent
  <2>10. QueuesTyped'
    <3>1. UNCHANGED <<wire, notes>>
      BY <1>1 DEF handleInotifyEvent, dbQueues
    <3>2. kernelQ' \in Seq(EventType)
      BY <2>2
    <3> QED
      BY <2>7, <2>8, <3>1, <3>2 DEF Typed, QueuesTyped
  <2>11. FlagsTyped'
    BY <1>1, <2>2, <2>8 DEF Typed, FlagsTyped, handleInotifyEvent
  <2> QED
    BY <2>9, <2>10, <2>11 DEF Typed
<1>2. ASSUME CutName PROVE Typed'
  <2>1. OutsideTyped' /\ TablesTyped'
    BY <1>2, Untouched DEF Typed, CutName
  <2>2. batch' \in Seq(EventType)
    <3>1. batch # <<>> /\ Skip(1) /\ 1 <= Len(batch)
      BY <1>0, <1>2 DEF CutName, Event
    <3> QED
      BY <3>1, SkipTypes
  <2>3. QueuesTyped'
    BY <1>2, <2>2 DEF Typed, QueuesTyped, CutName, dbQueues
  <2>4. FlagsTyped'
    BY <1>2 DEF Typed, FlagsTyped, CutName, session, history
  <2> QED
    BY <2>1, <2>2, <2>3, <2>4 DEF Typed
<1>3. ASSUME CreateSkipped PROVE Typed'
  <2> DEFINE k == IF Len(batch) = 1 THEN 1 ELSE 2
  <2>1. OutsideTyped' /\ TablesTyped'
    BY <1>3, Untouched DEF Typed, CreateSkipped
  <2>2. k \in {1, 2} /\ k <= Len(batch) /\ batch # <<>> /\ Skip(k)
    BY <1>0, <1>3 DEF CreateSkipped, Event
  <2> HIDE DEF k
  <2>3. Head(batch) \in EventType /\ batch' \in Seq(EventType)
    BY <2>2, SkipTypes
  <2>4. Head(batch).name \in Names
    BY <2>3 DEF EventType
  <2>5. excused' = excused \/ excused' = excused \cup {Head(batch).name}
    BY <1>3 DEF CreateSkipped, Lost
  <2>6. QueuesTyped'
    BY <1>3, <2>3 DEF Typed, QueuesTyped, CreateSkipped, dbQueues
  <2>7. FlagsTyped'
    BY <1>0, <1>3, <2>4, <2>5 DEF Typed, FlagsTyped, CreateSkipped, session
  <2> QED
    BY <2>1, <2>6, <2>7 DEF Typed
<1>4. ASSUME CreateInserted PROVE Typed'
  <2> DEFINE n == Head(batch).name
  <2>1. Skip(2) /\ Len(batch) > 1 /\ batch # <<>> /\ n \in Present
    BY <1>4 DEF CreateInserted, Event
  <2>2. Head(batch) \in EventType /\ batch' \in Seq(EventType)
    BY <1>0, <2>1, SkipTypes
  <2>3. n \in Names
    BY <2>2 DEF EventType
  <2>4. PICK ok \in BOOLEAN :
          /\ Answered(ok)
          /\ IF ok
             THEN insertDBFile(n) /\ watchFile(nextId, newFile(n))
             ELSE insertRefused(n) /\ UNCHANGED <<watchOf, nextWd, filesById, byWd>>
    BY <1>4 DEF CreateInserted
  <2> HIDE DEF n
  <2>5. RowsTyped(rows)' /\ nextId' \in Nat /\ notes' \in Seq(Note) /\ wire' \in Seq(Note)
    <3>1. CASE ok
      BY <2>1, <2>3, <2>4, <3>1, InsertTypes
    <3>2. CASE ~ok
      BY <2>1, <2>3, <2>4, <3>2, InsertTypes
    <3> QED
      BY <3>1, <3>2
  <2>6. /\ watchOf' \in [Names \cup {Dir} -> Nat] /\ nextWd' \in Nat \ {0}
        /\ FilesTyped(filesById)' /\ EntriesTyped(byWd)' /\ excused' \subseteq Names
    <3>1. CASE ok
      <4>1. FilesTyped(newFile(n)) /\ nextId \in DOMAIN newFile(n)
        BY <2>3, InsertTypes
      <4>2. watchFile(nextId, newFile(n)) /\ UNCHANGED excused
        BY <2>4, <3>1 DEF insertDBFile
      <4> QED
        BY <1>0, <4>1, <4>2, WatchFileTypes
    <3>2. CASE ~ok
      BY <1>0, <2>3, <2>4, <3>2
      DEF insertRefused, insertFails, Typed, OutsideTyped, TablesTyped, FilesTyped, EntriesTyped
    <3> QED
      BY <3>1, <3>2
  <2>7. OutsideTyped'
    BY <1>4, <2>5, <2>6 DEF Typed, OutsideTyped, CreateInserted, DiskTyped
  <2>8. QueuesTyped'
    BY <1>4, <2>2, <2>5 DEF Typed, QueuesTyped, CreateInserted
  <2>9. TablesTyped'
    BY <1>4, <2>6 DEF Typed, TablesTyped, CreateInserted
  <2>10. FlagsTyped'
    BY <1>4, <2>4, <2>6, AnsweredTypes DEF Typed, FlagsTyped, CreateInserted, session
  <2> QED
    BY <2>7, <2>8, <2>9, <2>10 DEF Typed
<1>9. ASSUME CutLongName PROVE Typed'
  <2> DEFINE Dropped(k) == {batch[i].name : i \in {j \in 1 .. k : batch[j].by = "R"}}
  <2>1. PICK k \in 1 .. Len(batch) : Skip(k) /\ excused' = excused \cup Dropped(k)
    BY <1>9 DEF CutLongName
  <2>2. /\ batch # <<>> /\ Len(batch) \in Nat /\ k \in Nat /\ k <= Len(batch)
        /\ \A i \in 1 .. Len(batch) : batch[i] \in EventType
    BY <1>0, <1>9, <2>1 DEF CutLongName, Event
  <2>3. batch' \in Seq(EventType) /\ Head(batch).name \in Names
    BY <2>1, <2>2, SkipTypes DEF EventType
  <2>4. excused' \subseteq Names
    <3>1. Dropped(k) \subseteq Names
      BY <2>1, <2>2 DEF EventType
    <3> HIDE DEF Dropped
    <3> QED
      BY <2>1, <3>1 DEF Typed, FlagsTyped
  <2>5. RowsTyped(rows)' /\ nextId' \in Nat /\ notes' \in Seq(Note) /\ wire' \in Seq(Note)
    <3>1. CASE UNCHANGED <<database, dbQueues>>
      BY <3>1 DEF database, dbQueues, Typed, OutsideTyped, QueuesTyped, RowsTyped
    <3>2. CASE insertFails
      BY <2>3, <3>2, InsertTypes
    <3> QED
      BY <1>9, <3>1, <3>2 DEF CutLongName
  <2>6. OutsideTyped'
    BY <1>9, <2>5 DEF Typed, OutsideTyped, CutLongName, DiskTyped, dirState
  <2>7. QueuesTyped'
    BY <1>9, <2>3, <2>5 DEF Typed, QueuesTyped, CutLongName
  <2>8. TablesTyped'
    BY <1>9 DEF Typed, TablesTyped, CutLongName, indexes, FilesTyped, EntriesTyped
  <2>9. FlagsTyped'
    BY <1>9, <2>4 DEF Typed, FlagsTyped, CutLongName
  <2> QED
    BY <2>6, <2>7, <2>8, <2>9 DEF Typed
<1>10. ASSUME CreateFailed PROVE Typed'
  <2> DEFINE k == IF Len(batch) = 1 THEN 1 ELSE 2
  <2>1. k \in {1, 2} /\ k <= Len(batch) /\ batch # <<>> /\ Skip(k)
    BY <1>0, <1>10 DEF CreateFailed, Event
  <2> HIDE DEF k
  <2>2. batch' \in Seq(EventType) /\ Head(batch).name \in Names
    BY <2>1, SkipTypes DEF EventType
  <2>3. excused' = excused \/ excused' = excused \cup {Head(batch).name}
    BY <1>10 DEF CreateFailed, Lost
  <2>4. RowsTyped(rows)' /\ nextId' \in Nat /\ notes' \in Seq(Note) /\ wire' \in Seq(Note)
    BY <1>10, <2>2, InsertTypes DEF CreateFailed
  <2>5. OutsideTyped'
    BY <1>10, <2>4 DEF Typed, OutsideTyped, CreateFailed, DiskTyped, dirState
  <2>6. QueuesTyped'
    BY <1>10, <2>2, <2>4 DEF Typed, QueuesTyped, CreateFailed
  <2>7. TablesTyped'
    BY <1>10 DEF Typed, TablesTyped, CreateFailed, indexes, FilesTyped, EntriesTyped
  <2>8. FlagsTyped'
    BY <1>10, <2>2, <2>3 DEF Typed, FlagsTyped, CreateFailed, session
  <2> QED
    BY <2>5, <2>6, <2>7, <2>8 DEF Typed
<1>5. ASSUME NoEntry PROVE Typed'
  <2>1. OutsideTyped' /\ QueuesTyped' /\ TablesTyped'
    BY <1>5, Untouched DEF Typed, NoEntry
  <2>2. FlagsTyped'
    BY <1>5 DEF Typed, FlagsTyped, NoEntry, history
  <2> QED
    BY <2>1, <2>2 DEF Typed
<1>6. ASSUME CloseWrite PROVE Typed'
  <2> DEFINE e == Head(batch)
             id == byWd[e.wd]
  <2>1. /\ batch # <<>> /\ Skip(1) /\ 1 <= Len(batch) /\ e.wd \in DOMAIN byWd
        /\ IF e.name \notin Present
           THEN UNCHANGED <<rows, dbQueues, filesById, count, excused>>
           ELSE \E ok \in BOOLEAN :
                  /\ Answered(ok)
                  /\ IF ok THEN updateDBFile(id, e.name) /\ UNCHANGED excused
                     ELSE Lost(e.name) /\ Absorb(<<>>) /\ UNCHANGED <<rows, filesById>>
    BY <1>0, <1>6 DEF CloseWrite, Event
  <2>2. e \in EventType /\ batch' \in Seq(EventType)
    BY <2>1, SkipTypes
  <2>3. e.name \in Names /\ id \in Nat
    BY <2>1, <2>2 DEF EventType, Typed, TablesTyped, EntriesTyped
  <2> HIDE DEF e, id
  <2>4. /\ RowsTyped(rows)' /\ FilesTyped(filesById)' /\ excused' \subseteq Names
        /\ notes' \in Seq(Note) /\ wire' \in Seq(Note) /\ count' \in CountType
    <3>1. CASE e.name \notin Present
      BY <2>1, <3>1
      DEF Typed, OutsideTyped, QueuesTyped, TablesTyped, FlagsTyped, dbQueues, RowsTyped,
          FilesTyped
    <3>2. CASE e.name \in Present
      <4>1. PICK ok \in BOOLEAN :
              /\ Answered(ok)
              /\ IF ok THEN updateDBFile(id, e.name) /\ UNCHANGED excused
                 ELSE Lost(e.name) /\ Absorb(<<>>) /\ UNCHANGED <<rows, filesById>>
        BY <2>1, <3>2
      <4>2. count' \in CountType
        BY <4>1, AnsweredTypes DEF Typed, FlagsTyped
      <4>3. CASE ok
        <5>1. updateDBFile(id, e.name) /\ UNCHANGED excused
          BY <4>1, <4>3
        <5> QED
          BY <1>0, <2>3, <3>2, <4>2, <5>1, UpdateTypes
      <4>4. CASE ~ok
        <5>1. Lost(e.name) /\ Absorb(<<>>) /\ UNCHANGED <<rows, filesById>>
          BY <4>1, <4>4
        <5>2. <<>> \in Seq(Note)
          OBVIOUS
        <5>3. notes' \in Seq(Note) /\ wire' \in Seq(Note)
          BY <5>1, <5>2, AbsorbTypes DEF Typed, QueuesTyped
        <5> QED
          BY <1>0, <2>3, <4>2, <5>1, <5>3
          DEF Lost, Typed, OutsideTyped, TablesTyped, RowsTyped, FilesTyped
      <4> QED
        BY <4>3, <4>4
    <3> QED
      BY <3>1, <3>2
  <2>5. OutsideTyped'
    BY <1>6, <2>4 DEF Typed, OutsideTyped, CloseWrite, dirState, DiskTyped
  <2>6. QueuesTyped'
    BY <1>6, <2>2, <2>4 DEF Typed, QueuesTyped, CloseWrite
  <2>7. TablesTyped'
    BY <1>6, <2>4 DEF Typed, TablesTyped, CloseWrite, EntriesTyped
  <2>8. FlagsTyped'
    BY <1>6, <2>4 DEF Typed, FlagsTyped, CloseWrite, session
  <2> QED
    BY <2>5, <2>6, <2>7, <2>8 DEF Typed
<1>7. ASSUME DeleteSelf PROVE Typed'
  <2> DEFINE e == Head(batch)
             id == byWd[e.wd]
  <2>1. /\ batch # <<>> /\ Skip(1) /\ 1 <= Len(batch) /\ e.wd \in DOMAIN byWd
        /\ forget(id, {})
    BY <1>0, <1>7 DEF DeleteSelf, Event
  <2>2. e \in EventType /\ batch' \in Seq(EventType)
    BY <2>1, SkipTypes
  <2>3. e.name \in Names /\ id \in Nat
    BY <2>1, <2>2 DEF EventType, Typed, TablesTyped, EntriesTyped
  <2>4. PICK ok \in BOOLEAN :
          /\ Answered(ok)
          /\ IF ok THEN removeDBFile(id) /\ UNCHANGED excused
             ELSE Lost(e.name) /\ Absorb(<<>>) /\ UNCHANGED <<rows, filesById, hastened>>
    BY <1>7 DEF DeleteSelf
  <2> HIDE DEF e, id
  <2>5. /\ RowsTyped(rows)' /\ FilesTyped(filesById)' /\ excused' \subseteq Names
        /\ notes' \in Seq(Note) /\ wire' \in Seq(Note)
    <3>1. CASE ok
      <4>1. removeDBFile(id) /\ UNCHANGED excused
        BY <2>4, <3>1
      <4> QED
        BY <1>0, <2>3, <4>1, RemoveTypes
    <3>2. CASE ~ok
      <4>1. Lost(e.name) /\ Absorb(<<>>) /\ UNCHANGED <<rows, filesById>>
        BY <2>4, <3>2
      <4>2. <<>> \in Seq(Note)
        OBVIOUS
      <4>3. notes' \in Seq(Note) /\ wire' \in Seq(Note)
        BY <4>1, <4>2, AbsorbTypes DEF Typed, QueuesTyped
      <4> QED
        BY <1>0, <2>3, <4>1, <4>3
        DEF Lost, Typed, OutsideTyped, TablesTyped, RowsTyped, FilesTyped
    <3> QED
      BY <3>1, <3>2
  <2>6. EntriesTyped(byWd')
    BY <2>1, WatchEntry DEF forget, Typed, TablesTyped
  <2>7. OutsideTyped'
    BY <1>7, <2>5 DEF Typed, OutsideTyped, DeleteSelf, dirState, DiskTyped
  <2>8. QueuesTyped'
    BY <1>7, <2>2, <2>5 DEF Typed, QueuesTyped, DeleteSelf
  <2>9. TablesTyped'
    BY <1>7, <2>5, <2>6 DEF Typed, TablesTyped, DeleteSelf, EntriesTyped
  <2>10. FlagsTyped'
    BY <1>7, <2>4, <2>5, AnsweredTypes DEF Typed, FlagsTyped, DeleteSelf, session
  <2> QED
    BY <2>7, <2>8, <2>9, <2>10 DEF Typed
<1>8. ASSUME EndBatch PROVE Typed'
  <2>1. OutsideTyped' /\ QueuesTyped' /\ TablesTyped'
    BY <1>8, Untouched DEF Typed, EndBatch
  <2>2. FlagsTyped'
    BY <1>8 DEF Typed, FlagsTyped, EndBatch, history
  <2> QED
    BY <2>1, <2>2 DEF Typed
<1> QED
  BY <1>1, <1>2, <1>3, <1>4, <1>5, <1>6, <1>7, <1>8, <1>9, <1>10 DEF Inotify

LEMMA ForgetTypes ==
  ASSUME Typed, NEW id, NEW unwatched, forget(id, unwatched)
  PROVE  EntriesTyped(byWd)'
<1>1. EntriesTyped(byWd')
  BY WatchEntry DEF forget, Typed, TablesTyped
<1> QED
  BY <1>1 DEF EntriesTyped

LEMMA NotificationsTyped == ASSUME Typed, Notifications PROVE Typed'
<1>0. notes \in Seq(Note) /\ wire \in Seq(Note) /\ excused \subseteq Names
  BY DEF Typed, QueuesTyped, FlagsTyped
<1>1. ASSUME notes # <<>>
      PROVE  /\ Head(notes) \in Note /\ Tail(notes) \in Seq(Note) /\ noted \in Nat
             /\ Head(notes).name \in Names
  <2>1. Head(notes) \in Note /\ Tail(notes) \in Seq(Note)
    BY <1>0, <1>1, QueueHead
  <2> QED
    BY <2>1 DEF Note, noted
<1>2. ASSUME notes # <<>>, Reload PROVE notes' \in Seq(Note) /\ wire' \in Seq(Note)
  BY <1>0, <1>1, <1>2, ConcatProperties DEF Reload
<1>3. ASSUME handleDBNotifications PROVE Typed'
  <2>1. OutsideTyped' /\ TablesTyped'
    BY <1>3, Untouched DEF Typed, handleDBNotifications
  <2>2. <<>> \in Seq(Note)
    OBVIOUS
  <2>3. notes' \in Seq(Note) /\ wire' \in Seq(Note)
    BY <1>0, <1>3, <2>2, AbsorbTypes DEF handleDBNotifications
  <2>4. QueuesTyped'
    BY <1>3, <2>3 DEF Typed, QueuesTyped, handleDBNotifications, fsQueues
  <2>5. FlagsTyped'
    BY <1>3 DEF Typed, FlagsTyped, handleDBNotifications, history
  <2> QED
    BY <2>1, <2>4, <2>5 DEF Typed
<1>4. ASSUME noteUnknown PROVE Typed'
  <2>1. OutsideTyped' /\ TablesTyped'
    BY <1>4, Untouched DEF Typed, noteUnknown
  <2>2. notes' \in Seq(Note)
    BY <1>4, <1>1 DEF noteUnknown, Noted
  <2>3. QueuesTyped'
    BY <1>4, <2>2 DEF Typed, QueuesTyped, noteUnknown, fsQueues
  <2>4. FlagsTyped'
    BY <1>4 DEF Typed, FlagsTyped, noteUnknown, session, history
  <2> QED
    BY <2>1, <2>3, <2>4 DEF Typed
<1>5. ASSUME noteDelete PROVE Typed'
  <2> DEFINE n == filesById[noted].name
             wd == filesById[noted].wd
  <2>1. /\ notes # <<>> /\ notes' = Tail(notes) /\ disk' = Without(disk, n)
        /\ filesById' = Without(filesById, noted)
        /\ \E w : /\ watchOf' = [m \in DOMAIN watchOf |->
                                   IF m = n \/ watchOf[m] = w THEN 0 ELSE watchOf[m]]
                  /\ \E lost : forget(noted, lost)
    BY <1>5 DEF noteDelete, Noted
  <2> HIDE DEF n, wd
  <2>2. watchOf' \in [Names \cup {Dir} -> Nat]
    BY <2>1 DEF Typed, OutsideTyped
  <2>3. DiskTyped(disk')
    BY <2>1, DiskEntry DEF Typed, OutsideTyped
  <2>4. FilesTyped(filesById')
    BY <2>1, FileEntry DEF Typed, TablesTyped
  <2>5. EntriesTyped(byWd)'
    BY <2>1, ForgetTypes
  <2>6. OutsideTyped'
    BY <1>5, <2>2, <2>3 DEF Typed, OutsideTyped, noteDelete, database, DiskTyped, RowsTyped
  <2>7. QueuesTyped'
    BY <1>5, <1>1, <2>1 DEF Typed, QueuesTyped, noteDelete, fsQueues
  <2>8. TablesTyped'
    BY <1>5, <2>4, <2>5 DEF Typed, TablesTyped, noteDelete, FilesTyped
  <2>9. FlagsTyped'
    BY <1>5 DEF Typed, FlagsTyped, noteDelete, session
  <2> QED
    BY <2>6, <2>7, <2>8, <2>9 DEF Typed
<1>6. ASSUME noteInsert PROVE Typed'
  <2> DEFINE n == IF noted \in DOMAIN rows THEN rows[noted].name ELSE filesById[noted].name
  <2>1. PICK ok \in BOOLEAN :
          /\ Answered(ok)
          /\ excused' = IF ok THEN excused ELSE excused \cup {Head(notes).name}
          /\ CASE ok /\ noted \in DOMAIN rows ->
                    /\ writeFile(n, rows[noted].data)
                    /\ watchFile(noted, fileFromRow(noted))
                    /\ UNCHANGED <<pc, alive>>
               [] ~(ok /\ noted \in DOMAIN rows) /\ noted \in Known ->
                    /\ IF n \in Present THEN watchFile(noted, filesById)
                       ELSE UNCHANGED <<watchOf, nextWd, filesById, byWd>>
                    /\ UNCHANGED <<disk, kernelQ, pc, alive>>
               [] OTHER ->
                    /\ alive' = FALSE /\ pc' = "crashed"
                    /\ UNCHANGED <<dirState, filesById, byWd, kernelQ>>
    BY <1>6 DEF noteInsert
  <2>2. notes # <<>> /\ Reload
    BY <1>6 DEF noteInsert, Noted
  <2> HIDE DEF n
  <2>3. /\ DiskTyped(disk)' /\ kernelQ' \in Seq(EventType)
        /\ watchOf' \in [Names \cup {Dir} -> Nat] /\ nextWd' \in Nat \ {0}
        /\ FilesTyped(filesById)' /\ EntriesTyped(byWd)'
    <3>1. CASE ok /\ noted \in DOMAIN rows
      <4>1. writeFile(n, rows[noted].data) /\ watchFile(noted, fileFromRow(noted))
        BY <2>1, <3>1
      <4>2. n \in Names /\ rows[noted].data \in Nat
        BY <3>1 DEF n, Typed, OutsideTyped, RowsTyped, RowType
      <4>3. FilesTyped(fileFromRow(noted)) /\ noted \in DOMAIN fileFromRow(noted)
        BY <3>1, FileFromRowTypes
      <4>4. DiskTyped(disk)' /\ kernelQ' \in Seq(EventType)
        BY <4>1, <4>2, WriteFileTypes
      <4>5. /\ watchOf' \in [Names \cup {Dir} -> Nat] /\ nextWd' \in Nat \ {0}
            /\ FilesTyped(filesById)' /\ EntriesTyped(byWd)'
        BY <4>1, <4>3, WatchFileTypes
      <4> QED
        BY <4>4, <4>5
    <3>2. CASE ~(ok /\ noted \in DOMAIN rows) /\ noted \in Known
      <4>1. /\ \/ watchFile(noted, filesById)
               \/ UNCHANGED <<watchOf, nextWd, filesById, byWd>>
            /\ UNCHANGED <<disk, kernelQ>>
        BY <2>1, <3>2
      <4>2. DiskTyped(disk)' /\ kernelQ' \in Seq(EventType)
        BY <4>1 DEF Typed, OutsideTyped, QueuesTyped, DiskTyped
      <4>3. /\ watchOf' \in [Names \cup {Dir} -> Nat] /\ nextWd' \in Nat \ {0}
            /\ FilesTyped(filesById)' /\ EntriesTyped(byWd)'
        <5>1. CASE watchFile(noted, filesById)
          <6>1. FilesTyped(filesById) /\ noted \in DOMAIN filesById
            BY <3>2 DEF Typed, TablesTyped, Known
          <6> QED
            BY <5>1, <6>1, WatchFileTypes
        <5>2. CASE UNCHANGED <<watchOf, nextWd, filesById, byWd>>
          BY <5>2 DEF Typed, OutsideTyped, TablesTyped, FilesTyped, EntriesTyped
        <5> QED
          BY <4>1, <5>1, <5>2
      <4> QED
        BY <4>2, <4>3
    <3>3. CASE ~(ok /\ noted \in DOMAIN rows) /\ noted \notin Known
      <4>1. UNCHANGED <<dirState, filesById, byWd, kernelQ>>
        BY <2>1, <3>3
      <4> QED
        BY <4>1 DEF Typed, OutsideTyped, QueuesTyped, TablesTyped, dirState, DiskTyped,
                    FilesTyped, EntriesTyped
    <3> QED
      BY <3>1, <3>2, <3>3
  <2>4. OutsideTyped'
    BY <1>6, <2>3 DEF Typed, OutsideTyped, noteInsert, database, RowsTyped
  <2>5. QueuesTyped'
    BY <1>6, <1>2, <2>2, <2>3 DEF Typed, QueuesTyped, noteInsert
  <2>6. TablesTyped'
    BY <1>6, <2>3 DEF Typed, TablesTyped, noteInsert
  <2>7. FlagsTyped'
    <3>1. excused' \subseteq Names
      BY <1>0, <1>1, <2>1, <2>2
    <3>2. count' \in CountType
      BY <2>1, AnsweredTypes DEF Typed, FlagsTyped
    <3>3. UNCHANGED <<ignoreFS, due, listening>>
      BY <1>6 DEF noteInsert
    <3>4. UNCHANGED <<pc, alive>> \/ (alive' = FALSE /\ pc' = "crashed")
      <4>1. CASE ok /\ noted \in DOMAIN rows
        BY <2>1, <4>1
      <4>2. CASE ~(ok /\ noted \in DOMAIN rows)
        BY <2>1, <4>2
      <4> QED
        BY <4>1, <4>2
    <3> QED
      BY <3>1, <3>2, <3>3, <3>4 DEF Typed, FlagsTyped
  <2> QED
    BY <2>4, <2>5, <2>6, <2>7 DEF Typed
<1>7. ASSUME noteUpdate PROVE Typed'
  <2>1. PICK ok \in BOOLEAN :
          /\ Answered(ok)
          /\ excused' = IF ok THEN excused ELSE excused \cup {Head(notes).name}
          /\ IF ok /\ noted \in DOMAIN rows
             THEN /\ writeFile(rows[noted].name, rows[noted].data)
                  /\ filesById' = fileFromRow(noted)
             ELSE UNCHANGED <<disk, kernelQ, filesById>>
    BY <1>7 DEF noteUpdate
  <2>2. notes # <<>> /\ Reload
    BY <1>7 DEF noteUpdate, Noted
  <2>3. DiskTyped(disk)' /\ kernelQ' \in Seq(EventType) /\ FilesTyped(filesById)'
    <3>1. CASE ok /\ noted \in DOMAIN rows
      <4>1. writeFile(rows[noted].name, rows[noted].data) /\ filesById' = fileFromRow(noted)
        BY <2>1, <3>1
      <4>2. rows[noted].name \in Names /\ rows[noted].data \in Nat
        BY <3>1 DEF Typed, OutsideTyped, RowsTyped, RowType
      <4>3. FilesTyped(fileFromRow(noted))
        BY <3>1, FileFromRowTypes
      <4>4. DiskTyped(disk)' /\ kernelQ' \in Seq(EventType)
        BY <4>1, <4>2, WriteFileTypes
      <4> QED
        BY <4>1, <4>3, <4>4 DEF FilesTyped
    <3>2. CASE ~(ok /\ noted \in DOMAIN rows)
      BY <2>1, <3>2
      DEF Typed, OutsideTyped, QueuesTyped, TablesTyped, DiskTyped, FilesTyped
    <3> QED
      BY <3>1, <3>2
  <2>4. OutsideTyped'
    BY <1>7, <2>3 DEF Typed, OutsideTyped, noteUpdate, database, RowsTyped
  <2>5. QueuesTyped'
    BY <1>7, <1>2, <2>2, <2>3 DEF Typed, QueuesTyped, noteUpdate
  <2>6. TablesTyped'
    BY <1>7, <2>3 DEF Typed, TablesTyped, noteUpdate, EntriesTyped
  <2>7. FlagsTyped'
    <3>1. excused' \subseteq Names
      BY <1>0, <1>1, <2>1, <2>2
    <3>2. count' \in CountType
      BY <2>1, AnsweredTypes DEF Typed, FlagsTyped
    <3>3. UNCHANGED <<ignoreFS, due, listening, pc, alive>>
      BY <1>7 DEF noteUpdate, session
    <3> QED
      BY <3>1, <3>2, <3>3 DEF Typed, FlagsTyped
  <2> QED
    BY <2>4, <2>5, <2>6, <2>7 DEF Typed
<1>8. ASSUME EndNotes PROVE Typed'
  <2>1. OutsideTyped' /\ QueuesTyped' /\ TablesTyped'
    BY <1>8, Untouched DEF Typed, EndNotes
  <2>2. FlagsTyped'
    BY <1>8 DEF Typed, FlagsTyped, EndNotes, history
  <2> QED
    BY <2>1, <2>2 DEF Typed
<1> QED
  BY <1>3, <1>4, <1>5, <1>6, <1>7, <1>8 DEF Notifications

\* The types hold in every step.
LEMMA StepTyped == Typed /\ [Next]_vars => Typed'
<1> SUFFICES ASSUME Typed, [Next]_vars PROVE Typed'
  OBVIOUS
<1>1. CASE handleIgnoreFSNotesOff
  <2>1. OutsideTyped' /\ QueuesTyped' /\ TablesTyped'
    BY <1>1, Untouched DEF Typed, handleIgnoreFSNotesOff
  <2>2. FlagsTyped'
    BY <1>1 DEF Typed, FlagsTyped, handleIgnoreFSNotesOff, history
  <2> QED
    BY <2>1, <2>2 DEF Typed
<1>2. CASE UNCHANGED vars
  <2>1. OutsideTyped' /\ QueuesTyped' /\ TablesTyped'
    BY <1>2, Untouched DEF Typed, vars
  <2>2. FlagsTyped'
    BY <1>2 DEF Typed, FlagsTyped, vars, session, history
  <2> QED
    BY <2>1, <2>2 DEF Typed
<1> QED
  BY <1>1, <1>2, StartupTyped, RTyped, OthersTyped, InotifyTyped, NotificationsTyped DEF Next

LEMMA AlwaysTyped == Spec => []Typed
BY InitTyped, StepTyped, PTL DEF Spec

\* What the variables hold (FileManager's tables, rcfile's rows, the directory).
THEOREM TypeCorrect == Spec => []TypeOK
<1>1. Typed => TypeOK
  BY DEF Typed, OutsideTyped, QueuesTyped, TablesTyped, FlagsTyped, TypeOK, DiskTyped,
         RowsTyped, FilesTyped, EntriesTyped, Present, Known
<1> QED
  BY <1>1, AlwaysTyped, PTL

-----------------------------------------------------------------------------
(* The file table and the database.  The argument is about the rows r, the   *)
(* file objects f, the notifications S that were not processed yet and the   *)
(* names ex whose events were lost: what each kind of change makes of them.  *)

SaidOf(S, id, ops) == \E m \in S : m.id = id /\ m.op \in ops

\* Ids are not used twice, and a file's name is its row's.
SameNames(r, f, S, next) ==
  /\ \A id \in DOMAIN r \cup DOMAIN f : id \in Nat /\ id < next
  /\ \A m \in S : m.id \in Nat /\ m.id < next
  /\ \A id \in DOMAIN r \cap DOMAIN f : r[id].name = f[id].name
  /\ \A m \in S : m.id \in DOMAIN r => r[m.id].name = m.name /\ m.op # "d"
  /\ \A m \in S : m.id \in DOMAIN f => f[m.id].name = m.name

\* The notification that will mend a difference is of the kind that mends it.
Mended(r, f, S, ex) ==
  /\ \A id \in DOMAIN r \ DOMAIN f : r[id].name \in ex \/ SaidOf(S, id, {"i"})
  /\ \A id \in DOMAIN f \ DOMAIN r : f[id].name \in ex \/ SaidOf(S, id, {"d"})
  /\ \A id \in DOMAIN f \cap DOMAIN r :
       r[id].name \in ex \/ SaidOf(S, id, {"i", "u"}) \/ r[id].version = f[id].version

Said == Range(Notified)
CacheInv ==
  /\ SameNames(rows, filesById, Said, nextId)
  /\ pc # "load" => Mended(rows, filesById, Said, excused)

SameFiles(f, g) ==
  /\ DOMAIN f = DOMAIN g
  /\ \A id \in DOMAIN f : f[id].name = g[id].name /\ f[id].version = g[id].version

\* Watching changes neither side, and losing more events excuses more.
LEMMA NothingChanged ==
  ASSUME NEW r, NEW f, NEW S, NEW ex, NEW next \in Nat,
         NEW f2, NEW ex2, NEW next2 \in Nat,
         SameFiles(f2, f), ex \subseteq ex2, next <= next2
  PROVE  /\ SameNames(r, f, S, next) => SameNames(r, f2, S, next2)
         /\ Mended(r, f, S, ex) => Mended(r, f2, S, ex2)
<1>1. ASSUME SameNames(r, f, S, next) PROVE SameNames(r, f2, S, next2)
  BY <1>1 DEF SameNames, SameFiles
<1>2. ASSUME Mended(r, f, S, ex) PROVE Mended(r, f2, S, ex2)
  BY <1>2 DEF Mended, SameFiles, SaidOf
<1> QED
  BY <1>1, <1>2

\* A new row, which the session wrote (own) or another client did, and of which
\* a notification comes or the name is excused.
RowAdds(r, f, S, ex, next, n, r2, f2, S2, ex2, own) ==
  /\ DOMAIN r2 = DOMAIN r \cup {next} /\ r2[next].name = n
  /\ \A id \in DOMAIN r : r2[id] = r[id]
  /\ IF own THEN /\ DOMAIN f2 = DOMAIN f \cup {next}
                 /\ f2[next].name = n /\ f2[next].version = r2[next].version
                 /\ \A id \in DOMAIN f : /\ f2[id].name = f[id].name
                                         /\ f2[id].version = f[id].version
            ELSE f2 = f
  /\ S \subseteq S2 /\ \A m \in S2 \ S : m = [op |-> "i", id |-> next, name |-> n]
  /\ ex \subseteq ex2 /\ (own \/ n \in ex2 \/ S2 # S)

LEMMA RowAdded ==
  ASSUME NEW r, NEW f, NEW S, NEW ex, NEW next \in Nat, SameNames(r, f, S, next),
         NEW n, NEW r2, NEW f2, NEW S2, NEW ex2, NEW own \in BOOLEAN,
         RowAdds(r, f, S, ex, next, n, r2, f2, S2, ex2, own)
  PROVE  /\ SameNames(r2, f2, S2, next + 1)
         /\ Mended(r, f, S, ex) => Mended(r2, f2, S2, ex2)
<1> USE DEF RowAdds
<1> DEFINE note == [op |-> "i", id |-> next, name |-> n]
<1>1. next \notin DOMAIN r \cup DOMAIN f /\ \A m \in S : m.id # next
  BY DEF SameNames
<1>2. note.id = next /\ note.name = n /\ note.op = "i"
  OBVIOUS
<1>3. \A m \in S2 : m \in S \/ m = note
  OBVIOUS
<1> HIDE DEF note
<1>4. DOMAIN f \subseteq DOMAIN f2 /\ DOMAIN f2 \subseteq DOMAIN f \cup {next}
  BY DEF SameNames
<1>5. \A id \in DOMAIN f : f2[id].name = f[id].name /\ f2[id].version = f[id].version
  OBVIOUS
<1>6. next \in DOMAIN f2 => own
  BY <1>1
<1>7. SameNames(r2, f2, S2, next + 1)
  <2>1. \A id \in DOMAIN r2 \cup DOMAIN f2 : id \in Nat /\ id < next + 1
    BY <1>4 DEF SameNames
  <2>2. \A m \in S2 : m.id \in Nat /\ m.id < next + 1
    BY <1>2, <1>3 DEF SameNames
  <2>3. ASSUME NEW id \in DOMAIN r2 \cap DOMAIN f2 PROVE r2[id].name = f2[id].name
    <3>1. CASE id = next
      BY <1>6, <3>1
    <3>2. CASE id # next
      BY <1>4, <1>5, <3>2 DEF SameNames
    <3> QED
      BY <3>1, <3>2
  <2>4. ASSUME NEW m \in S2
        PROVE  /\ m.id \in DOMAIN r2 => r2[m.id].name = m.name /\ m.op # "d"
               /\ m.id \in DOMAIN f2 => f2[m.id].name = m.name
    <3>1. CASE m = note
      BY <1>2, <1>6, <3>1
    <3>2. CASE m \in S
      BY <1>1, <1>4, <1>5, <3>2 DEF SameNames
    <3> QED
      BY <1>3, <3>1, <3>2
  <2> QED
    BY <2>1, <2>2, <2>3, <2>4 DEF SameNames
<1>8. ASSUME Mended(r, f, S, ex) PROVE Mended(r2, f2, S2, ex2)
  <2>1. ASSUME NEW id \in DOMAIN r2 \ DOMAIN f2
        PROVE  r2[id].name \in ex2 \/ SaidOf(S2, id, {"i"})
    <3>1. CASE id = next
      BY <1>2, <1>3, <3>1 DEF SaidOf
    <3>2. CASE id # next
      <4>1. id \in DOMAIN r \ DOMAIN f /\ r2[id] = r[id]
        BY <1>4, <3>2
      <4> QED
        BY <1>8, <4>1 DEF Mended, SaidOf
    <3> QED
      BY <3>1, <3>2
  <2>2. ASSUME NEW id \in DOMAIN f2 \ DOMAIN r2
        PROVE  f2[id].name \in ex2 \/ SaidOf(S2, id, {"d"})
    <3>1. id \in DOMAIN f \ DOMAIN r
      BY <1>4
    <3> QED
      BY <1>5, <1>8, <3>1 DEF Mended, SaidOf
  <2>3. ASSUME NEW id \in DOMAIN f2 \cap DOMAIN r2
        PROVE  \/ r2[id].name \in ex2 \/ SaidOf(S2, id, {"i", "u"})
               \/ r2[id].version = f2[id].version
    <3>1. CASE id = next
      BY <1>6, <3>1
    <3>2. CASE id # next
      <4>1. id \in DOMAIN f \cap DOMAIN r /\ r2[id] = r[id]
        BY <1>4, <3>2
      <4> QED
        BY <1>5, <1>8, <4>1 DEF Mended, SaidOf
    <3> QED
      BY <3>1, <3>2
  <2> QED
    BY <2>1, <2>2, <2>3 DEF Mended
<1> QED
  BY <1>7, <1>8

\* A new version of a row: the session's own leaves the file object with the same
\* one, another client's is notified or excused.
RowUpdates(r, f, S, ex, id, r2, f2, S2, ex2, own) ==
  /\ DOMAIN r2 = DOMAIN r /\ r2[id].name = r[id].name
  /\ \A jd \in DOMAIN r \ {id} : r2[jd] = r[jd]
  /\ DOMAIN f2 = DOMAIN f /\ \A jd \in DOMAIN f : f2[jd].name = f[jd].name
  /\ \A jd \in DOMAIN f \ {id} : f2[jd].version = f[jd].version
  /\ own => id \in DOMAIN f /\ f2[id].version = r2[id].version
  /\ S \subseteq S2 /\ \A m \in S2 \ S : m = [op |-> "u", id |-> id, name |-> r[id].name]
  /\ ex \subseteq ex2 /\ (own \/ r[id].name \in ex2 \/ SaidOf(S2, id, {"u"}))
  /\ own \/ f2 = f

LEMMA RowUpdated ==
  ASSUME NEW r, NEW f, NEW S, NEW ex, NEW next, SameNames(r, f, S, next),
         NEW id \in DOMAIN r, NEW r2, NEW f2, NEW S2, NEW ex2, NEW own \in BOOLEAN,
         RowUpdates(r, f, S, ex, id, r2, f2, S2, ex2, own)
  PROVE  /\ SameNames(r2, f2, S2, next)
         /\ Mended(r, f, S, ex) => Mended(r2, f2, S2, ex2)
<1> USE DEF RowUpdates
<1> DEFINE note == [op |-> "u", id |-> id, name |-> r[id].name]
<1>1. note.id = id /\ note.name = r[id].name /\ note.op = "u"
  OBVIOUS
<1>2. \A m \in S2 : m \in S \/ m = note
  OBVIOUS
<1> HIDE DEF note
<1>3. \A jd \in DOMAIN r : r2[jd].name = r[jd].name
  OBVIOUS
<1>4. SameNames(r2, f2, S2, next)
  <2>1. \A m \in S2 : m.id \in Nat /\ m.id < next
    BY <1>1, <1>2 DEF SameNames
  <2>2. ASSUME NEW m \in S2
        PROVE  /\ m.id \in DOMAIN r2 => r2[m.id].name = m.name /\ m.op # "d"
               /\ m.id \in DOMAIN f2 => f2[m.id].name = m.name
    <3>1. CASE m = note
      BY <1>1, <1>3, <3>1 DEF SameNames
    <3>2. CASE m \in S
      BY <1>3, <3>2 DEF SameNames
    <3> QED
      BY <1>2, <3>1, <3>2
  <2>3. \A jd \in DOMAIN r2 \cap DOMAIN f2 : r2[jd].name = f2[jd].name
    BY <1>3 DEF SameNames
  <2> QED
    BY <2>1, <2>2, <2>3 DEF SameNames
<1>5. ASSUME Mended(r, f, S, ex) PROVE Mended(r2, f2, S2, ex2)
  <2>1. \A jd \in DOMAIN r2 \ DOMAIN f2 : r2[jd].name \in ex2 \/ SaidOf(S2, jd, {"i"})
    BY <1>3, <1>5 DEF Mended, SaidOf
  <2>2. \A jd \in DOMAIN f2 \ DOMAIN r2 : f2[jd].name \in ex2 \/ SaidOf(S2, jd, {"d"})
    BY <1>5 DEF Mended, SaidOf
  <2>3. ASSUME NEW jd \in DOMAIN f2 \cap DOMAIN r2
        PROVE  \/ r2[jd].name \in ex2 \/ SaidOf(S2, jd, {"i", "u"})
               \/ r2[jd].version = f2[jd].version
    <3>1. CASE jd = id
      BY <3>1 DEF SaidOf
    <3>2. CASE jd # id
      <4>1. jd \in DOMAIN f \cap DOMAIN r /\ r2[jd] = r[jd] /\ f2[jd].version = f[jd].version
        BY <3>2
      <4> QED
        BY <1>5, <4>1 DEF Mended, SaidOf
    <3> QED
      BY <3>1, <3>2
  <2> QED
    BY <2>1, <2>2, <2>3 DEF Mended
<1> QED
  BY <1>4, <1>5

\* A row is removed: with the file object by the session, else by another client.
RowRemoves(r, f, S, ex, id, r2, f2, S2, ex2, own) ==
  /\ DOMAIN r2 = DOMAIN r \ {id} /\ \A jd \in DOMAIN r \ {id} : r2[jd] = r[jd]
  /\ IF own THEN /\ DOMAIN f2 = DOMAIN f \ {id}
                 /\ \A jd \in DOMAIN f \ {id} : f2[jd] = f[jd]
            ELSE f2 = f
  /\ S \subseteq S2
  /\ \A m \in S2 \ S : id \in DOMAIN r /\ m = [op |-> "d", id |-> id, name |-> r[id].name]
  /\ ex \subseteq ex2
  /\ own \/ (id \in DOMAIN r /\ (r[id].name \in ex2 \/ SaidOf(S2, id, {"d"})))

LEMMA RowRemoved ==
  ASSUME NEW r, NEW f, NEW S, NEW ex, NEW next, SameNames(r, f, S, next),
         NEW id, NEW r2, NEW f2, NEW S2, NEW ex2, NEW own \in BOOLEAN,
         RowRemoves(r, f, S, ex, id, r2, f2, S2, ex2, own)
  PROVE  /\ SameNames(r2, f2, S2, next)
         /\ Mended(r, f, S, ex) => Mended(r2, f2, S2, ex2)
<1> USE DEF RowRemoves
<1> DEFINE note == [op |-> "d", id |-> id, name |-> r[id].name]
<1>1. note.id = id /\ note.name = r[id].name /\ note.op = "d"
  OBVIOUS
<1>2. \A m \in S2 : m \in S \/ (m = note /\ id \in DOMAIN r)
  OBVIOUS
<1> HIDE DEF note
<1>3. DOMAIN f2 \subseteq DOMAIN f /\ \A jd \in DOMAIN f2 : f2[jd] = f[jd]
  OBVIOUS
<1>4. \A jd \in DOMAIN f \ DOMAIN f2 : own /\ jd = id
  OBVIOUS
<1>5. SameNames(r2, f2, S2, next)
  <2>1. \A m \in S2 : m.id \in Nat /\ m.id < next
    BY <1>1, <1>2 DEF SameNames
  <2>2. ASSUME NEW m \in S2
        PROVE  /\ m.id \in DOMAIN r2 => r2[m.id].name = m.name /\ m.op # "d"
               /\ m.id \in DOMAIN f2 => f2[m.id].name = m.name
    <3>1. CASE m = note /\ id \in DOMAIN r
      BY <1>1, <1>3, <3>1 DEF SameNames
    <3>2. CASE m \in S
      BY <1>3, <3>2 DEF SameNames
    <3> QED
      BY <1>2, <3>1, <3>2
  <2>3. \A jd \in DOMAIN r2 \cap DOMAIN f2 : r2[jd].name = f2[jd].name
    BY <1>3 DEF SameNames
  <2> QED
    BY <1>3, <2>1, <2>2, <2>3 DEF SameNames
<1>6. ASSUME Mended(r, f, S, ex) PROVE Mended(r2, f2, S2, ex2)
  <2>1. ASSUME NEW jd \in DOMAIN r2 \ DOMAIN f2
        PROVE  r2[jd].name \in ex2 \/ SaidOf(S2, jd, {"i"})
    <3>1. jd \in DOMAIN r \ DOMAIN f /\ r2[jd] = r[jd]
      BY <1>4
    <3> QED
      BY <1>6, <3>1 DEF Mended, SaidOf
  <2>2. ASSUME NEW jd \in DOMAIN f2 \ DOMAIN r2
        PROVE  f2[jd].name \in ex2 \/ SaidOf(S2, jd, {"d"})
    <3>1. jd \in DOMAIN f /\ f2[jd] = f[jd]
      BY <1>3
    <3>2. CASE jd \in DOMAIN r
      <4>1. jd = id /\ ~own
        BY <3>2
      <4> QED
        BY <3>1, <3>2, <4>1 DEF SameNames
    <3>3. CASE jd \notin DOMAIN r
      BY <1>6, <3>1, <3>3 DEF Mended, SaidOf
    <3> QED
      BY <3>2, <3>3
  <2>3. ASSUME NEW jd \in DOMAIN f2 \cap DOMAIN r2
        PROVE  \/ r2[jd].name \in ex2 \/ SaidOf(S2, jd, {"i", "u"})
               \/ r2[jd].version = f2[jd].version
    <3>1. jd \in DOMAIN f \cap DOMAIN r /\ r2[jd] = r[jd] /\ f2[jd] = f[jd]
      BY <1>3
    <3> QED
      BY <1>6, <3>1 DEF Mended, SaidOf
  <2> QED
    BY <2>1, <2>2, <2>3 DEF Mended
<1> QED
  BY <1>5, <1>6

\* A notification h is processed: it is about a file that is not in the table,
\* or removes the file, or brings the row's version into the table, or brings
\* nothing because there is no row or the database refused to give it.
Noting(r, f, S, ex, h, f2, S2, ex2) ==
  /\ S \ {h} \subseteq S2 /\ S2 \subseteq S /\ ex \subseteq ex2
  /\ \/ h.op \in {"u", "d"} /\ h.id \notin DOMAIN f /\ f2 = f
     \/ /\ h.op = "d" /\ DOMAIN f2 = DOMAIN f \ {h.id}
        /\ \A id \in DOMAIN f \ {h.id} : f2[id] = f[id]
     \/ /\ h.op \in {"i", "u"} /\ h.id \in DOMAIN r /\ DOMAIN f2 = DOMAIN f \cup {h.id}
        /\ f2[h.id].name = r[h.id].name /\ f2[h.id].version = r[h.id].version
        /\ \A id \in DOMAIN f \ {h.id} : /\ f2[id].name = f[id].name
                                         /\ f2[id].version = f[id].version
     \/ SameFiles(f2, f) /\ h.name \in ex2
     \/ SameFiles(f2, f) /\ h.op \in {"i", "u"} /\ h.id \notin DOMAIN r

LEMMA NoteDone ==
  ASSUME NEW r, NEW f, NEW S, NEW ex, NEW next, SameNames(r, f, S, next),
         NEW h \in S, NEW f2, NEW S2, NEW ex2, Noting(r, f, S, ex, h, f2, S2, ex2)
  PROVE  /\ SameNames(r, f2, S2, next)
         /\ Mended(r, f, S, ex) => Mended(r, f2, S2, ex2)
<1> USE DEF Noting
<1>1. \A id, ops : SaidOf(S, id, ops) /\ (id # h.id \/ h.op \notin ops) => SaidOf(S2, id, ops)
  BY DEF SaidOf
<1>2. CASE h.op \in {"u", "d"} /\ h.id \notin DOMAIN f /\ f2 = f
  <2>1. SameNames(r, f2, S2, next)
    BY <1>2 DEF SameNames
  <2>2. ASSUME Mended(r, f, S, ex) PROVE Mended(r, f2, S2, ex2)
    <3>1. \A id \in DOMAIN r \ DOMAIN f2 : r[id].name \in ex2 \/ SaidOf(S2, id, {"i"})
      BY <1>1, <1>2, <2>2 DEF Mended
    <3>2. \A id \in DOMAIN f2 \ DOMAIN r : f2[id].name \in ex2 \/ SaidOf(S2, id, {"d"})
      BY <1>1, <1>2, <2>2 DEF Mended
    <3>3. \A id \in DOMAIN f2 \cap DOMAIN r :
            \/ r[id].name \in ex2 \/ SaidOf(S2, id, {"i", "u"})
            \/ r[id].version = f2[id].version
      BY <1>1, <1>2, <2>2 DEF Mended
    <3> QED
      BY <3>1, <3>2, <3>3 DEF Mended
  <2> QED
    BY <2>1, <2>2
<1>3. CASE /\ h.op = "d" /\ DOMAIN f2 = DOMAIN f \ {h.id}
           /\ \A id \in DOMAIN f \ {h.id} : f2[id] = f[id]
  <2>1. SameNames(r, f2, S2, next)
    BY <1>3 DEF SameNames
  <2>2. h.id \notin DOMAIN r
    BY <1>3 DEF SameNames
  <2>3. ASSUME Mended(r, f, S, ex) PROVE Mended(r, f2, S2, ex2)
    <3>1. \A id \in DOMAIN r \ DOMAIN f2 : r[id].name \in ex2 \/ SaidOf(S2, id, {"i"})
      BY <1>1, <1>3, <2>2, <2>3 DEF Mended
    <3>2. \A id \in DOMAIN f2 \ DOMAIN r : f2[id].name \in ex2 \/ SaidOf(S2, id, {"d"})
      BY <1>1, <1>3, <2>3 DEF Mended
    <3>3. \A id \in DOMAIN f2 \cap DOMAIN r :
            \/ r[id].name \in ex2 \/ SaidOf(S2, id, {"i", "u"})
            \/ r[id].version = f2[id].version
      BY <1>1, <1>3, <2>3 DEF Mended
    <3> QED
      BY <3>1, <3>2, <3>3 DEF Mended
  <2> QED
    BY <2>1, <2>3
<1>4. CASE /\ h.op \in {"i", "u"} /\ h.id \in DOMAIN r /\ DOMAIN f2 = DOMAIN f \cup {h.id}
           /\ f2[h.id].name = r[h.id].name /\ f2[h.id].version = r[h.id].version
           /\ \A id \in DOMAIN f \ {h.id} : /\ f2[id].name = f[id].name
                                            /\ f2[id].version = f[id].version
  <2>1. SameNames(r, f2, S2, next)
    BY <1>4 DEF SameNames
  <2>2. ASSUME Mended(r, f, S, ex) PROVE Mended(r, f2, S2, ex2)
    <3>1. \A id \in DOMAIN r \ DOMAIN f2 : r[id].name \in ex2 \/ SaidOf(S2, id, {"i"})
      BY <1>1, <1>4, <2>2 DEF Mended
    <3>2. \A id \in DOMAIN f2 \ DOMAIN r : f2[id].name \in ex2 \/ SaidOf(S2, id, {"d"})
      BY <1>1, <1>4, <2>2 DEF Mended
    <3>3. \A id \in DOMAIN f2 \cap DOMAIN r :
            \/ r[id].name \in ex2 \/ SaidOf(S2, id, {"i", "u"})
            \/ r[id].version = f2[id].version
      BY <1>1, <1>4, <2>2 DEF Mended
    <3> QED
      BY <3>1, <3>2, <3>3 DEF Mended
  <2> QED
    BY <2>1, <2>2
<1>5. CASE SameFiles(f2, f) /\ (h.name \in ex2 \/ (h.op \in {"i", "u"} /\ h.id \notin DOMAIN r))
  <2>1. SameNames(r, f2, S2, next)
    BY <1>5 DEF SameNames, SameFiles
  <2>2. \A id \in DOMAIN r : r[id].name \in ex2 \/ h.id # id
    BY <1>5 DEF SameNames
  <2>3. \A id \in DOMAIN f2 : f2[id].name \in ex2 \/ h.id # id \/ h.op # "d"
    BY <1>5 DEF SameNames, SameFiles
  <2>4. ASSUME Mended(r, f, S, ex) PROVE Mended(r, f2, S2, ex2)
    <3>1. \A id \in DOMAIN r \ DOMAIN f2 : r[id].name \in ex2 \/ SaidOf(S2, id, {"i"})
      BY <1>1, <1>5, <2>2, <2>4 DEF Mended, SameFiles
    <3>2. \A id \in DOMAIN f2 \ DOMAIN r : f2[id].name \in ex2 \/ SaidOf(S2, id, {"d"})
      BY <1>1, <1>5, <2>3, <2>4 DEF Mended, SameFiles
    <3>3. \A id \in DOMAIN f2 \cap DOMAIN r :
            \/ r[id].name \in ex2 \/ SaidOf(S2, id, {"i", "u"})
            \/ r[id].version = f2[id].version
      BY <1>1, <1>5, <2>2, <2>4 DEF Mended, SameFiles
    <3> QED
      BY <3>1, <3>2, <3>3 DEF Mended
  <2> QED
    BY <2>1, <2>4
<1> QED
  BY <1>2, <1>3, <1>4, <1>5

-----------------------------------------------------------------------------
(* What the queues say, as sets. *)

LEMMA RangeFacts ==
  ASSUME NEW X, NEW p \in Seq(X), NEW q \in Seq(X)
  PROVE  /\ Range(p \o q) = Range(p) \cup Range(q)
         /\ Range(<<>>) = {} /\ \A x : Range(<<x>>) = {x}
         /\ \A x \in X : Range(Append(p, x)) = Range(p) \cup {x}
         /\ p # <<>> => Range(p) = {Head(p)} \cup Range(Tail(p))
<1>1. Range(p \o q) = Range(p) \cup Range(q)
  <2>1. p \o q \in Seq(X) /\ Len(p \o q) = Len(p) + Len(q)
    BY ConcatProperties
  <2>2. \A i \in 1 .. Len(p) : (p \o q)[i] = p[i]
    BY ConcatProperties
  <2>3. \A i \in 1 .. Len(q) : (p \o q)[Len(p) + i] = q[i]
    BY ConcatProperties
  <2>4. DOMAIN (p \o q) = 1 .. Len(p) + Len(q) /\ DOMAIN p = 1 .. Len(p) /\ DOMAIN q = 1 .. Len(q)
    BY <2>1
  <2>5. Len(p) \in Nat /\ Len(q) \in Nat
    OBVIOUS
  <2>6. Range(p) \cup Range(q) \subseteq Range(p \o q)
    <3>1. ASSUME NEW i \in DOMAIN p PROVE p[i] \in Range(p \o q)
      BY <2>2, <2>4, <2>5 DEF Range
    <3>2. ASSUME NEW i \in DOMAIN q PROVE q[i] \in Range(p \o q)
      <4>1. Len(p) + i \in DOMAIN (p \o q)
        BY <2>4, <2>5
      <4> QED
        BY <2>3, <2>4, <4>1 DEF Range
    <3> QED
      BY <3>1, <3>2 DEF Range
  <2>7. ASSUME NEW i \in DOMAIN (p \o q) PROVE (p \o q)[i] \in Range(p) \cup Range(q)
    <3>1. CASE i <= Len(p)
      BY <2>2, <2>4, <2>5, <3>1 DEF Range
    <3>2. CASE i > Len(p)
      <4>1. i - Len(p) \in 1 .. Len(q) /\ Len(p) + (i - Len(p)) = i
        BY <2>4, <2>5, <3>2
      <4>2. (p \o q)[i] = q[i - Len(p)]
        BY <2>3, <4>1
      <4> QED
        BY <2>4, <4>1, <4>2 DEF Range
    <3> QED
      BY <2>4, <2>5, <3>1, <3>2
  <2> QED
    BY <2>6, <2>7 DEF Range
<1>2. Range(<<>>) = {} /\ \A x : Range(<<x>>) = {x}
  BY DEF Range
<1>3. ASSUME NEW x \in X PROVE Range(Append(p, x)) = Range(p) \cup {x}
  <2>1. /\ DOMAIN Append(p, x) = DOMAIN p \cup {Len(p) + 1}
        /\ Append(p, x)[Len(p) + 1] = x /\ \A i \in DOMAIN p : Append(p, x)[i] = p[i]
    BY AppendProperties
  <2> QED
    BY <2>1 DEF Range
<1>4. ASSUME p # <<>> PROVE Range(p) = {Head(p)} \cup Range(Tail(p))
  <2>1. /\ Head(p) = p[1] /\ Len(p) \in Nat \ {0} /\ DOMAIN p = 1 .. Len(p)
        /\ DOMAIN Tail(p) = 1 .. Len(p) - 1 /\ \A i \in 1 .. Len(p) - 1 : Tail(p)[i] = p[i + 1]
    BY <1>4, HeadTailProperties
  <2>2. ASSUME NEW i \in DOMAIN p PROVE p[i] \in {Head(p)} \cup Range(Tail(p))
    <3>1. CASE i = 1
      BY <2>1, <3>1
    <3>2. CASE i # 1
      <4>1. i - 1 \in 1 .. Len(p) - 1 /\ (i - 1) + 1 = i
        BY <2>1, <3>2
      <4>2. Tail(p)[i - 1] = p[i]
        BY <2>1, <4>1
      <4> QED
        BY <2>1, <4>1, <4>2 DEF Range
    <3> QED
      BY <3>1, <3>2
  <2>3. ASSUME NEW i \in DOMAIN Tail(p) PROVE Tail(p)[i] \in Range(p)
    <3>1. i + 1 \in DOMAIN p
      BY <2>1
    <3> QED
      BY <2>1, <3>1 DEF Range
  <2>4. p[1] \in Range(p)
    BY <2>1 DEF Range
  <2> QED
    BY <2>1, <2>2, <2>3, <2>4 DEF Range
<1> QED
  BY <1>1, <1>2, <1>3, <1>4

\* A statement takes what is on the socket, with the notification of its own change.
LEMMA AbsorbSays ==
  ASSUME Typed, NEW own \in Seq(Note), Absorb(own)
  PROVE  /\ Said' = Said \cup (IF listening THEN Range(own) ELSE {})
         /\ Absorb(<<>>) => Said' = Said
<1>1. notes \in Seq(Note) /\ wire \in Seq(Note) /\ Notified \in Seq(Note) /\ <<>> \in Seq(Note)
  BY ConcatProperties DEF Typed, QueuesTyped, Notified
<1>2. Notified' = Notified \o (IF listening THEN own ELSE <<>>)
  BY <1>1, AbsorbTypes
<1>3. Said' = Said \cup (IF listening THEN Range(own) ELSE {})
  <2>1. CASE listening
    BY <1>1, <1>2, <2>1, RangeFacts DEF Said
  <2>2. CASE ~listening
    BY <1>1, <1>2, <2>2, RangeFacts DEF Said
  <2> QED
    BY <2>1, <2>2
<1>4. ASSUME Absorb(<<>>) PROVE Said' = Said
  <2>1. Notified' = Notified \o <<>>
    BY <1>1, <1>4, AbsorbTypes
  <2> QED
    BY <1>1, <2>1 DEF Said
<1> QED
  BY <1>3, <1>4

\* A notification is taken from the head of those that libpq holds.
LEMMA TakenSays ==
  ASSUME Typed, notes # <<>>, Reload \/ (notes' = Tail(notes) /\ wire' = wire)
  PROVE  /\ Head(notes) \in Said /\ Said \ {Head(notes)} \subseteq Said' /\ Said' \subseteq Said
<1>1. /\ notes \in Seq(Note) /\ wire \in Seq(Note) /\ Tail(notes) \in Seq(Note)
      /\ <<>> \in Seq(Note)
  BY HeadTailProperties DEF Typed, QueuesTyped
<1>2. Said = Range(notes) \cup Range(wire) /\ Range(notes) = {Head(notes)} \cup Range(Tail(notes))
  BY <1>1, RangeFacts DEF Said, Notified
<1>3. Said' = Range(Tail(notes)) \cup Range(wire)
  <2>1. Notified' = Tail(notes) \o wire
    <3>1. CASE Reload
      <4>1. Tail(notes) \o wire \in Seq(Note)
        BY <1>1, ConcatProperties
      <4>2. notes' = Tail(notes) \o wire /\ wire' = <<>>
        BY <3>1 DEF Reload
      <4>3. notes' \o wire' = Tail(notes) \o wire
        BY <4>1, <4>2, ConcatProperties
      <4> QED
        BY <4>3 DEF Notified
    <3>2. CASE notes' = Tail(notes) /\ wire' = wire
      BY <3>2 DEF Notified
    <3> QED
      BY <3>1, <3>2
  <2>2. \A t \in Seq(Note) : Range(t \o wire) = Range(t) \cup Range(wire)
    BY <1>1, RangeFacts
  <2>3. Range(Tail(notes) \o wire) = Range(Tail(notes)) \cup Range(wire)
    BY <1>1, <2>2
  <2> QED
    BY <2>1, <2>3 DEF Said
<1> QED
  BY <1>2, <1>3

LEMMA ForeignSays ==
  ASSUME Typed, NEW op \in {"i", "u", "d"}, NEW id \in Nat, NEW n \in Names,
         Foreign(op, id, n)
  PROVE  /\ Said' = Said \cup (IF listening THEN {[op |-> op, id |-> id, name |-> n]} ELSE {})
         /\ excused \subseteq excused' /\ (~listening => n \in excused')
         /\ filesById' = filesById /\ pc' = pc
<1> DEFINE note == [op |-> op, id |-> id, name |-> n]
<1>1. notes \in Seq(Note) /\ wire \in Seq(Note) /\ note \in Note
  BY DEF Typed, QueuesTyped, Note
<1>2. IF listening THEN wire' = Append(wire, note) /\ UNCHANGED excused
                   ELSE excused' = excused \cup {n} /\ UNCHANGED wire
  BY DEF Foreign
<1>3. filesById' = filesById /\ pc' = pc /\ notes' = notes
  BY DEF Foreign, indexes, session
<1> HIDE DEF note
<1>4. Said' = Said \cup (IF listening THEN {note} ELSE {})
  <2>1. CASE listening
    <3>1. wire' = Append(wire, note)
      BY <1>2, <2>1
    <3>2. wire' \in Seq(Note)
      BY <1>1, <3>1, AppendProperties
    <3>3. Range(wire') = Range(wire) \cup {note}
      BY <1>1, <3>1, RangeFacts
    <3>4. Said = Range(notes) \cup Range(wire)
      BY <1>1, RangeFacts DEF Said, Notified
    <3>5. Notified' = notes \o wire'
      BY <1>3 DEF Notified
    <3>6. Said' = Range(notes) \cup Range(wire')
      BY <1>1, <3>2, <3>5, RangeFacts DEF Said
    <3> QED
      BY <2>1, <3>3, <3>4, <3>6
  <2>2. CASE ~listening
    BY <1>2, <1>3, <2>2 DEF Said, Notified
  <2> QED
    BY <2>1, <2>2
<1> QED
  BY <1>2, <1>3, <1>4 DEF note

\* Watching a file changes neither its name nor its version.
LEMMA WatchedSame ==
  ASSUME NEW files, FilesTyped(files), NEW id \in DOMAIN files, watchFile(id, files)
  PROVE  SameFiles(filesById', files)
<1> DEFINE wd == IF watchOf[files[id].name] # 0 THEN watchOf[files[id].name] ELSE nextWd
<1>1. filesById' = [files EXCEPT ![id].wd = wd]
  BY DEF watchFile
<1> HIDE DEF wd
<1> QED
  BY <1>1 DEF FilesTyped, FileInfo, SameFiles

\* What is left of the table by the steps that say nothing about it.
LEMMA Quiet ==
  ASSUME Typed, Typed', CacheInv, rows' = rows, SameFiles(filesById', filesById),
         nextId <= nextId', Said' = Said, excused \subseteq excused',
         pc = "load" => pc' = "load"
  PROVE  CacheInv'
<1>1. nextId \in Nat /\ nextId' \in Nat
  BY DEF Typed, OutsideTyped
<1>2. SameNames(rows, filesById', Said, nextId')
  BY <1>1, NothingChanged DEF CacheInv
<1>3. pc # "load" => Mended(rows, filesById', Said, excused')
  BY <1>1, NothingChanged DEF CacheInv
<1>4. SameNames(rows', filesById', Said', nextId')
  BY <1>2
<1>5. pc' # "load" => Mended(rows', filesById', Said', excused')
  BY <1>3
<1> QED
  BY <1>4, <1>5 DEF CacheInv

LEMMA QuietSteps ==
  ASSUME Typed, Typed', CacheInv, pc = "load" => pc' = "load",
         UNCHANGED <<database, dbQueues, filesById>>, excused \subseteq excused'
  PROVE  CacheInv'
<1>1. rows' = rows /\ nextId' = nextId /\ Said' = Said
  BY DEF database, dbQueues, Said, Notified
<1>2. SameFiles(filesById', filesById) /\ nextId <= nextId'
  BY <1>1 DEF SameFiles, Typed, OutsideTyped
<1> QED
  BY <1>1, <1>2, Quiet

-----------------------------------------------------------------------------
(* The session's own changes of rows. *)

LEMMA OwnInsert ==
  ASSUME Typed, CacheInv, NEW n \in Present, insertDBFile(n),
         SameFiles(filesById', newFile(n)), pc = "load" => pc' = "load"
  PROVE  CacheInv'
<1> DEFINE note == [op |-> "i", id |-> nextId, name |-> n]
<1>1. n \in Names /\ nextId \in Nat /\ SameNames(rows, filesById, Said, nextId)
  BY DEF Typed, OutsideTyped, DiskTyped, Present, CacheInv
<1>2. nextId \notin DOMAIN rows \cup DOMAIN filesById
  BY <1>1 DEF SameNames
<1>3. /\ DOMAIN rows' = DOMAIN rows \cup {nextId} /\ rows'[nextId].name = n
      /\ rows'[nextId].version = 1 /\ \A id \in DOMAIN rows : rows'[id] = rows[id]
      /\ nextId' = nextId + 1 /\ excused \subseteq excused'
  BY <1>2 DEF insertDBFile, With
<1>4. /\ DOMAIN filesById' = DOMAIN filesById \cup {nextId}
      /\ filesById'[nextId].name = n /\ filesById'[nextId].version = 1
      /\ \A id \in DOMAIN filesById : /\ filesById'[id].name = filesById[id].name
                                      /\ filesById'[id].version = filesById[id].version
  BY <1>2 DEF SameFiles, newFile, With
<1>5. <<note>> \in Seq(Note) /\ Absorb(<<note>>)
  BY <1>1, NoteTypes DEF insertDBFile
<1>6. Said \subseteq Said' /\ \A m \in Said' \ Said : m = note
  <2>1. Range(<<note>>) = {note}
    BY DEF Range
  <2>2. Said' = Said \cup (IF listening THEN Range(<<note>>) ELSE {})
    BY <1>5, AbsorbSays
  <2> HIDE DEF note
  <2> QED
    BY <2>1, <2>2
<1>7. /\ SameNames(rows', filesById', Said', nextId + 1)
      /\ Mended(rows, filesById, Said, excused) => Mended(rows', filesById', Said', excused')
  <2>1. RowAdds(rows, filesById, Said, excused, nextId, n, rows', filesById', Said', excused',
                TRUE)
    BY <1>3, <1>4, <1>6 DEF RowAdds
  <2> QED
    BY <1>1, <2>1, RowAdded
<1> QED
  BY <1>3, <1>7 DEF CacheInv

LEMMA OwnRefusal ==
  ASSUME Typed, Typed', CacheInv, insertFails, excused \subseteq excused',
         filesById' = filesById, pc = "load" => pc' = "load"
  PROVE  CacheInv'
<1>1. nextId \in Nat /\ <<>> \in Seq(Note)
  BY DEF Typed, OutsideTyped
<1>2. Said' = Said
  BY <1>1, AbsorbSays DEF insertFails
<1>3. rows' = rows /\ nextId' = nextId + 1 /\ excused \subseteq excused'
  BY DEF insertFails
<1>4. SameFiles(filesById', filesById) /\ nextId <= nextId'
  BY <1>1, <1>3 DEF SameFiles
<1> QED
  BY <1>2, <1>3, <1>4, Quiet

LEMMA OwnUpdate ==
  ASSUME Typed, Typed', CacheInv, NEW id \in Nat, NEW n, updateDBFile(id, n),
         UNCHANGED <<nextId, excused>>, pc' = pc
  PROVE  CacheInv'
<1> DEFINE new == filesById[id].version + 1
<1>1. <<>> \in Seq(Note) /\ SameNames(rows, filesById, Said, nextId) /\ nextId \in Nat
  BY DEF CacheInv, Typed, OutsideTyped
<1>2. FilesTyped(filesById) /\ RowsTyped(rows)
  BY DEF Typed, OutsideTyped, TablesTyped
<1>3. CASE id \notin Known
  <2>1. Absorb(<<>>) /\ rows' = rows /\ filesById' = filesById
    BY <1>3 DEF updateDBFile
  <2>2. Said' = Said
    BY <1>1, <2>1, AbsorbSays
  <2>3. SameFiles(filesById', filesById) /\ nextId <= nextId'
    BY <1>1, <2>1 DEF SameFiles
  <2> QED
    BY <2>1, <2>2, <2>3, Quiet
<1>4. CASE id \in Known
  <2>1. filesById' = [filesById EXCEPT ![id].version = new]
    BY <1>4 DEF updateDBFile
  <2>2. /\ DOMAIN filesById' = DOMAIN filesById /\ filesById'[id].version = new
        /\ \A jd \in DOMAIN filesById : filesById'[jd].name = filesById[jd].name
        /\ \A jd \in DOMAIN filesById \ {id} : filesById'[jd].version = filesById[jd].version
    BY <1>2, <1>4, <2>1 DEF FilesTyped, FileInfo, Known
  <2>3. CASE id \notin DOMAIN rows
    <3>1. Absorb(<<>>) /\ rows' = rows
      BY <1>4, <2>3 DEF updateDBFile
    <3>2. Said' = Said
      BY <1>1, <3>1, AbsorbSays
    <3>3. SameNames(rows', filesById', Said', nextId')
      BY <1>1, <2>2, <3>1, <3>2 DEF SameNames
    <3>4. Mended(rows, filesById, Said, excused) => Mended(rows', filesById', Said', excused')
      BY <2>2, <2>3, <3>1, <3>2 DEF Mended
    <3> QED
      BY <3>3, <3>4 DEF CacheInv
  <2>4. CASE id \in DOMAIN rows
    <3> DEFINE note == NoteOf("u", id)
    <3>1. /\ rows' = [rows EXCEPT ![id].version = new, ![id].data = disk[n]]
          /\ Absorb(<<note>>)
      BY <1>4, <2>4 DEF updateDBFile
    <3>2. /\ DOMAIN rows' = DOMAIN rows /\ rows'[id].name = rows[id].name
          /\ rows'[id].version = new
          /\ \A jd \in DOMAIN rows \ {id} : rows'[jd] = rows[jd]
      BY <1>2, <2>4, <3>1 DEF RowsTyped, RowType
    <3>3. <<note>> \in Seq(Note) /\ Range(<<note>>) = {note}
      BY <2>4, NoteOfTypes DEF Range
    <3>4. note = [op |-> "u", id |-> id, name |-> rows[id].name]
      BY DEF NoteOf
    <3> HIDE DEF note
    <3>5. Said' = Said \cup (IF listening THEN Range(<<note>>) ELSE {})
      BY <3>1, <3>3, AbsorbSays
    <3>6. Said \subseteq Said' /\ \A m \in Said' \ Said : m = note
      BY <3>3, <3>5
    <3> HIDE DEF new
    <3>7. /\ SameNames(rows', filesById', Said', nextId)
          /\ Mended(rows, filesById, Said, excused) => Mended(rows', filesById', Said', excused')
      <4>1. RowUpdates(rows, filesById, Said, excused, id, rows', filesById', Said', excused',
                       TRUE)
        BY <1>4, <2>2, <3>2, <3>4, <3>6 DEF RowUpdates, Known
      <4>2. nextId' = nextId
        OBVIOUS
      <4> QED
        BY <1>1, <2>4, <4>1, <4>2, RowUpdated
    <3> QED
      BY <3>7 DEF CacheInv
  <2> QED
    BY <2>3, <2>4
<1> QED
  BY <1>3, <1>4

LEMMA OwnRemoval ==
  ASSUME Typed, CacheInv, NEW id, removeDBFile(id), UNCHANGED <<nextId, excused>>, pc' = pc
  PROVE  CacheInv'
<1> DEFINE own == IF id \notin DOMAIN rows THEN <<>> ELSE <<NoteOf("d", id)>>
           note == [op |-> "d", id |-> id, name |-> rows[id].name]
<1>1. SameNames(rows, filesById, Said, nextId)
  BY DEF CacheInv
<1>2. /\ filesById' = Without(filesById, id) /\ rows' = Without(rows, id) /\ Absorb(own)
  BY DEF removeDBFile
<1>3. own \in Seq(Note) /\ \A m \in Range(own) : id \in DOMAIN rows /\ m = note
  <2>1. CASE id \notin DOMAIN rows
    BY <2>1 DEF Range
  <2>2. CASE id \in DOMAIN rows
    <3>1. NoteOf("d", id) = note
      BY DEF NoteOf
    <3>2. <<NoteOf("d", id)>> \in Seq(Note) /\ Range(<<NoteOf("d", id)>>) = {NoteOf("d", id)}
      BY <2>2, NoteOfTypes DEF Range
    <3> QED
      BY <2>2, <3>1, <3>2
  <2> QED
    BY <2>1, <2>2
<1> HIDE DEF own, note
<1>4. Said' = Said \cup (IF listening THEN Range(own) ELSE {})
  BY <1>2, <1>3, AbsorbSays
<1>5. Said \subseteq Said' /\ \A m \in Said' \ Said : id \in DOMAIN rows /\ m = note
  BY <1>3, <1>4
<1>6. /\ DOMAIN rows' = DOMAIN rows \ {id} /\ \A jd \in DOMAIN rows \ {id} : rows'[jd] = rows[jd]
      /\ DOMAIN filesById' = DOMAIN filesById \ {id}
      /\ \A jd \in DOMAIN filesById \ {id} : filesById'[jd] = filesById[jd]
  BY <1>2 DEF Without, Restrict
<1>7. /\ SameNames(rows', filesById', Said', nextId)
      /\ Mended(rows, filesById, Said, excused) => Mended(rows', filesById', Said', excused')
  <2>1. RowRemoves(rows, filesById, Said, excused, id, rows', filesById', Said', excused', TRUE)
    BY <1>5, <1>6 DEF RowRemoves, note
  <2>2. nextId' = nextId
    OBVIOUS
  <2> QED
    BY <1>1, <2>1, <2>2, RowRemoved
<1> QED
  BY <1>7 DEF CacheInv

-----------------------------------------------------------------------------
(* Every step keeps the table and the database together. *)

LEMMA InitCache == Init => CacheInv
<1> SUFFICES ASSUME Init PROVE CacheInv
  OBVIOUS
<1>1. FirstId \in Nat /\ nextId = FirstId + 2 /\ pc = "load" /\ DOMAIN filesById = {}
  BY FileSyncAssumption DEF Init
<1>2. Said = {}
  BY DEF Init, Said, Notified, Range
<1>3. \A id \in DOMAIN rows : id \in FirstId .. FirstId + 1
  BY DEF Init
<1>4. \A id \in DOMAIN rows : id \in Nat /\ id < nextId
  BY <1>1, <1>3
<1> QED
  BY <1>1, <1>2, <1>4 DEF CacheInv, SameNames

LEMMA StartupCache == ASSUME Typed, Typed', CacheInv, Startup PROVE CacheInv'
<1>1. ASSUME connect PROVE CacheInv'
  <2>1. PICK ok \in BOOLEAN :
          /\ filesById' = IF ~ok THEN <<>> ELSE
               [id \in DOMAIN rows |-> [name |-> rows[id].name,
                                        version |-> rows[id].version, wd |-> 0]]
          /\ excused' = IF ok THEN excused ELSE RowNames
    BY <1>1 DEF connect
  <2>2. rows' = rows /\ nextId' = nextId /\ Said' = Said
    BY <1>1 DEF connect, database, dbQueues, Said, Notified
  <2>3. CASE ok
    <3>1. /\ DOMAIN filesById' = DOMAIN rows
          /\ \A id \in DOMAIN rows : /\ filesById'[id].name = rows[id].name
                                     /\ filesById'[id].version = rows[id].version
      BY <2>1, <2>3
    <3>2. SameNames(rows, filesById', Said, nextId)
      BY <3>1 DEF CacheInv, SameNames
    <3>3. Mended(rows, filesById', Said, excused')
      BY <3>1 DEF Mended
    <3> QED
      BY <2>2, <3>2, <3>3 DEF CacheInv
  <2>4. CASE ~ok
    <3>1. DOMAIN filesById' = {} /\ \A id \in DOMAIN rows : rows[id].name \in excused'
      BY <2>1, <2>4 DEF RowNames
    <3>2. SameNames(rows, filesById', Said, nextId)
      BY <3>1 DEF CacheInv, SameNames
    <3>3. Mended(rows, filesById', Said, excused')
      BY <3>1 DEF Mended
    <3> QED
      BY <2>2, <3>2, <3>3 DEF CacheInv
  <2> QED
    BY <2>3, <2>4
<1>2. ASSUME setupInotify PROVE CacheInv'
  <2>1. /\ DOMAIN filesById' = Known
        /\ \A id \in Known : \E w : filesById'[id] = [filesById[id] EXCEPT !.wd = w]
    BY <1>2 DEF setupInotify
  <2>2. SameFiles(filesById', filesById)
    BY <2>1 DEF SameFiles, Known, Typed, TablesTyped, FilesTyped, FileInfo
  <2>3. /\ rows' = rows /\ nextId' = nextId /\ Said' = Said /\ excused' = excused
        /\ pc = "setup" /\ nextId <= nextId'
    BY <1>2 DEF setupInotify, database, dbQueues, history, Said, Notified, Typed, OutsideTyped
  <2> QED
    BY <2>2, <2>3, Quiet
<1>3. ASSUME listen PROVE CacheInv'
  BY <1>3, QuietSteps DEF listen, indexes, history
<1> QED
  BY <1>1, <1>2, <1>3 DEF Startup

LEMMA RCache == ASSUME Typed, Typed', CacheInv, R PROVE CacheInv'
<1>1. ASSUME StartScript PROVE CacheInv'
  BY <1>1, QuietSteps DEF StartScript, history
<1>2. ASSUME EndScript PROVE CacheInv'
  BY <1>2, QuietSteps DEF EndScript, indexes, history
<1>3. ASSUME NEW n \in Names, RWrite(n) PROVE CacheInv'
  BY <1>3, QuietSteps DEF RWrite, indexes, session
<1>4. ASSUME NEW n \in Names, RRemove(n) PROVE CacheInv'
  BY <1>4, QuietSteps DEF RRemove, indexes, session
<1>5. ASSUME NEW n \in Names, findOrAddFile(n) PROVE CacheInv'
  <2>1. n \in Present /\ pc' = pc
    BY <1>5 DEF findOrAddFile, session
  <2>2. CASE insertDBFile(n) /\ filesById' = newFile(n)
    <3>1. SameFiles(filesById', newFile(n))
      BY <2>2 DEF SameFiles
    <3> QED
      BY <2>1, <2>2, <3>1, OwnInsert
  <2>3. CASE insertRefused(n) /\ filesById' = filesById
    BY <2>1, <2>3, OwnRefusal DEF insertRefused, insertFails
  <2> QED
    BY <1>5, <2>2, <2>3 DEF findOrAddFile
<1> QED
  BY <1>1, <1>2, <1>3, <1>4, <1>5 DEF R

LEMMA OthersCache == ASSUME Typed, Typed', CacheInv, Others PROVE CacheInv'
<1>0. SameNames(rows, filesById, Said, nextId) /\ nextId \in Nat /\ RowsTyped(rows)
  BY DEF CacheInv, Typed, OutsideTyped
<1>1. ASSUME NEW n \in Names, ForeignInsert(n) PROVE CacheInv'
  <2>1. Foreign("i", nextId, n) /\ nextId' = nextId + 1
    BY <1>1 DEF ForeignInsert
  <2>2. nextId \notin DOMAIN rows
    BY <1>0 DEF SameNames
  <2>3. /\ DOMAIN rows' = DOMAIN rows \cup {nextId} /\ rows'[nextId].name = n
        /\ \A id \in DOMAIN rows : rows'[id] = rows[id]
    BY <1>1, <2>2 DEF ForeignInsert, With
  <2>4. /\ Said' = Said \cup (IF listening THEN {[op |-> "i", id |-> nextId, name |-> n]} ELSE {})
        /\ excused \subseteq excused' /\ (~listening => n \in excused')
        /\ filesById' = filesById /\ pc' = pc
    BY <1>0, <2>1, ForeignSays
  <2>5. /\ Said \subseteq Said'
        /\ \A m \in Said' \ Said : m = [op |-> "i", id |-> nextId, name |-> n]
    BY <2>4
  <2>6. listening => Said' # Said
    <3>1. \A m \in Said : m.id # nextId
      BY <1>0 DEF SameNames
    <3>2. [op |-> "i", id |-> nextId, name |-> n].id = nextId
      OBVIOUS
    <3> QED
      BY <2>4, <3>1, <3>2
  <2>7. n \in excused' \/ Said' # Said
    BY <2>4, <2>6
  <2>8. RowAdds(rows, filesById, Said, excused, nextId, n, rows', filesById', Said', excused',
                FALSE)
    BY <2>3, <2>4, <2>5, <2>7 DEF RowAdds
  <2>9. /\ SameNames(rows', filesById', Said', nextId + 1)
        /\ Mended(rows, filesById, Said, excused) => Mended(rows', filesById', Said', excused')
    BY <1>0, <2>8, RowAdded
  <2> QED
    BY <2>1, <2>4, <2>9 DEF CacheInv
<1>2. ASSUME NEW id \in DOMAIN rows, ForeignUpdate(id) PROVE CacheInv'
  <2> DEFINE note == [op |-> "u", id |-> id, name |-> rows[id].name]
  <2>1. Foreign("u", id, rows[id].name) /\ nextId' = nextId
    BY <1>2 DEF ForeignUpdate
  <2>2. id \in Nat /\ rows[id].name \in Names
    BY <1>0 DEF RowsTyped, RowType
  <2>3. /\ DOMAIN rows' = DOMAIN rows /\ rows'[id].name = rows[id].name
        /\ \A jd \in DOMAIN rows \ {id} : rows'[jd] = rows[jd]
    BY <1>0, <1>2 DEF ForeignUpdate, RowsTyped, RowType
  <2>4. /\ Said' = Said \cup (IF listening THEN {note} ELSE {})
        /\ excused \subseteq excused' /\ (~listening => rows[id].name \in excused')
        /\ filesById' = filesById /\ pc' = pc
    BY <2>1, <2>2, ForeignSays
  <2>5. Said \subseteq Said' /\ \A m \in Said' \ Said : m = note
    BY <2>4
  <2>6. note.id = id /\ note.op = "u"
    OBVIOUS
  <2>7. listening => SaidOf(Said', id, {"u"})
    BY <2>4, <2>6 DEF SaidOf
  <2>8. rows[id].name \in excused' \/ SaidOf(Said', id, {"u"})
    BY <2>4, <2>7
  <2>9. RowUpdates(rows, filesById, Said, excused, id, rows', filesById', Said', excused', FALSE)
    BY <2>3, <2>4, <2>5, <2>8 DEF RowUpdates
  <2>10. /\ SameNames(rows', filesById', Said', nextId)
         /\ Mended(rows, filesById, Said, excused) => Mended(rows', filesById', Said', excused')
    BY <1>0, <2>9, RowUpdated
  <2> QED
    BY <2>1, <2>4, <2>10 DEF CacheInv
<1>3. ASSUME NEW id \in DOMAIN rows, ForeignDelete(id) PROVE CacheInv'
  <2> DEFINE note == [op |-> "d", id |-> id, name |-> rows[id].name]
  <2>1. Foreign("d", id, rows[id].name) /\ nextId' = nextId
    BY <1>3 DEF ForeignDelete
  <2>2. id \in Nat /\ rows[id].name \in Names
    BY <1>0 DEF RowsTyped, RowType
  <2>3. /\ DOMAIN rows' = DOMAIN rows \ {id}
        /\ \A jd \in DOMAIN rows \ {id} : rows'[jd] = rows[jd]
    BY <1>3 DEF ForeignDelete, Without, Restrict
  <2>4. /\ Said' = Said \cup (IF listening THEN {note} ELSE {})
        /\ excused \subseteq excused' /\ (~listening => rows[id].name \in excused')
        /\ filesById' = filesById /\ pc' = pc
    BY <2>1, <2>2, ForeignSays
  <2>5. Said \subseteq Said' /\ \A m \in Said' \ Said : m = note
    BY <2>4
  <2>6. note.id = id /\ note.op = "d"
    OBVIOUS
  <2>7. listening => SaidOf(Said', id, {"d"})
    BY <2>4, <2>6 DEF SaidOf
  <2>8. rows[id].name \in excused' \/ SaidOf(Said', id, {"d"})
    BY <2>4, <2>7
  <2>9. RowRemoves(rows, filesById, Said, excused, id, rows', filesById', Said', excused', FALSE)
    BY <2>3, <2>4, <2>5, <2>8 DEF RowRemoves
  <2>10. /\ SameNames(rows', filesById', Said', nextId)
         /\ Mended(rows, filesById, Said, excused) => Mended(rows', filesById', Said', excused')
    BY <1>0, <2>9, RowRemoved
  <2> QED
    BY <2>1, <2>4, <2>10 DEF CacheInv
<1> QED
  BY <1>1, <1>2, <1>3 DEF Others

LEMMA InotifyCache == ASSUME Typed, Typed', CacheInv, Inotify PROVE CacheInv'
<1>1. ASSUME handleInotifyEvent PROVE CacheInv'
  <2>1. excused \subseteq excused'
    BY <1>1 DEF handleInotifyEvent
  <2>2. UNCHANGED <<database, dbQueues, filesById>> /\ pc = "idle"
    BY <1>1 DEF handleInotifyEvent, indexes
  <2> QED
    BY <2>1, <2>2, QuietSteps
<1>2. ASSUME CutName PROVE CacheInv'
  BY <1>2, QuietSteps DEF CutName, indexes, session, history
<1>3. ASSUME CreateSkipped PROVE CacheInv'
  <2>1. excused \subseteq excused'
    BY <1>3 DEF CreateSkipped, Lost
  <2>2. UNCHANGED <<database, dbQueues, filesById>> /\ pc' = pc
    BY <1>3 DEF CreateSkipped, indexes, session
  <2> QED
    BY <2>1, <2>2, QuietSteps
<1>4. ASSUME CreateInserted PROVE CacheInv'
  <2> DEFINE n == Head(batch).name
  <2>1. n \in Present /\ pc' = pc
    BY <1>4 DEF CreateInserted, session
  <2>2. \/ insertDBFile(n) /\ watchFile(nextId, newFile(n))
        \/ insertRefused(n) /\ filesById' = filesById
    BY <1>4 DEF CreateInserted
  <2> HIDE DEF n
  <2>3. CASE insertDBFile(n) /\ watchFile(nextId, newFile(n))
    <3>1. FilesTyped(newFile(n)) /\ nextId \in DOMAIN newFile(n)
      BY <2>1, InsertTypes DEF Present, Typed, OutsideTyped, DiskTyped
    <3>2. SameFiles(filesById', newFile(n))
      BY <2>3, <3>1, WatchedSame
    <3> QED
      BY <2>1, <2>3, <3>2, OwnInsert
  <2>4. CASE insertRefused(n) /\ filesById' = filesById
    BY <2>1, <2>4, OwnRefusal DEF insertRefused, insertFails
  <2> QED
    BY <2>2, <2>3, <2>4
<1>9. ASSUME CutLongName PROVE CacheInv'
  <2>1. excused \subseteq excused' /\ filesById' = filesById /\ pc = "inotify"
    BY <1>9 DEF CutLongName, Event, indexes
  <2>2. UNCHANGED <<database, dbQueues>> \/ insertFails
    BY <1>9 DEF CutLongName
  <2> QED
    BY <2>1, <2>2, QuietSteps, OwnRefusal
<1>10. ASSUME CreateFailed PROVE CacheInv'
  <2>1. excused \subseteq excused' /\ filesById' = filesById /\ pc = "inotify" /\ insertFails
    BY <1>10 DEF CreateFailed, Event, Lost, indexes
  <2> QED
    BY <2>1, OwnRefusal
<1>5. ASSUME NoEntry PROVE CacheInv'
  BY <1>5, QuietSteps DEF NoEntry, indexes, history
<1>6. ASSUME CloseWrite PROVE CacheInv'
  <2> DEFINE e == Head(batch)
             id == byWd[e.wd]
  <2>1. /\ e.wd \in DOMAIN byWd /\ pc' = pc /\ nextId' = nextId
        /\ \/ UNCHANGED <<rows, dbQueues, filesById, excused>>
           \/ updateDBFile(id, e.name) /\ UNCHANGED excused
           \/ Lost(e.name) /\ Absorb(<<>>) /\ UNCHANGED <<rows, filesById>>
    BY <1>6 DEF CloseWrite, session
  <2>2. id \in Nat
    BY <2>1 DEF Typed, TablesTyped, EntriesTyped
  <2> HIDE DEF e, id
  <2>3. CASE UNCHANGED <<rows, dbQueues, filesById, excused>>
    BY <2>1, <2>3, QuietSteps DEF database
  <2>4. CASE updateDBFile(id, e.name) /\ UNCHANGED excused
    BY <2>1, <2>2, <2>4, OwnUpdate
  <2>5. CASE Lost(e.name) /\ Absorb(<<>>) /\ UNCHANGED <<rows, filesById>>
    <3>1. <<>> \in Seq(Note)
      OBVIOUS
    <3>2. Said' = Said
      BY <2>5, <3>1, AbsorbSays
    <3>3. SameFiles(filesById', filesById) /\ excused \subseteq excused' /\ nextId <= nextId'
      BY <2>1, <2>5 DEF SameFiles, Lost, Typed, OutsideTyped
    <3> QED
      BY <2>1, <2>5, <3>2, <3>3, Quiet
  <2> QED
    BY <2>1, <2>3, <2>4, <2>5
<1>7. ASSUME DeleteSelf PROVE CacheInv'
  <2> DEFINE e == Head(batch)
             id == byWd[e.wd]
  <2>1. /\ pc' = pc /\ nextId' = nextId
        /\ \/ removeDBFile(id) /\ UNCHANGED excused
           \/ Lost(e.name) /\ Absorb(<<>>) /\ UNCHANGED <<rows, filesById>>
    BY <1>7 DEF DeleteSelf, session
  <2> HIDE DEF e, id
  <2>2. CASE removeDBFile(id) /\ UNCHANGED excused
    BY <2>1, <2>2, OwnRemoval
  <2>3. CASE Lost(e.name) /\ Absorb(<<>>) /\ UNCHANGED <<rows, filesById>>
    <3>1. <<>> \in Seq(Note)
      OBVIOUS
    <3>2. Said' = Said
      BY <2>3, <3>1, AbsorbSays
    <3>3. SameFiles(filesById', filesById) /\ excused \subseteq excused' /\ nextId <= nextId'
      BY <2>1, <2>3 DEF SameFiles, Lost, Typed, OutsideTyped
    <3> QED
      BY <2>1, <2>3, <3>2, <3>3, Quiet
  <2> QED
    BY <2>1, <2>2, <2>3
<1>8. ASSUME EndBatch PROVE CacheInv'
  BY <1>8, QuietSteps DEF EndBatch, indexes, history
<1> QED
  BY <1>1, <1>2, <1>3, <1>4, <1>5, <1>6, <1>7, <1>8, <1>9, <1>10 DEF Inotify

\* A notification taken from the head, and what the table is made of it.
LEMMA NotedStep ==
  ASSUME Typed, CacheInv, notes # <<>>, Reload \/ (notes' = Tail(notes) /\ wire' = wire),
         UNCHANGED database, pc # "load",
         Noting(rows, filesById, Said, excused, Head(notes), filesById', Said', excused')
  PROVE  CacheInv'
<1>1. Head(notes) \in Said /\ SameNames(rows, filesById, Said, nextId)
  BY TakenSays DEF CacheInv
<1>2. /\ SameNames(rows, filesById', Said', nextId)
      /\ Mended(rows, filesById, Said, excused) => Mended(rows, filesById', Said', excused')
  BY <1>1, NoteDone
<1>3. rows' = rows /\ nextId' = nextId
  BY DEF database
<1> QED
  BY <1>2, <1>3 DEF CacheInv

\* The row that a notification brings replaces the file object.
LEMMA FromRow ==
  ASSUME Typed, NEW id \in DOMAIN rows
  PROVE  /\ DOMAIN fileFromRow(id) = Known \cup {id}
         /\ fileFromRow(id)[id].name = rows[id].name
         /\ fileFromRow(id)[id].version = rows[id].version
         /\ \A jd \in Known \ {id} : fileFromRow(id)[jd] = filesById[jd]
BY DEF fileFromRow, With, Known

LEMMA NotificationsCache == ASSUME Typed, Typed', CacheInv, Notifications PROVE CacheInv'
<1>1. ASSUME handleDBNotifications PROVE CacheInv'
  <2>1. <<>> \in Seq(Note)
    OBVIOUS
  <2>2. Said' = Said
    BY <1>1, <2>1, AbsorbSays DEF handleDBNotifications
  <2>3. /\ rows' = rows /\ nextId' = nextId /\ filesById' = filesById /\ excused' = excused
        /\ pc = "idle"
    BY <1>1 DEF handleDBNotifications, database, indexes, history
  <2>4. SameFiles(filesById', filesById) /\ nextId <= nextId'
    BY <2>3 DEF SameFiles, Typed, OutsideTyped
  <2> QED
    BY <2>2, <2>3, <2>4, Quiet
<1>2. ASSUME noteUnknown PROVE CacheInv'
  <2>1. /\ notes # <<>> /\ notes' = Tail(notes) /\ wire' = wire /\ UNCHANGED database
        /\ pc # "load" /\ filesById' = filesById /\ excused' = excused
        /\ Head(notes).op \in {"u", "d"} /\ Head(notes).id \notin DOMAIN filesById
    BY <1>2 DEF noteUnknown, Noted, noted, indexes, history, Known
  <2>2. Said \ {Head(notes)} \subseteq Said' /\ Said' \subseteq Said
    BY <2>1, TakenSays
  <2>3. Noting(rows, filesById, Said, excused, Head(notes), filesById', Said', excused')
    BY <2>1, <2>2 DEF Noting
  <2> QED
    BY <2>1, <2>3, NotedStep
<1>3. ASSUME noteDelete PROVE CacheInv'
  <2>1. /\ notes # <<>> /\ notes' = Tail(notes) /\ wire' = wire /\ UNCHANGED database
        /\ pc # "load" /\ filesById' = Without(filesById, noted) /\ excused' = excused
        /\ Head(notes).op = "d"
    BY <1>3 DEF noteDelete, Noted
  <2>2. Said \ {Head(notes)} \subseteq Said' /\ Said' \subseteq Said
    BY <2>1, TakenSays
  <2>3. /\ DOMAIN filesById' = DOMAIN filesById \ {Head(notes).id}
        /\ \A id \in DOMAIN filesById \ {Head(notes).id} : filesById'[id] = filesById[id]
    BY <2>1 DEF Without, Restrict, noted
  <2>4. Noting(rows, filesById, Said, excused, Head(notes), filesById', Said', excused')
    BY <2>1, <2>2, <2>3 DEF Noting
  <2> QED
    BY <2>1, <2>4, NotedStep
<1>4. ASSUME noteInsert \/ noteUpdate PROVE CacheInv'
  <2>1. /\ notes # <<>> /\ Reload /\ UNCHANGED database /\ pc # "load"
        /\ Head(notes).op \in {"i", "u"}
    BY <1>4 DEF noteInsert, noteUpdate, Noted
  <2>2. \E ok \in BOOLEAN :
          /\ excused' = IF ok THEN excused ELSE excused \cup {Head(notes).name}
          /\ \/ /\ ok /\ noted \in DOMAIN rows
                /\ watchFile(noted, fileFromRow(noted)) \/ filesById' = fileFromRow(noted)
             \/ /\ ~ok \/ noted \notin DOMAIN rows
                /\ \/ noted \in Known /\ watchFile(noted, filesById)
                   \/ filesById' = filesById
    <3>1. CASE noteInsert
      <4>1. PICK ok \in BOOLEAN :
              /\ excused' = IF ok THEN excused ELSE excused \cup {Head(notes).name}
              /\ CASE ok /\ noted \in DOMAIN rows -> watchFile(noted, fileFromRow(noted))
                   [] ~(ok /\ noted \in DOMAIN rows) /\ noted \in Known ->
                        IF (IF noted \in DOMAIN rows THEN rows[noted].name
                            ELSE filesById[noted].name) \in Present
                        THEN watchFile(noted, filesById)
                        ELSE UNCHANGED <<watchOf, nextWd, filesById, byWd>>
                   [] OTHER -> UNCHANGED <<dirState, filesById, byWd, kernelQ>>
        BY <3>1 DEF noteInsert
      <4>2. CASE ok /\ noted \in DOMAIN rows
        BY <4>1, <4>2
      <4>3. CASE ~(ok /\ noted \in DOMAIN rows) /\ noted \in Known
        <5>1. watchFile(noted, filesById) \/ filesById' = filesById
          BY <4>1, <4>3
        <5> QED
          BY <4>1, <4>3, <5>1
      <4>4. CASE ~(ok /\ noted \in DOMAIN rows) /\ noted \notin Known
        BY <4>1, <4>4
      <4> QED
        BY <4>2, <4>3, <4>4
    <3>2. CASE noteUpdate
      BY <3>2 DEF noteUpdate
    <3> QED
      BY <1>4, <3>1, <3>2
  <2>3. Said \ {Head(notes)} \subseteq Said' /\ Said' \subseteq Said /\ excused \subseteq excused'
    BY <2>1, <2>2, TakenSays
  <2>4. PICK ok \in BOOLEAN :
          /\ excused' = IF ok THEN excused ELSE excused \cup {Head(notes).name}
          /\ \/ /\ ok /\ noted \in DOMAIN rows
                /\ watchFile(noted, fileFromRow(noted)) \/ filesById' = fileFromRow(noted)
             \/ /\ ~ok \/ noted \notin DOMAIN rows
                /\ \/ noted \in Known /\ watchFile(noted, filesById)
                   \/ filesById' = filesById
    BY <2>2
  <2>5. CASE ok /\ noted \in DOMAIN rows
    <3>1. watchFile(noted, fileFromRow(noted)) \/ filesById' = fileFromRow(noted)
      BY <2>4, <2>5
    <3>2. FilesTyped(fileFromRow(noted)) /\ noted \in DOMAIN fileFromRow(noted)
      BY <2>5, FileFromRowTypes
    <3>3. SameFiles(filesById', fileFromRow(noted))
      <4>1. CASE watchFile(noted, fileFromRow(noted))
        BY <3>2, <4>1, WatchedSame
      <4>2. CASE filesById' = fileFromRow(noted)
        BY <4>2 DEF SameFiles
      <4> QED
        BY <3>1, <4>1, <4>2
    <3>4. /\ DOMAIN filesById' = DOMAIN filesById \cup {noted}
          /\ filesById'[noted].name = rows[noted].name
          /\ filesById'[noted].version = rows[noted].version
          /\ \A id \in DOMAIN filesById \ {noted} :
               /\ filesById'[id].name = filesById[id].name
               /\ filesById'[id].version = filesById[id].version
      BY <2>5, <3>3, FromRow DEF SameFiles, Known
    <3>5. Noting(rows, filesById, Said, excused, Head(notes), filesById', Said', excused')
      BY <2>1, <2>3, <2>5, <3>4 DEF Noting, noted
    <3> QED
      BY <2>1, <3>5, NotedStep
  <2>6. CASE ~(ok /\ noted \in DOMAIN rows)
    <3>1. (noted \in Known /\ watchFile(noted, filesById)) \/ filesById' = filesById
      BY <2>4, <2>6
    <3>2. SameFiles(filesById', filesById)
      <4>1. CASE noted \in Known /\ watchFile(noted, filesById)
        BY <4>1, WatchedSame DEF Known, Typed, TablesTyped
      <4>2. CASE filesById' = filesById
        BY <4>2 DEF SameFiles
      <4> QED
        BY <3>1, <4>1, <4>2
    <3>3. Head(notes).name \in excused' \/ noted \notin DOMAIN rows
      BY <2>4, <2>6
    <3>4. Noting(rows, filesById, Said, excused, Head(notes), filesById', Said', excused')
      BY <2>1, <2>3, <3>2, <3>3 DEF Noting, noted
    <3> QED
      BY <2>1, <3>4, NotedStep
  <2> QED
    BY <2>5, <2>6
<1>5. ASSUME EndNotes PROVE CacheInv'
  BY <1>5, QuietSteps DEF EndNotes, indexes, history
<1> QED
  BY <1>1, <1>2, <1>3, <1>4, <1>5 DEF Notifications

LEMMA StepCache == Typed /\ CacheInv /\ [Next]_vars => CacheInv'
<1> SUFFICES ASSUME Typed, CacheInv, [Next]_vars PROVE CacheInv'
  OBVIOUS
<1>1. Typed'
  BY StepTyped
<1>2. CASE handleIgnoreFSNotesOff
  BY <1>1, <1>2, QuietSteps DEF handleIgnoreFSNotesOff, indexes, history
<1>3. CASE UNCHANGED vars
  BY <1>1, <1>3, QuietSteps DEF vars, indexes, history, session
<1> QED
  BY <1>1, <1>2, <1>3, StartupCache, RCache, OthersCache, InotifyCache, NotificationsCache
  DEF Next

LEMMA AlwaysCache == Spec => []CacheInv
BY InitCache, StepCache, AlwaysTyped, PTL DEF Spec

LEMMA SaidPends == \A id, ops : SaidOf(Said, id, ops) => PendingNote(id)
BY DEF SaidOf, Said, Range, PendingNote

\* A file is in the session's table exactly when it has a row, with its version,
\* unless a notification about it is to be processed or an event was lost
\* (loadFiles, insertDBFile, updateDBFile, removeDBFile, processDBNotification).
THEOREM TableFollowsDatabase == Spec => []CacheCoherent
<1>1. CacheInv => CacheCoherent
  <2> SUFFICES ASSUME CacheInv, Serving, NEW id \in Known \cup DOMAIN rows
               PROVE  \/ PendingNote(id)
                      \/ id \in Known /\ filesById[id].name \in excused
                      \/ id \in DOMAIN rows /\ rows[id].name \in excused
                      \/ /\ id \in Known \cap DOMAIN rows
                         /\ filesById[id].name = rows[id].name
                         /\ filesById[id].version = rows[id].version
    BY DEF CacheCoherent
  <2>1. /\ SameNames(rows, filesById, Said, nextId)
        /\ Mended(rows, filesById, Said, excused)
    BY DEF CacheInv, Serving
  <2>2. CASE id \in Known \ DOMAIN rows
    BY <2>1, <2>2, SaidPends DEF Mended, Known
  <2>3. CASE id \in DOMAIN rows \ Known
    BY <2>1, <2>3, SaidPends DEF Mended, Known
  <2>4. CASE id \in Known \cap DOMAIN rows
    BY <2>1, <2>4, SaidPends DEF Mended, SameNames, Known
  <2> QED
    BY <2>2, <2>3, <2>4
<1> QED
  BY <1>1, AlwaysCache, PTL

-----------------------------------------------------------------------------
(* Rows are replaced with a higher version. *)

\* The only writes of a row that stays are another client's, which counts up, and
\* updateDBFile's, which counts up what the table holds.
LEMMA RowsStep ==
  ASSUME Typed, CacheInv, [Next]_vars, NEW id \in DOMAIN rows \cap DOMAIN rows'
  PROVE  \/ rows'[id] = rows[id]
         \/ rows'[id].version = rows[id].version + 1
         \/ /\ pc # "load" /\ id \in Known
            /\ rows'[id].version = filesById[id].version + 1
<1>0. /\ RowsTyped(rows) /\ nextId \notin DOMAIN rows /\ nextId \in Nat
  BY DEF Typed, OutsideTyped, CacheInv, SameNames
<1>1. CASE UNCHANGED rows
  BY <1>1
<1>2. ASSUME NEW n, insertDBFile(n) PROVE rows'[id] = rows[id]
  BY <1>0, <1>2 DEF insertDBFile, With
<1>3. ASSUME NEW jd, NEW n, updateDBFile(jd, n)
      PROVE  rows'[id] = rows[id] \/ (id \in Known /\ rows'[id].version = filesById[id].version + 1)
  <2>1. CASE rows' = rows
    BY <2>1
  <2>2. CASE jd \in Known /\ jd \in DOMAIN rows
    <3> DEFINE new == filesById[jd].version + 1
    <3>1. rows' = [rows EXCEPT ![jd].version = new, ![jd].data = disk[n]]
      BY <1>3, <2>2 DEF updateDBFile
    <3> HIDE DEF new
    <3>2. CASE jd = id
      <4>1. rows'[id].version = new
        BY <1>0, <3>1, <3>2 DEF RowsTyped, RowType
      <4> QED
        BY <2>2, <3>2, <4>1 DEF new
    <3>3. CASE jd # id
      BY <3>1, <3>3
    <3> QED
      BY <3>2, <3>3
  <2> QED
    BY <1>3, <2>1, <2>2 DEF updateDBFile
<1>4. ASSUME NEW jd, removeDBFile(jd) PROVE rows'[id] = rows[id]
  BY <1>4 DEF removeDBFile, Without, Restrict
<1>5. CASE Startup
  BY <1>1, <1>5 DEF Startup, connect, setupInotify, listen, database
<1>6. CASE R
  <2>1. CASE StartScript \/ EndScript \/ \E n \in Names : RWrite(n) \/ RRemove(n)
    BY <1>1, <2>1 DEF StartScript, EndScript, RWrite, RRemove, database
  <2>2. CASE \E n \in Names : findOrAddFile(n)
    BY <1>1, <1>2, <2>2 DEF findOrAddFile, insertRefused, insertFails
  <2> QED
    BY <1>6, <2>1, <2>2 DEF R
<1>7. CASE Others
  <2>1. ASSUME NEW n, ForeignInsert(n) PROVE rows'[id] = rows[id]
    BY <1>0, <2>1 DEF ForeignInsert, With
  <2>2. ASSUME NEW jd \in DOMAIN rows, ForeignUpdate(jd)
        PROVE  rows'[id] = rows[id] \/ rows'[id].version = rows[id].version + 1
    <3> DEFINE new == rows[jd].version + 1
    <3>1. rows' = [rows EXCEPT ![jd].version = new, ![jd].data = Stamp]
      BY <2>2 DEF ForeignUpdate
    <3> HIDE DEF new
    <3>2. CASE jd = id
      <4>1. rows'[id].version = new
        BY <1>0, <3>1, <3>2 DEF RowsTyped, RowType
      <4> QED
        BY <3>2, <4>1 DEF new
    <3>3. CASE jd # id
      BY <3>1, <3>3
    <3> QED
      BY <3>2, <3>3
  <2>3. ASSUME NEW jd, ForeignDelete(jd) PROVE rows'[id] = rows[id]
    BY <2>3 DEF ForeignDelete, Without, Restrict
  <2> QED
    BY <1>7, <2>1, <2>2, <2>3 DEF Others
<1>8. CASE Inotify
  <2>1. CASE handleInotifyEvent \/ CutName \/ CreateSkipped \/ NoEntry \/ EndBatch
    BY <1>1, <2>1 DEF handleInotifyEvent, CutName, CreateSkipped, NoEntry, EndBatch, database
  <2>5. CASE CutLongName \/ CreateFailed
    BY <1>1, <2>5 DEF CutLongName, CreateFailed, insertFails, database
  <2>2. CASE CreateInserted
    BY <1>1, <1>2, <2>2 DEF CreateInserted, insertRefused, insertFails
  <2>3. CASE CloseWrite
    <3>1. \/ UNCHANGED rows
          \/ \E jd, n : updateDBFile(jd, n)
      BY <2>3 DEF CloseWrite
    <3>2. pc # "load"
      BY <2>3 DEF CloseWrite, Event
    <3> QED
      BY <1>1, <1>3, <3>1, <3>2
  <2>4. CASE DeleteSelf
    <3>1. UNCHANGED rows \/ \E jd : removeDBFile(jd)
      BY <2>4 DEF DeleteSelf
    <3> QED
      BY <1>1, <1>4, <3>1
  <2> QED
    BY <1>8, <2>1, <2>2, <2>3, <2>4, <2>5 DEF Inotify
<1>9. CASE Notifications
  BY <1>1, <1>9 DEF Notifications, handleDBNotifications, noteUnknown, noteDelete, noteInsert,
                    noteUpdate, EndNotes, database
<1>10. CASE handleIgnoreFSNotesOff \/ UNCHANGED vars
  BY <1>1, <1>10 DEF handleIgnoreFSNotesOff, vars, database
<1> QED
  BY <1>5, <1>6, <1>7, <1>8, <1>9, <1>10 DEF Next

\* A row's content is never replaced without a higher version, unless the session
\* had a notification about it to process or had lost one (updateDBFile).
THEOREM VersionsGrow == Spec => VersionGrows
<1>1. ASSUME Typed, CacheInv, [Next]_vars, NEW id \in DOMAIN rows \cap DOMAIN rows',
             rows'[id].data # rows[id].data
      PROVE  \/ rows'[id].version > rows[id].version
             \/ PendingNote(id) \/ rows[id].name \in excused
  <2>0. id \in DOMAIN rows
    OBVIOUS
  <2>1. rows[id].version \in Nat
    BY <1>1, <2>0 DEF Typed, OutsideTyped, RowsTyped, RowType
  <2>2. CASE rows'[id].version = rows[id].version + 1
    BY <2>1, <2>2
  <2>3. CASE pc # "load" /\ id \in Known /\ rows'[id].version = filesById[id].version + 1
    <3>1. \/ rows[id].name \in excused \/ SaidOf(Said, id, {"i", "u"})
          \/ rows[id].version = filesById[id].version
      BY <1>1, <2>0, <2>3 DEF CacheInv, Mended, Known
    <3> QED
      BY <2>1, <2>3, <3>1, SaidPends
  <2> QED
    BY <1>1, <2>2, <2>3, RowsStep
<1>2. Typed /\ CacheInv /\ [Next]_vars =>
        [\A id \in DOMAIN rows \cap DOMAIN rows' :
           rows'[id].data # rows[id].data =>
             \/ rows'[id].version > rows[id].version
             \/ PendingNote(id) \/ rows[id].name \in excused]_vars
  BY <1>1
<1> QED
  BY <1>2, AlwaysTyped, AlwaysCache, PTL DEF Spec, VersionGrows

-----------------------------------------------------------------------------
(* What R did comes before what the database says. *)

\* While notifications are processed the kernel holds only events of the session.
OwnEventsOnly == pc = "notes" => \A u \in Range(kernelQ) : u.by = "self"

\* The events of a change of n's file.
FileEvents == {"closeWrite", "deleteSelf"}
About(q, n, by) ==
  \A u \in Range(q) : /\ u.name = n /\ u.by = by
                      /\ u.kind \in FileEvents => u.wd # 0 /\ u.wd = watchOf[n]

LEMMA CreateUnitsAbout ==
  ASSUME NEW n, NEW by PROVE About(CreateUnits(n, by), n, by)
<1>1. CASE watchOf[Dir] = 0
  BY <1>1 DEF CreateUnits, Range, About
<1>2. CASE watchOf[Dir] # 0
  <2>1. \A u \in {Unit("create", n, 0, by), Unit("name", n, 0, by)} :
          u.name = n /\ u.by = by /\ u.kind \notin FileEvents
    BY DEF Unit, FileEvents
  <2>2. Range(<<Unit("create", n, 0, by), Unit("name", n, 0, by)>>)
          = {Unit("create", n, 0, by), Unit("name", n, 0, by)}
    BY DEF Range
  <2> QED
    BY <1>2, <2>1, <2>2 DEF CreateUnits, About
<1> QED
  BY <1>1, <1>2

\* What a write adds to the queue is about its file and by its writer.
LEMMA WriteQueues ==
  ASSUME Typed, NEW n \in Names, NEW by \in {"R", "self"},
         kernelQ' = kernelQ \o
           (CASE n \notin Present -> CreateUnits(n, by)
              [] n \in Present /\ watchOf[n] # 0 -> <<Unit("closeWrite", n, watchOf[n], by)>>
              [] OTHER -> <<>>)
  PROVE  \E q \in Seq(EventType) : kernelQ' = kernelQ \o q /\ About(q, n, by)
<1>1. CASE n \notin Present
  <2>1. CreateUnits(n, by) \in Seq(EventType) /\ kernelQ' = kernelQ \o CreateUnits(n, by)
    BY <1>1, UnitTypes
  <2> QED
    BY <2>1, CreateUnitsAbout
<1>2. CASE n \in Present /\ watchOf[n] # 0
  <2> DEFINE u == Unit("closeWrite", n, watchOf[n], by)
  <2>1. <<u>> \in Seq(EventType)
    BY UnitTypes
  <2>2. kernelQ' = kernelQ \o <<u>>
    BY <1>2
  <2>3. u.name = n /\ u.by = by /\ u.wd = watchOf[n]
    BY DEF Unit
  <2> HIDE DEF u
  <2>4. Range(<<u>>) = {u}
    BY DEF Range
  <2>5. About(<<u>>, n, by)
    BY <1>2, <2>3, <2>4 DEF About
  <2> QED
    BY <2>1, <2>2, <2>5
<1>3. CASE n \in Present /\ watchOf[n] = 0
  <2>1. kernelQ' = kernelQ \o <<>> /\ <<>> \in Seq(EventType)
    BY <1>3
  <2>2. About(<<>>, n, by)
    BY DEF About, Range
  <2> QED
    BY <2>1, <2>2
<1> QED
  BY <1>1, <1>2, <1>3

LEMMA WriteFileQueues ==
  ASSUME Typed, NEW n \in Names, NEW data, writeFile(n, data)
  PROVE  \E q \in Seq(EventType) : kernelQ' = kernelQ \o q /\ About(q, n, "self")
BY WriteQueues DEF writeFile

LEMMA StepOwnEvents == Typed /\ OwnEventsOnly /\ [Next]_vars => OwnEventsOnly'
<1> SUFFICES ASSUME Typed, OwnEventsOnly, [Next]_vars, pc' = "notes"
             PROVE  \A u \in Range(kernelQ') : u.by = "self"
  BY DEF OwnEventsOnly
<1>1. CASE kernelQ' = kernelQ /\ pc = "notes"
  BY <1>1 DEF OwnEventsOnly
<1>2. CASE handleDBNotifications
  BY <1>2 DEF handleDBNotifications, fsQueues, Range
<1>3. CASE noteInsert \/ noteUpdate
  <2>1. \/ kernelQ' = kernelQ
        \/ noted \in DOMAIN rows /\ writeFile(rows[noted].name, rows[noted].data)
    <3>1. CASE noteUpdate
      BY <3>1 DEF noteUpdate
    <3>2. CASE noteInsert
      <4>1. CASE noted \in DOMAIN rows
        BY <3>2, <4>1 DEF noteInsert
      <4>2. CASE noted \notin DOMAIN rows
        BY <3>2, <4>2 DEF noteInsert
      <4> QED
        BY <4>1, <4>2
    <3> QED
      BY <1>3, <3>1, <3>2
  <2>2. pc = "notes" /\ kernelQ \in Seq(EventType)
    BY <1>3 DEF noteInsert, noteUpdate, Noted, Typed, QueuesTyped
  <2>3. CASE noted \in DOMAIN rows /\ writeFile(rows[noted].name, rows[noted].data)
    <3>1. rows[noted].name \in Names
      BY <2>3 DEF Typed, OutsideTyped, RowsTyped, RowType
    <3>2. PICK q \in Seq(EventType) : /\ kernelQ' = kernelQ \o q
                                      /\ \A u \in Range(q) : u.by = "self"
      BY <2>3, <3>1, WriteFileQueues DEF About
    <3>3. Range(kernelQ') = Range(kernelQ) \cup Range(q)
      BY <2>2, <3>2, RangeFacts
    <3> QED
      BY <2>2, <3>2, <3>3 DEF OwnEventsOnly
  <2> QED
    BY <1>1, <2>1, <2>2, <2>3
<1>4. CASE noteUnknown \/ noteDelete \/ EndNotes
  BY <1>1, <1>4 DEF noteUnknown, noteDelete, EndNotes, Noted, fsQueues
<1>5. CASE Startup
  BY <1>5 DEF Startup, connect, setupInotify, listen
<1>6. CASE R
  BY <1>6 DEF R, StartScript, EndScript, RWrite, RRemove, findOrAddFile, session
<1>7. CASE Others
  BY <1>1, <1>7 DEF Others, ForeignInsert, ForeignUpdate, ForeignDelete, Foreign, fsQueues, session
<1>8. CASE Inotify
  BY <1>8 DEF Inotify, handleInotifyEvent, CutName, CutLongName, CreateSkipped, CreateFailed,
      CreateInserted, NoEntry,
              CloseWrite, DeleteSelf, EndBatch, Event, session
<1>9. CASE handleIgnoreFSNotesOff \/ UNCHANGED vars
  BY <1>1, <1>9 DEF handleIgnoreFSNotesOff, vars, fsQueues, session
<1> QED
  BY <1>2, <1>3, <1>4, <1>5, <1>6, <1>7, <1>8, <1>9 DEF Next, Notifications

\* A notification's load never overwrites or removes a file while the kernel holds
\* an event of what R did to it: inotify's events have the higher priority
\* (initFileManager, setupInotify).
THEOREM EventsBeforeLoads == Spec => InotifyFirst
<1>1. Init => OwnEventsOnly
  BY DEF Init, OwnEventsOnly
<1>2. Typed /\ OwnEventsOnly =>
        [pc = "notes" => \A n \in Present :
           (n \notin DOMAIN disk' \/ disk'[n] # disk[n]) =>
             ~\E i \in DOMAIN kernelQ : kernelQ[i].name = n /\ kernelQ[i].by = "R"]_vars
  <2> SUFFICES ASSUME OwnEventsOnly, pc = "notes", NEW i \in DOMAIN kernelQ
               PROVE  kernelQ[i].by # "R"
    OBVIOUS
  <2>1. kernelQ[i] \in Range(kernelQ)
    BY DEF Range
  <2> QED
    BY <2>1 DEF OwnEventsOnly
<1> QED
  BY <1>1, <1>2, StepOwnEvents, AlwaysTyped, PTL DEF Spec, InotifyFirst

-----------------------------------------------------------------------------
(* A crash has a cause. *)

\* An insertion without its row was overtaken by the deletion.
Overtaken == \A m \in Said : m.op = "i" /\ m.id \notin DOMAIN rows => m.id \in hastened

\* As long as no entry was erased under a file's id, every watch and every event
\* of a watch has its entry.
Happened == Range(kernelQ) \cup Range(input) \cup Range(batch)
Entered ==
  clobbered = {} =>
    /\ \A n \in Names : watchOf[n] \in {0} \cup DOMAIN byWd
    /\ \A u \in Happened : u.kind \in FileEvents => u.wd \in DOMAIN byWd
NothingYet == pc \in {"load", "setup"} => Happened = {}

CauseInv == Overtaken /\ Entered /\ NothingYet /\ CrashHasCause

LEMMA AnsweredCounts ==
  ASSUME Typed, NEW ok \in BOOLEAN, Answered(ok)
  PROVE  count.faults <= count'.faults /\ (~ok => count'.faults > 0)
<1>1. count \in CountType /\ count.faults \in Nat
  BY DEF Typed, FlagsTyped, CountType
<1>2. CASE ok
  BY <1>1, <1>2 DEF Answered
<1>3. CASE ~ok
  <2>1. count' = [count EXCEPT !["faults"] = @ + 1]
    BY <1>3 DEF Answered, Bump
  <2>2. count'.faults = count.faults + 1
    BY <1>1, <2>1 DEF CountType
  <2> QED
    BY <1>1, <2>2
<1> QED
  BY <1>2, <1>3

LEMMA BumpCounts ==
  ASSUME Typed, NEW c \in {"writes", "removals", "foreign", "scripts"}, count' = Bump(c)
  PROVE  count.faults <= count'.faults
<1>1. count \in CountType /\ count.faults \in Nat
  BY DEF Typed, FlagsTyped, CountType
<1>2. count'.faults = count.faults
  BY <1>1 DEF Bump, CountType
<1> QED
  BY <1>1, <1>2

\* What was lost, overtaken or refused stays so.
LEMMA HistoryGrows ==
  ASSUME Typed, [Next]_vars
  PROVE  /\ hastened \subseteq hastened' /\ clobbered \subseteq clobbered'
         /\ misread \subseteq misread' /\ count.faults <= count'.faults
<1>0. count.faults \in Nat
  BY DEF Typed, FlagsTyped, CountType
<1>1. CASE /\ count' = count /\ UNCHANGED <<hastened, clobbered>>
           /\ misread \subseteq misread'
  BY <1>0, <1>1
<1>2. CASE (\E ok \in BOOLEAN : Answered(ok)) /\ UNCHANGED <<hastened, clobbered, misread>>
  BY <1>2, AnsweredCounts
<1>3. CASE /\ \E c \in {"writes", "removals", "foreign", "scripts"} : count' = Bump(c)
           /\ hastened \subseteq hastened' /\ clobbered \subseteq clobbered' /\ misread' = misread
  BY <1>3, BumpCounts
<1>4. CASE Startup
  <2>1. CASE connect
    BY <1>2, <2>1 DEF connect
  <2>2. CASE setupInotify
    BY <1>1, <2>2 DEF setupInotify, history
  <2>3. CASE listen
    BY <1>2, <2>3 DEF listen, history
  <2> QED
    BY <1>4, <2>1, <2>2, <2>3 DEF Startup
<1>5. CASE R
  <2>1. CASE StartScript
    BY <1>3, <2>1 DEF StartScript, history
  <2>2. CASE EndScript
    BY <1>1, <2>2 DEF EndScript, history
  <2>3. ASSUME NEW n \in Names, RWrite(n) \/ RRemove(n)
        PROVE  /\ hastened \subseteq hastened' /\ clobbered \subseteq clobbered'
               /\ misread \subseteq misread' /\ count.faults <= count'.faults
    BY <1>3, <2>3 DEF RWrite, RRemove
  <2>4. ASSUME NEW n \in Names, findOrAddFile(n)
        PROVE  /\ hastened \subseteq hastened' /\ clobbered \subseteq clobbered'
               /\ misread \subseteq misread' /\ count.faults <= count'.faults
    BY <1>2, <2>4 DEF findOrAddFile
  <2> QED
    BY <1>5, <2>1, <2>2, <2>3, <2>4 DEF R
<1>6. CASE Others
  BY <1>3, <1>6 DEF Others, ForeignInsert, ForeignUpdate, ForeignDelete, Foreign
<1>7. CASE Inotify
  <2>1. CASE handleInotifyEvent \/ CutName \/ CreateSkipped \/ NoEntry \/ EndBatch
    BY <1>1, <2>1 DEF handleInotifyEvent, CutName, CreateSkipped, NoEntry, EndBatch, history
  <2>5. CASE CutLongName \/ CreateFailed
    BY <1>1, <2>5 DEF CutLongName, CreateFailed
  <2>2. CASE CreateInserted
    BY <1>2, <2>2 DEF CreateInserted
  <2>3. CASE CloseWrite
    BY <1>1, <1>2, <2>3 DEF CloseWrite
  <2>4. CASE DeleteSelf
    <3>1. misread' = misread /\ \E ok \in BOOLEAN : Answered(ok)
      BY <2>4 DEF DeleteSelf
    <3>2. hastened \subseteq hastened'
      BY <2>4 DEF DeleteSelf, removeDBFile
    <3>3. clobbered \subseteq clobbered'
      BY <2>4 DEF DeleteSelf, forget
    <3> QED
      BY <3>1, <3>2, <3>3, AnsweredCounts
  <2> QED
    BY <1>7, <2>1, <2>2, <2>3, <2>4, <2>5 DEF Inotify
<1>8. CASE Notifications
  <2>1. CASE handleDBNotifications \/ noteUnknown \/ EndNotes
    BY <1>1, <2>1 DEF handleDBNotifications, noteUnknown, EndNotes, history
  <2>2. CASE noteDelete
    <3>1. count' = count /\ hastened' = hastened /\ misread' = misread
      BY <2>2 DEF noteDelete
    <3>2. clobbered \subseteq clobbered'
      BY <2>2 DEF noteDelete, forget
    <3> QED
      BY <1>0, <3>1, <3>2
  <2>3. CASE noteInsert \/ noteUpdate
    BY <1>2, <2>3 DEF noteInsert, noteUpdate
  <2> QED
    BY <1>8, <2>1, <2>2, <2>3 DEF Notifications
<1>9. CASE handleIgnoreFSNotesOff \/ UNCHANGED vars
  BY <1>1, <1>9 DEF handleIgnoreFSNotesOff, vars, history
<1> QED
  BY <1>4, <1>5, <1>6, <1>7, <1>8, <1>9 DEF Next

LEMMA OvertakenKept ==
  ASSUME Overtaken, hastened \subseteq hastened',
         \A m \in Said' : m \in Said \/ m.op # "i" \/ m.id \in DOMAIN rows',
         \A id \in DOMAIN rows : \/ id \in DOMAIN rows'
                                 \/ SaidOf(Said, id, {"i"}) => id \in hastened'
  PROVE  Overtaken'
<1> SUFFICES ASSUME NEW m \in Said', m.op = "i", m.id \notin DOMAIN rows'
             PROVE  m.id \in hastened'
  BY DEF Overtaken
<1>1. m \in Said
  OBVIOUS
<1>2. SaidOf(Said, m.id, {"i"})
  BY <1>1 DEF SaidOf
<1> QED
  BY <1>1, <1>2 DEF Overtaken

LEMMA Pending == \A id : InsertPending(id) <=> SaidOf(Said, id, {"i"})
BY DEF InsertPending, SaidOf, Said, Notified, Range

LEMMA StepOvertaken == Typed /\ CacheInv /\ Overtaken /\ [Next]_vars => Overtaken'
<1> SUFFICES ASSUME Typed, CacheInv, Overtaken, [Next]_vars PROVE Overtaken'
  OBVIOUS
<1>0. /\ hastened \subseteq hastened' /\ nextId \notin DOMAIN rows /\ nextId \in Nat
      /\ RowsTyped(rows) /\ <<>> \in Seq(Note)
  BY HistoryGrows DEF CacheInv, SameNames, Typed, OutsideTyped
<1>1. CASE DOMAIN rows' = DOMAIN rows /\ Said' \subseteq Said
  BY <1>0, <1>1, OvertakenKept
<1>2. CASE UNCHANGED <<rows, dbQueues>>
  BY <1>1, <1>2 DEF dbQueues, Said, Notified
<1>3. CASE rows' = rows /\ Absorb(<<>>)
  BY <1>0, <1>1, <1>3, AbsorbSays
<1>4. ASSUME NEW n \in Present, insertDBFile(n) PROVE Overtaken'
  <2> DEFINE note == [op |-> "i", id |-> nextId, name |-> n]
  <2>1. n \in Names /\ DOMAIN rows' = DOMAIN rows \cup {nextId} /\ Absorb(<<note>>)
    BY <1>4 DEF insertDBFile, With, Typed, OutsideTyped, DiskTyped, Present
  <2>2. <<note>> \in Seq(Note) /\ Range(<<note>>) = {note}
    BY <1>0, <2>1, NoteTypes DEF Range
  <2>3. note.id = nextId
    OBVIOUS
  <2> HIDE DEF note
  <2>4. Said' = Said \cup (IF listening THEN Range(<<note>>) ELSE {})
    BY <2>1, <2>2, AbsorbSays
  <2>5. \A m \in Said' : m \in Said \/ m = note
    BY <2>2, <2>4
  <2> QED
    BY <1>0, <2>1, <2>3, <2>5, OvertakenKept
<1>5. ASSUME NEW op \in {"u", "d"}, NEW id \in DOMAIN rows, Absorb(<<NoteOf(op, id)>>),
             \A jd \in DOMAIN rows : \/ jd \in DOMAIN rows'
                                     \/ SaidOf(Said, jd, {"i"}) => jd \in hastened'
      PROVE  Overtaken'
  <2> DEFINE note == NoteOf(op, id)
  <2>1. <<note>> \in Seq(Note) /\ Range(<<note>>) = {note} /\ note.op # "i"
    BY <1>5, NoteOfTypes DEF Range, NoteOf
  <2>2. Absorb(<<note>>)
    BY <1>5
  <2> HIDE DEF note
  <2>3. Said' = Said \cup (IF listening THEN Range(<<note>>) ELSE {})
    BY <2>1, <2>2, AbsorbSays
  <2>4. \A m \in Said' : m \in Said \/ m = note
    BY <2>1, <2>3
  <2> QED
    BY <1>0, <1>5, <2>1, <2>4, OvertakenKept
<1>6. ASSUME NEW op \in {"i", "u", "d"}, NEW id \in Nat, NEW n \in Names, Foreign(op, id, n),
             op = "i" => id \in DOMAIN rows',
             \A jd \in DOMAIN rows : \/ jd \in DOMAIN rows'
                                     \/ SaidOf(Said, jd, {"i"}) => jd \in hastened'
      PROVE  Overtaken'
  <2> DEFINE note == [op |-> op, id |-> id, name |-> n]
  <2>1. note.op = op /\ note.id = id
    OBVIOUS
  <2>2. \A m \in Said' : m \in Said \/ m = note
    BY <1>6, ForeignSays
  <2> HIDE DEF note
  <2>3. \A m \in Said' : m \in Said \/ m.op # "i" \/ m.id \in DOMAIN rows'
    BY <1>6, <2>1, <2>2
  <2> QED
    BY <1>0, <1>6, <2>3, OvertakenKept
<1>7. CASE Startup
  BY <1>2, <1>7 DEF Startup, connect, setupInotify, listen, database
<1>8. CASE R
  <2>1. CASE StartScript \/ EndScript \/ \E n \in Names : RWrite(n) \/ RRemove(n)
    BY <1>2, <2>1 DEF StartScript, EndScript, RWrite, RRemove, database
  <2>2. ASSUME NEW n \in Names, findOrAddFile(n) PROVE Overtaken'
    <3>1. n \in Present /\ (insertDBFile(n) \/ insertRefused(n))
      BY <2>2 DEF findOrAddFile
    <3> QED
      BY <1>3, <1>4, <3>1 DEF insertRefused, insertFails
  <2> QED
    BY <1>8, <2>1, <2>2 DEF R
<1>9. CASE Others
  <2>1. ASSUME NEW n \in Names, ForeignInsert(n) PROVE Overtaken'
    <3>1. Foreign("i", nextId, n) /\ DOMAIN rows' = DOMAIN rows \cup {nextId}
      BY <2>1 DEF ForeignInsert, With
    <3> QED
      BY <1>0, <1>6, <3>1
  <2>2. ASSUME NEW id \in DOMAIN rows, ForeignUpdate(id) PROVE Overtaken'
    <3>1. Foreign("u", id, rows[id].name) /\ DOMAIN rows' = DOMAIN rows
      BY <2>2 DEF ForeignUpdate
    <3>2. id \in Nat /\ rows[id].name \in Names
      BY <1>0 DEF RowsTyped, RowType
    <3> QED
      BY <1>6, <3>1, <3>2
  <2>3. ASSUME NEW id \in DOMAIN rows, ForeignDelete(id) PROVE Overtaken'
    <3>1. /\ Foreign("d", id, rows[id].name) /\ DOMAIN rows' = DOMAIN rows \ {id}
          /\ hastened' = IF InsertPending(id) THEN hastened \cup {id} ELSE hastened
      BY <2>3 DEF ForeignDelete, Without, Restrict
    <3>2. id \in Nat /\ rows[id].name \in Names
      BY <1>0 DEF RowsTyped, RowType
    <3>3. SaidOf(Said, id, {"i"}) => id \in hastened'
      BY <3>1, Pending
    <3> QED
      BY <1>6, <3>1, <3>2, <3>3
  <2> QED
    BY <1>9, <2>1, <2>2, <2>3 DEF Others
<1>10. CASE Inotify
  <2>1. CASE handleInotifyEvent \/ CutName \/ CreateSkipped \/ NoEntry \/ EndBatch
    BY <1>2, <2>1 DEF handleInotifyEvent, CutName, CreateSkipped, NoEntry, EndBatch, database
  <2>5. CASE CutLongName \/ CreateFailed
    <3>1. UNCHANGED <<database, dbQueues>> \/ (rows' = rows /\ Absorb(<<>>))
      BY <2>5 DEF CutLongName, CreateFailed, insertFails
    <3>2. hastened' = hastened
      BY <2>5 DEF CutLongName, CreateFailed
    <3> QED
      BY <1>2, <1>3, <3>1, <3>2 DEF database
  <2>2. CASE CreateInserted
    <3> DEFINE n == Head(batch).name
    <3>1. n \in Present /\ (insertDBFile(n) \/ insertRefused(n))
      BY <2>2 DEF CreateInserted
    <3> HIDE DEF n
    <3> QED
      BY <1>3, <1>4, <3>1 DEF insertRefused, insertFails
  <2>3. CASE CloseWrite
    <3>1. UNCHANGED <<rows, dbQueues>> \/ (rows' = rows /\ Absorb(<<>>))
            \/ \E id, n : updateDBFile(id, n)
      BY <2>3 DEF CloseWrite
    <3>2. ASSUME NEW id, NEW n, updateDBFile(id, n) PROVE Overtaken'
      <4>1. CASE id \in Known /\ id \in DOMAIN rows
        <5>1. DOMAIN rows' = DOMAIN rows /\ Absorb(<<NoteOf("u", id)>>)
          BY <3>2, <4>1 DEF updateDBFile
        <5> QED
          BY <1>5, <4>1, <5>1
      <4>2. CASE id \notin Known
        BY <1>3, <3>2, <4>2 DEF updateDBFile
      <4>3. CASE id \in Known /\ id \notin DOMAIN rows
        BY <1>3, <3>2, <4>3 DEF updateDBFile
      <4> QED
        BY <4>1, <4>2, <4>3
    <3> QED
      BY <1>2, <1>3, <3>1, <3>2
  <2>4. CASE DeleteSelf
    <3>1. (rows' = rows /\ Absorb(<<>>)) \/ \E id : removeDBFile(id)
      BY <2>4 DEF DeleteSelf
    <3>2. ASSUME NEW id, removeDBFile(id) PROVE Overtaken'
      <4>1. DOMAIN rows' = DOMAIN rows \ {id}
        BY <3>2 DEF removeDBFile, Without, Restrict
      <4>2. CASE id \in DOMAIN rows
        <5>1. /\ Absorb(<<NoteOf("d", id)>>)
              /\ hastened' = IF InsertPending(id) THEN hastened \cup {id} ELSE hastened
          BY <3>2, <4>2 DEF removeDBFile
        <5>2. SaidOf(Said, id, {"i"}) => id \in hastened'
          BY <5>1, Pending
        <5> QED
          BY <1>5, <4>1, <4>2, <5>1, <5>2
      <4>3. CASE id \notin DOMAIN rows
        <5>1. Absorb(<<>>) /\ DOMAIN rows' = DOMAIN rows
          BY <3>2, <4>1, <4>3 DEF removeDBFile
        <5> QED
          BY <1>0, <1>1, <5>1, AbsorbSays
      <4> QED
        BY <4>2, <4>3
    <3> QED
      BY <1>3, <3>1, <3>2
  <2> QED
    BY <1>10, <2>1, <2>2, <2>3, <2>4, <2>5 DEF Inotify
<1>11. CASE Notifications
  <2>1. CASE handleDBNotifications
    BY <1>3, <2>1 DEF handleDBNotifications, database
  <2>2. CASE noteUnknown \/ noteDelete \/ noteInsert \/ noteUpdate
    <3>1. /\ notes # <<>> /\ rows' = rows
          /\ Reload \/ (notes' = Tail(notes) /\ wire' = wire)
      BY <2>2 DEF noteUnknown, noteDelete, noteInsert, noteUpdate, Noted, database
    <3> QED
      BY <1>1, <3>1, TakenSays
  <2>3. CASE EndNotes
    BY <1>2, <2>3 DEF EndNotes, database
  <2> QED
    BY <1>11, <2>1, <2>2, <2>3 DEF Notifications
<1>12. CASE handleIgnoreFSNotesOff \/ UNCHANGED vars
  BY <1>2, <1>12 DEF handleIgnoreFSNotesOff, vars, database
<1> QED
  BY <1>7, <1>8, <1>9, <1>10, <1>11, <1>12 DEF Next

LEMMA EnteredKept ==
  ASSUME Entered, clobbered \subseteq clobbered',
         clobbered' = {} => DOMAIN byWd \subseteq DOMAIN byWd',
         \A n \in Names : watchOf'[n] \in {0, watchOf[n]} \cup DOMAIN byWd',
         \A u \in Happened' :
           \/ u \in Happened
           \/ u.kind \in FileEvents => u.wd # 0 /\ \E n \in Names : u.wd = watchOf[n]
  PROVE  Entered'
<1> SUFFICES ASSUME clobbered' = {}
             PROVE  /\ \A n \in Names : watchOf'[n] \in {0} \cup DOMAIN byWd'
                    /\ \A u \in Happened' : u.kind \in FileEvents => u.wd \in DOMAIN byWd'
  BY DEF Entered
<1>1. /\ DOMAIN byWd \subseteq DOMAIN byWd'
      /\ \A n \in Names : watchOf[n] \in {0} \cup DOMAIN byWd
      /\ \A u \in Happened : u.kind \in FileEvents => u.wd \in DOMAIN byWd
  BY DEF Entered
<1> QED
  BY <1>1

\* A part of a sequence holds nothing that the sequence does not.
LEMMA PartOf ==
  ASSUME NEW X, NEW s \in Seq(X), NEW m \in Nat \ {0}, NEW n \in 0 .. Len(s)
  PROVE  Range(SubSeq(s, m, n)) \subseteq Range(s)
<1> DEFINE p == SubSeq(s, m, n)
<1>1. Len(s) \in Nat /\ DOMAIN s = 1 .. Len(s) /\ \A i \in m .. n : s[i] \in X
  OBVIOUS
<1>2. /\ p \in Seq(X) /\ Len(p) = IF m <= n THEN n - m + 1 ELSE 0
      /\ \A i \in 1 .. n - m + 1 : p[i] = s[m + i - 1]
  BY <1>1, SubSeqProperties
<1> HIDE DEF p
<1>3. ASSUME NEW i \in DOMAIN p PROVE p[i] \in Range(s)
  <2>1. i \in 1 .. n - m + 1 /\ m + i - 1 \in DOMAIN s
    BY <1>1, <1>2, <1>3
  <2> QED
    BY <1>2, <2>1 DEF Range
<1> QED
  BY <1>3 DEF Range, p

\* A branch of handleInotifyEvent takes its event from the batch.
LEMMA SkipHappened ==
  ASSUME Typed, batch # <<>>, NEW k \in Nat, Skip(k), k <= Len(batch),
         UNCHANGED <<kernelQ, input>>
  PROVE  /\ Happened' \subseteq Happened
         /\ Head(batch) \in Happened
<1>1. batch \in Seq(EventType) /\ Len(batch) \in 0 .. Len(batch) /\ k + 1 \in Nat \ {0}
  BY DEF Typed, QueuesTyped
<1>2. Range(batch') \subseteq Range(batch)
  BY <1>1, PartOf DEF Skip
<1>3. Head(batch) \in Range(batch)
  BY <1>1, QueueHead DEF Range
<1> QED
  BY <1>2, <1>3 DEF Happened, Range

\* A read moves events along the queues and makes none.
LEMMA ReadHappened ==
  ASSUME Typed, handleInotifyEvent
  PROVE  Happened' \subseteq Happened
<1> DEFINE got == input \o kernelQ
           m == Min({BufUnits, Len(got)})
           read == SubSeq(got, 1, m)
<1>1. /\ got \in Seq(EventType) /\ Len(got) \in Nat /\ BufUnits \in Nat
      /\ Range(got) = Range(input) \cup Range(kernelQ)
  BY ConcatProperties, RangeFacts, FileSyncAssumption DEF Typed, QueuesTyped
<1>2. /\ input' = SubSeq(got, BufUnits + 1, Len(got)) /\ kernelQ' = <<>>
      /\ batch' \in {batch, read}
  BY DEF handleInotifyEvent
<1>3. m \in {BufUnits, Len(got)} /\ m <= Len(got)
  <2> DEFINE S == {BufUnits, Len(got)}
  <2>1. \E x \in S : \A y \in S : x <= y
    BY <1>1
  <2>2. m \in S /\ \A y \in S : m <= y
    BY <2>1 DEF Min
  <2> QED
    BY <2>2
<1> HIDE DEF m, got
<1>4. m \in 0 .. Len(got) /\ Len(got) \in 0 .. Len(got) /\ BufUnits + 1 \in Nat \ {0}
  BY <1>1, <1>3
<1>5. Range(read) \subseteq Range(got) /\ Range(input') \subseteq Range(got)
  BY <1>1, <1>2, <1>4, PartOf
<1>6. Range(kernelQ') = {}
  BY <1>2 DEF Range
<1> HIDE DEF read
<1>7. Range(batch') \subseteq Range(batch) \cup Range(got)
  BY <1>2, <1>5
<1>8. Happened' = Range(kernelQ') \cup Range(input') \cup Range(batch')
  BY DEF Happened, Range
<1> QED
  BY <1>1, <1>5, <1>6, <1>7, <1>8 DEF Happened

LEMMA QueuedHappened ==
  ASSUME Typed, NEW n \in Names, NEW by, NEW q \in Seq(EventType), About(q, n, by),
         kernelQ' = kernelQ \o q, UNCHANGED <<input, batch>>
  PROVE  \A u \in Happened' :
           \/ u \in Happened
           \/ u.kind \in FileEvents => u.wd # 0 /\ \E m \in Names : u.wd = watchOf[m]
<1>1. Range(kernelQ') = Range(kernelQ) \cup Range(q)
  BY RangeFacts DEF Typed, QueuesTyped
<1>2. Happened' = Range(kernelQ') \cup Range(input) \cup Range(batch)
  BY DEF Happened, Range
<1>3. \A u \in Happened' : u \in Happened \/ u \in Range(q)
  BY <1>1, <1>2 DEF Happened
<1> QED
  BY <1>3 DEF About

LEMMA WatchEnters ==
  ASSUME Typed, NEW files, NEW id, files[id].name \in Names, watchFile(id, files)
  PROVE  /\ DOMAIN byWd \subseteq DOMAIN byWd'
         /\ \A n \in Names : watchOf'[n] \in {0, watchOf[n]} \cup DOMAIN byWd'
<1> DEFINE m == files[id].name
           wd == IF watchOf[m] # 0 THEN watchOf[m] ELSE nextWd
<1>1. watchOf' = [watchOf EXCEPT ![m] = wd] /\ byWd' = With(byWd, wd, id)
  BY DEF watchFile
<1> HIDE DEF wd
<1>2. DOMAIN byWd' = DOMAIN byWd \cup {wd}
  BY <1>1 DEF With
<1>3. watchOf \in [Names \cup {Dir} -> Nat] /\ m \in Names
  BY DEF Typed, OutsideTyped
<1> HIDE DEF m
<1> QED
  BY <1>1, <1>2, <1>3

LEMMA ForgetErases ==
  ASSUME NEW id, NEW unwatched, forget(id, unwatched)
  PROVE  /\ clobbered \subseteq clobbered'
         /\ clobbered' = {} => DOMAIN byWd \subseteq DOMAIN byWd'
<1>1. /\ DOMAIN byWd' = DOMAIN byWd \ {id}
      /\ clobbered' = clobbered \cup ({id} \cap DOMAIN byWd) \cup unwatched
  BY DEF forget, Without, Restrict
<1> QED
  BY <1>1

LEMMA StepEntered == Typed /\ NothingYet /\ Entered /\ [Next]_vars => Entered'
<1> SUFFICES ASSUME Typed, NothingYet, Entered, [Next]_vars PROVE Entered'
  OBVIOUS
<1>1. CASE UNCHANGED <<watchOf, byWd, clobbered>> /\ Happened' \subseteq Happened
  BY <1>1 DEF Entered
<1>2. CASE UNCHANGED <<watchOf, byWd, clobbered, fsQueues>>
  BY <1>1, <1>2 DEF fsQueues, Happened, Range
<1>3. watchOf \in [Names \cup {Dir} -> Nat] /\ batch \in Seq(EventType)
      /\ kernelQ \in Seq(EventType)
  BY DEF Typed, OutsideTyped, QueuesTyped
<1>4. CASE Startup
  <2>1. CASE connect \/ listen
    BY <1>2, <2>1 DEF connect, listen, dirState, indexes, history
  <2>2. CASE setupInotify
    <3> DEFINE wd == [id \in Known |-> 1 + Cardinality({j \in Known : j <= id})]
               W == {wd[id] : id \in Known}
               of(n) == CHOOSE id \in Known : filesById[id].name = n
    <3>1. /\ DOMAIN byWd' = W
          /\ watchOf' = [n \in Names \cup {Dir} |->
                           IF n = Dir THEN 1 ELSE IF n \notin KnownNames THEN 0
                           ELSE wd[of(n)]]
      BY <2>2 DEF setupInotify
    <3>2. Happened' = {} /\ clobbered' = clobbered
      BY <2>2 DEF setupInotify, NothingYet, Happened, fsQueues, history, Range
    <3>3. \A n \in KnownNames : of(n) \in Known
      BY DEF KnownNames
    <3>4. \A id \in Known : wd[id] \in W
      OBVIOUS
    <3> HIDE DEF wd, W, of
    <3>5. \A n \in Names : watchOf'[n] \in {0} \cup W
      BY <3>1, <3>3, <3>4, FileSyncAssumption
    <3> QED
      BY <3>1, <3>2, <3>5 DEF Entered
  <2> QED
    BY <1>4, <2>1, <2>2 DEF Startup
<1>5. CASE R
  <2>1. CASE StartScript \/ EndScript
    BY <1>2, <2>1 DEF StartScript, EndScript, dirState, indexes, history
  <2>2. ASSUME NEW n \in Names, RWrite(n) PROVE Entered'
    <3>1. PICK q \in Seq(EventType) : kernelQ' = kernelQ \o q /\ About(q, n, "R")
      BY <2>2, WriteQueues DEF RWrite
    <3>2. UNCHANGED <<watchOf, byWd, clobbered, input, batch>>
      BY <2>2 DEF RWrite, indexes
    <3> QED
      BY <3>1, <3>2, QueuedHappened, EnteredKept
  <2>3. ASSUME NEW n \in Names, RRemove(n) PROVE Entered'
    <3> DEFINE u == Unit("deleteSelf", n, watchOf[n], "R")
    <3>1. /\ watchOf' = [watchOf EXCEPT ![n] = 0] /\ UNCHANGED <<byWd, clobbered, input, batch>>
          /\ kernelQ' = IF watchOf[n] = 0 THEN kernelQ ELSE Append(kernelQ, u)
      BY <2>3 DEF RRemove, indexes
    <3>2. u.wd = watchOf[n] /\ u \in EventType
      BY <1>3 DEF Unit, EventType
    <3> HIDE DEF u
    <3>3. Range(kernelQ') \subseteq Range(kernelQ) \cup (IF watchOf[n] = 0 THEN {} ELSE {u})
      <4>1. Range(Append(kernelQ, u)) = Range(kernelQ) \cup {u}
        BY <1>3, <3>2, RangeFacts
      <4> QED
        BY <3>1, <4>1
    <3>4. Happened' = Range(kernelQ') \cup Range(input) \cup Range(batch)
      BY <3>1 DEF Happened, Range
    <3>5. \A v \in Happened' : \/ v \in Happened
                               \/ v.wd # 0 /\ \E m \in Names : v.wd = watchOf[m]
      BY <3>2, <3>3, <3>4 DEF Happened
    <3>6. \A m \in Names : watchOf'[m] \in {0, watchOf[m]}
      BY <1>3, <3>1
    <3> QED
      BY <3>1, <3>5, <3>6, EnteredKept
  <2>4. ASSUME NEW n \in Names, findOrAddFile(n) PROVE Entered'
    BY <1>2, <2>4 DEF findOrAddFile, dirState
  <2> QED
    BY <1>5, <2>1, <2>2, <2>3, <2>4 DEF R
<1>6. CASE Others
  BY <1>2, <1>6 DEF Others, ForeignInsert, ForeignUpdate, ForeignDelete, Foreign, dirState,
                    indexes
<1>7. CASE Inotify
  <2>1. CASE handleInotifyEvent
    BY <1>1, <2>1, ReadHappened DEF handleInotifyEvent, dirState, indexes
  <2>2. CASE NoEntry \/ EndBatch
    BY <1>2, <2>2 DEF NoEntry, EndBatch, dirState, indexes, history
  <2>3. CASE CutName
    <3>1. batch # <<>> /\ Skip(1) /\ 1 <= Len(batch) /\ UNCHANGED <<kernelQ, input>>
      BY <1>3, <2>3 DEF CutName, Event
    <3> QED
      BY <1>1, <2>3, <3>1, SkipHappened DEF CutName, dirState, indexes, history
  <2>4. CASE CreateSkipped
    <3> DEFINE k == IF Len(batch) = 1 THEN 1 ELSE 2
    <3>1. k \in {1, 2} /\ k <= Len(batch) /\ batch # <<>> /\ Skip(k) /\ UNCHANGED <<kernelQ, input>>
      BY <1>3, <2>4 DEF CreateSkipped, Event
    <3> HIDE DEF k
    <3> QED
      BY <1>1, <2>4, <3>1, SkipHappened DEF CreateSkipped, dirState, indexes
  <2>8. CASE CutLongName
    <3>1. PICK k \in 1 .. Len(batch) : Skip(k)
      BY <2>8 DEF CutLongName
    <3>2. batch # <<>> /\ k \in Nat /\ k <= Len(batch) /\ UNCHANGED <<kernelQ, input>>
      BY <1>3, <2>8, <3>1 DEF CutLongName, Event
    <3> QED
      BY <1>1, <2>8, <3>1, <3>2, SkipHappened DEF CutLongName, dirState, indexes
  <2>9. CASE CreateFailed
    <3> DEFINE k == IF Len(batch) = 1 THEN 1 ELSE 2
    <3>1. k \in {1, 2} /\ k <= Len(batch) /\ batch # <<>> /\ Skip(k) /\ UNCHANGED <<kernelQ, input>>
      BY <1>3, <2>9 DEF CreateFailed, Event
    <3> HIDE DEF k
    <3> QED
      BY <1>1, <2>9, <3>1, SkipHappened DEF CreateFailed, dirState, indexes
  <2>5. CASE CreateInserted
    <3> DEFINE n == Head(batch).name
    <3>1. batch # <<>> /\ Skip(2) /\ Len(batch) > 1 /\ UNCHANGED <<kernelQ, input, clobbered>>
          /\ n \in Present
      BY <2>5 DEF CreateInserted, Event
    <3>2. Happened' \subseteq Happened
      BY <1>3, <3>1, SkipHappened
    <3>3. n \in Names
      BY <3>1 DEF Typed, OutsideTyped, DiskTyped, Present
    <3>4. watchFile(nextId, newFile(n)) \/ UNCHANGED <<watchOf, byWd>>
      BY <2>5 DEF CreateInserted
    <3> HIDE DEF n
    <3>5. newFile(n)[nextId].name = n
      BY DEF newFile, With
    <3>6. CASE watchFile(nextId, newFile(n))
      <4> DEFINE files == newFile(n)
      <4>1. files[nextId].name \in Names /\ watchFile(nextId, files)
        BY <3>3, <3>5, <3>6
      <4> HIDE DEF files
      <4>2. /\ DOMAIN byWd \subseteq DOMAIN byWd'
            /\ \A m \in Names : watchOf'[m] \in {0, watchOf[m]} \cup DOMAIN byWd'
        BY <4>1, WatchEnters
      <4> QED
        BY <3>1, <3>2, <4>2, EnteredKept
    <3> QED
      BY <1>1, <3>1, <3>2, <3>4, <3>6
  <2>6. CASE CloseWrite
    <3>1. batch # <<>> /\ Skip(1) /\ 1 <= Len(batch) /\ UNCHANGED <<kernelQ, input>>
      BY <1>3, <2>6 DEF CloseWrite, Event
    <3> QED
      BY <1>1, <2>6, <3>1, SkipHappened DEF CloseWrite, dirState
  <2>7. CASE DeleteSelf
    <3> DEFINE id == byWd[Head(batch).wd]
    <3>1. batch # <<>> /\ Skip(1) /\ 1 <= Len(batch) /\ UNCHANGED <<kernelQ, input, watchOf>>
          /\ forget(id, {})
      BY <1>3, <2>7 DEF DeleteSelf, Event, dirState
    <3> HIDE DEF id
    <3>2. Happened' \subseteq Happened
      BY <3>1, SkipHappened
    <3>3. clobbered \subseteq clobbered' /\ (clobbered' = {} => DOMAIN byWd \subseteq DOMAIN byWd')
      BY <3>1, ForgetErases
    <3> QED
      BY <3>1, <3>2, <3>3, EnteredKept
  <2> QED
    BY <1>7, <2>1, <2>2, <2>3, <2>4, <2>5, <2>6, <2>7, <2>8, <2>9 DEF Inotify
<1>8. CASE Notifications
  <2>1. CASE handleDBNotifications \/ noteUnknown \/ EndNotes
    BY <1>2, <2>1 DEF handleDBNotifications, noteUnknown, EndNotes, dirState, indexes, history
  <2>2. CASE noteDelete
    <3>1. PICK w : /\ watchOf' = [m \in DOMAIN watchOf |->
                                    IF m = filesById[noted].name \/ watchOf[m] = w
                                    THEN 0 ELSE watchOf[m]]
                   /\ forget(noted, IF filesById[noted].wd # 0 THEN {} ELSE {w} \ {0})
      BY <2>2 DEF noteDelete
    <3>2. clobbered \subseteq clobbered' /\ (clobbered' = {} => DOMAIN byWd \subseteq DOMAIN byWd')
      BY <3>1, ForgetErases
    <3>3. \A m \in Names : watchOf'[m] \in {0, watchOf[m]}
      BY <1>3, <3>1
    <3>4. Happened' = Happened
      BY <2>2 DEF noteDelete, fsQueues, Happened, Range
    <3> QED
      BY <3>2, <3>3, <3>4, EnteredKept
  <2>3. CASE noteInsert \/ noteUpdate
    <3>1. /\ UNCHANGED <<clobbered, input, batch>>
          /\ \/ kernelQ' = kernelQ
             \/ noted \in DOMAIN rows /\ writeFile(rows[noted].name, rows[noted].data)
      <4>1. CASE noteUpdate
        BY <4>1 DEF noteUpdate
      <4>2. CASE noteInsert
        <5>1. CASE noted \in DOMAIN rows
          BY <4>2, <5>1 DEF noteInsert
        <5>2. CASE noted \notin DOMAIN rows
          BY <4>2, <5>2 DEF noteInsert
        <5> QED
          BY <5>1, <5>2
      <4> QED
        BY <2>3, <4>1, <4>2
    <3>2. \A u \in Happened' :
            \/ u \in Happened
            \/ u.kind \in FileEvents => u.wd # 0 /\ \E m \in Names : u.wd = watchOf[m]
      <4>1. CASE kernelQ' = kernelQ
        BY <3>1, <4>1 DEF Happened, Range
      <4>2. CASE noted \in DOMAIN rows /\ writeFile(rows[noted].name, rows[noted].data)
        <5>1. rows[noted].name \in Names
          BY <4>2 DEF Typed, OutsideTyped, RowsTyped, RowType
        <5>2. PICK q \in Seq(EventType) :
                kernelQ' = kernelQ \o q /\ About(q, rows[noted].name, "self")
          BY <4>2, <5>1, WriteFileQueues
        <5> QED
          BY <3>1, <5>1, <5>2, QueuedHappened
      <4> QED
        BY <3>1, <4>1, <4>2
    <3>3. \/ UNCHANGED <<watchOf, byWd>>
          \/ noted \in DOMAIN rows /\ watchFile(noted, fileFromRow(noted))
          \/ noted \in Known /\ watchFile(noted, filesById)
      <4>1. CASE noteUpdate
        BY <4>1 DEF noteUpdate
      <4>2. ASSUME NEW ok \in BOOLEAN, noteInsert,
                   CASE ok /\ noted \in DOMAIN rows -> watchFile(noted, fileFromRow(noted))
                     [] ~(ok /\ noted \in DOMAIN rows) /\ noted \in Known ->
                          watchFile(noted, filesById) \/ UNCHANGED <<watchOf, byWd>>
                     [] OTHER -> UNCHANGED <<watchOf, byWd>>
            PROVE  \/ UNCHANGED <<watchOf, byWd>>
                   \/ noted \in DOMAIN rows /\ watchFile(noted, fileFromRow(noted))
                   \/ noted \in Known /\ watchFile(noted, filesById)
        <5>1. CASE ok /\ noted \in DOMAIN rows
          BY <4>2, <5>1
        <5>2. CASE ~(ok /\ noted \in DOMAIN rows) /\ noted \in Known
          BY <4>2, <5>2
        <5>3. CASE ~(ok /\ noted \in DOMAIN rows) /\ noted \notin Known
          BY <4>2, <5>3
        <5> QED
          BY <5>1, <5>2, <5>3
      <4>3. CASE noteInsert
        BY <4>2, <4>3 DEF noteInsert, dirState
      <4> QED
        BY <2>3, <4>1, <4>3
    <3>4. ASSUME NEW files, files[noted].name \in Names, watchFile(noted, files) PROVE Entered'
      <4>1. /\ DOMAIN byWd \subseteq DOMAIN byWd'
            /\ \A m \in Names : watchOf'[m] \in {0, watchOf[m]} \cup DOMAIN byWd'
        BY <3>4, WatchEnters
      <4> QED
        BY <3>1, <3>2, <4>1, EnteredKept
    <3>5. CASE UNCHANGED <<watchOf, byWd>>
      BY <3>1, <3>2, <3>5, EnteredKept
    <3>6. CASE noted \in DOMAIN rows /\ watchFile(noted, fileFromRow(noted))
      <4>1. fileFromRow(noted)[noted].name = rows[noted].name /\ rows[noted].name \in Names
        BY <3>6 DEF fileFromRow, With, Typed, OutsideTyped, RowsTyped, RowType
      <4> QED
        BY <3>4, <3>6, <4>1
    <3>7. CASE noted \in Known /\ watchFile(noted, filesById)
      <4>1. filesById[noted].name \in Names
        BY <3>7 DEF Typed, TablesTyped, FilesTyped, FileInfo, Known
      <4> QED
        BY <3>4, <3>7, <4>1
    <3> QED
      BY <3>3, <3>5, <3>6, <3>7
  <2> QED
    BY <1>8, <2>1, <2>2, <2>3 DEF Notifications
<1>9. CASE handleIgnoreFSNotesOff \/ UNCHANGED vars
  BY <1>2, <1>9 DEF handleIgnoreFSNotesOff, vars, dirState, indexes, history
<1> QED
  BY <1>4, <1>5, <1>6, <1>7, <1>8, <1>9 DEF Next

LEMMA StepNothingYet == NothingYet /\ [Next]_vars => NothingYet'
<1> SUFFICES ASSUME NothingYet, [Next]_vars, pc' \in {"load", "setup"} PROVE Happened' = {}
  BY DEF NothingYet
<1>1. CASE pc \in {"load", "setup"} /\ UNCHANGED fsQueues
  BY <1>1 DEF NothingYet, Happened, fsQueues, Range
<1>2. CASE Startup
  BY <1>1, <1>2 DEF Startup, connect, setupInotify, listen
<1>3. CASE R
  BY <1>3 DEF R, StartScript, EndScript, RWrite, RRemove, findOrAddFile, session
<1>4. CASE Others
  BY <1>1, <1>4 DEF Others, ForeignInsert, ForeignUpdate, ForeignDelete, Foreign, session
<1>5. CASE Inotify
  BY <1>5 DEF Inotify, handleInotifyEvent, CutName, CutLongName, CreateSkipped, CreateFailed,
      CreateInserted, NoEntry,
              CloseWrite, DeleteSelf, EndBatch, Event, session
<1>6. CASE Notifications
  BY <1>6 DEF Notifications, handleDBNotifications, noteUnknown, noteDelete, noteInsert,
              noteUpdate, EndNotes, Noted, session
<1>7. CASE handleIgnoreFSNotesOff \/ UNCHANGED vars
  BY <1>1, <1>7 DEF handleIgnoreFSNotesOff, vars, fsQueues, session
<1> QED
  BY <1>2, <1>3, <1>4, <1>5, <1>6, <1>7 DEF Next

LEMMA StepCrash ==
  Typed /\ Overtaken /\ Entered /\ CrashHasCause /\ [Next]_vars => CrashHasCause'
<1> SUFFICES ASSUME Typed, Overtaken, Entered, CrashHasCause, [Next]_vars, ~alive'
             PROVE  hastened' \cup clobbered' # {} \/ misread' # {} \/ count'.faults > 0
  BY DEF CrashHasCause
<1>0. /\ hastened \subseteq hastened' /\ clobbered \subseteq clobbered'
      /\ misread \subseteq misread'
      /\ count.faults \in Nat /\ count'.faults \in Nat /\ count.faults <= count'.faults
  BY HistoryGrows, StepTyped DEF Typed, FlagsTyped, CountType
<1>1. CASE ~alive
  BY <1>0, <1>1 DEF CrashHasCause
<1>2. CASE NoEntry
  <2>1. /\ batch # <<>> /\ Head(batch).kind \in FileEvents
        /\ Head(batch).wd \notin DOMAIN byWd
    BY <1>2 DEF NoEntry, FileEvents
  <2>2. Head(batch) \in Happened
    <3>1. batch \in Seq(EventType)
      BY DEF Typed, QueuesTyped
    <3>2. Head(batch) \in Range(batch)
      BY <2>1, <3>1, QueueHead DEF Range
    <3> QED
      BY <3>2 DEF Happened
  <2> QED
    BY <1>0, <2>1, <2>2 DEF Entered
<1>3. CASE noteInsert
  <2>1. notes # <<>> /\ Head(notes).op = "i" /\ Head(notes).id = noted /\ Reload
    BY <1>3 DEF noteInsert, Noted, noted
  <2>2. Head(notes) \in Said
    BY <2>1, TakenSays
  <2>3. PICK ok \in BOOLEAN :
          /\ Answered(ok)
          /\ CASE ok /\ noted \in DOMAIN rows -> alive' = alive
               [] ~(ok /\ noted \in DOMAIN rows) /\ noted \in Known -> alive' = alive
               [] OTHER -> TRUE
    BY <1>3 DEF noteInsert
  <2>4. CASE alive' = alive
    BY <1>1, <2>4
  <2>5. CASE ~ok
    BY <1>0, <2>3, <2>5, AnsweredCounts
  <2>6. CASE noted \notin DOMAIN rows
    BY <1>0, <2>1, <2>2, <2>6 DEF Overtaken
  <2> QED
    BY <2>3, <2>4, <2>5, <2>6
<1>4. CASE Startup
  BY <1>1, <1>4 DEF Startup, connect, setupInotify, listen
<1>5. CASE R
  BY <1>1, <1>5 DEF R, StartScript, EndScript, RWrite, RRemove, findOrAddFile, session
<1>6. CASE Others
  BY <1>1, <1>6 DEF Others, ForeignInsert, ForeignUpdate, ForeignDelete, Foreign, session
<1>7. CASE Inotify
  <2>1. CASE CutLongName
    <3>1. alive' = alive \/ misread' = misread \cup {Head(batch).name}
      BY <2>1 DEF CutLongName
    <3>2. CASE misread' = misread \cup {Head(batch).name}
      BY <3>2
    <3> QED
      BY <1>1, <3>1, <3>2
  <2> QED
    BY <1>1, <1>2, <1>7, <2>1 DEF Inotify, handleInotifyEvent, CutName, CreateSkipped,
       CreateFailed, CreateInserted, CloseWrite, DeleteSelf, EndBatch, session
<1>8. CASE Notifications
  BY <1>1, <1>3, <1>8 DEF Notifications, handleDBNotifications, noteUnknown, noteDelete,
                          noteUpdate, EndNotes, session
<1>9. CASE handleIgnoreFSNotesOff \/ UNCHANGED vars
  BY <1>1, <1>9 DEF handleIgnoreFSNotesOff, vars, session
<1> QED
  BY <1>4, <1>5, <1>6, <1>7, <1>8, <1>9 DEF Next

\* The process dereferences a null pointer only when a file was deleted before the
\* notification of its insertion was processed, when the database refused to give
\* the row, when a watch's entry was erased under a file's id, or when a long name
\* that a read cut off from its header was taken for an event
\* (handleInotifyEvent, processDBNotification, filesByWatchDesc_.erase).
THEOREM CrashesExplained == Spec => []CrashHasCause
<1>1. Init => CauseInv
  <2> SUFFICES ASSUME Init PROVE CauseInv
    OBVIOUS
  <2>1. Said = {} /\ Happened = {}
    BY DEF Init, Said, Notified, Happened, Range
  <2>2. \A n \in Names : watchOf[n] = 0
    BY DEF Init
  <2>3. alive
    BY DEF Init
  <2> QED
    BY <2>1, <2>2, <2>3 DEF CauseInv, Overtaken, Entered, NothingYet, CrashHasCause
<1>2. Typed /\ CacheInv /\ CauseInv /\ [Next]_vars => CauseInv'
  BY StepOvertaken, StepEntered, StepNothingYet, StepCrash DEF CauseInv
<1>3. CauseInv => CrashHasCause
  BY DEF CauseInv
<1> QED
  BY <1>1, <1>2, <1>3, AlwaysTyped, AlwaysCache, PTL DEF Spec

-----------------------------------------------------------------------------
(* Notifications of one name come in the order of the ids.  A name has one   *)
(* row at a time and ids only grow, so that of two files that had the same   *)
(* name the older one's notifications are processed first.                   *)

RowsUnique == \A id, jd \in DOMAIN rows : rows[id].name = rows[jd].name => id = jd
Newest == \A m \in Said : \A id \in DOMAIN rows : rows[id].name = m.name => m.id <= id
InOrder(q) ==
  \A i, j \in DOMAIN q : i < j /\ q[i].name = q[j].name => q[i].id <= q[j].id

NotesInv == RowsUnique /\ Newest /\ InOrder(Notified)

LEMMA OneMore ==
  ASSUME NEW X, NEW q \in Seq(X), NEW m \in X
  PROVE  /\ q \o <<m>> = Append(q, m) /\ q \o <<>> = q /\ Append(q, m) \in Seq(X)
         /\ Range(Append(q, m)) = Range(q) \cup {m}
<1>1. Range(Append(q, m)) = Range(q) \cup {m}
  BY RangeFacts
<1>2. q \o <<m>> = Append(q, m) /\ q \o <<>> = q /\ Append(q, m) \in Seq(X)
  OBVIOUS
<1> QED
  BY <1>1, <1>2

LEMMA OrderKept ==
  ASSUME NEW q \in Seq(Note), InOrder(q)
  PROVE  /\ q # <<>> => InOrder(Tail(q))
         /\ \A m \in Note : (\A k \in Range(q) : k.name = m.name => k.id <= m.id)
                              => InOrder(Append(q, m))
<1>1. ASSUME q # <<>> PROVE InOrder(Tail(q))
  <2>1. /\ Len(q) \in Nat \ {0} /\ DOMAIN q = 1 .. Len(q) /\ DOMAIN Tail(q) = 1 .. Len(q) - 1
        /\ \A i \in 1 .. Len(q) - 1 : Tail(q)[i] = q[i + 1]
    BY <1>1, HeadTailProperties
  <2>2. ASSUME NEW i \in DOMAIN Tail(q), NEW j \in DOMAIN Tail(q), i < j,
               Tail(q)[i].name = Tail(q)[j].name
        PROVE  Tail(q)[i].id <= Tail(q)[j].id
    <3>1. i + 1 \in DOMAIN q /\ j + 1 \in DOMAIN q /\ i + 1 < j + 1
      BY <2>1, <2>2
    <3>2. Tail(q)[i] = q[i + 1] /\ Tail(q)[j] = q[j + 1]
      BY <2>1
    <3> QED
      BY <2>2, <3>1, <3>2 DEF InOrder
  <2> QED
    BY <2>2 DEF InOrder
<1>2. ASSUME NEW m \in Note, \A k \in Range(q) : k.name = m.name => k.id <= m.id
      PROVE  InOrder(Append(q, m))
  <2> DEFINE r == Append(q, m)
  <2>1. /\ DOMAIN r = 1 .. Len(q) + 1 /\ r[Len(q) + 1] = m /\ DOMAIN q = 1 .. Len(q)
        /\ \A i \in 1 .. Len(q) : r[i] = q[i] /\ Len(q) \in Nat
    BY AppendProperties
  <2> HIDE DEF r
  <2>2. ASSUME NEW i \in DOMAIN r, NEW j \in DOMAIN r, i < j, r[i].name = r[j].name
        PROVE  r[i].id <= r[j].id
    <3>1. i \in DOMAIN q /\ r[i] = q[i]
      BY <2>1, <2>2
    <3>2. CASE j \in DOMAIN q
      BY <2>1, <2>2, <3>1, <3>2 DEF InOrder
    <3>3. CASE j \notin DOMAIN q
      <4>1. r[j] = m /\ q[i] \in Range(q)
        BY <2>1, <3>1, <3>3 DEF Range
      <4> QED
        BY <1>2, <2>2, <3>1, <4>1
    <3> QED
      BY <3>2, <3>3
  <2> QED
    BY <2>2 DEF InOrder, r
<1> QED
  BY <1>1, <1>2

\* What a step does to the rows' names and to the notifications: it takes one, it
\* changes or removes a row and may say so, or it adds a row and may say so.
KeptNames == \A id \in DOMAIN rows' : id \in DOMAIN rows /\ rows'[id].name = rows[id].name
Taken == KeptNames /\ (Notified' = Notified \/ (Notified # <<>> /\ Notified' = Tail(Notified)))
Told(op, id) == KeptNames /\ Notified' \in {Notified, Append(Notified, NoteOf(op, id))}
Added(n) ==
  /\ n \notin RowNames /\ nextId \notin DOMAIN rows
  /\ DOMAIN rows' = DOMAIN rows \cup {nextId} /\ rows'[nextId].name = n
  /\ \A id \in DOMAIN rows : rows'[id] = rows[id]
  /\ Notified' \in {Notified, Append(Notified, [op |-> "i", id |-> nextId, name |-> n])}

LEMMA AbsorbNotes ==
  ASSUME Typed
  PROVE  /\ Absorb(<<>>) => Notified' = Notified
         /\ \A m \in Note : Absorb(<<m>>) => Notified' \in {Notified, Append(Notified, m)}
<1>1. notes \in Seq(Note) /\ wire \in Seq(Note) /\ Notified \in Seq(Note) /\ <<>> \in Seq(Note)
  BY ConcatProperties DEF Typed, QueuesTyped, Notified
<1>2. ASSUME Absorb(<<>>) PROVE Notified' = Notified
  <2>1. Notified' = Notified \o <<>>
    BY <1>1, <1>2, AbsorbTypes
  <2> QED
    BY <1>1, <2>1
<1>3. ASSUME NEW m \in Note, Absorb(<<m>>)
      PROVE  Notified' \in {Notified, Append(Notified, m)}
  <2>1. <<m>> \in Seq(Note)
    BY <1>3
  <2>2. Notified' = Notified \o (IF listening THEN <<m>> ELSE <<>>)
    BY <1>1, <1>3, <2>1, AbsorbTypes
  <2>3. Notified \o <<m>> = Append(Notified, m) /\ Notified \o <<>> = Notified
    BY <1>1, <1>3, OneMore
  <2> QED
    BY <2>2, <2>3
<1> QED
  BY <1>2, <1>3

LEMMA TakenNotes ==
  ASSUME Typed, notes # <<>>, Reload \/ (notes' = Tail(notes) /\ wire' = wire)
  PROVE  Notified # <<>> /\ Notified' = Tail(Notified) /\ Head(Notified) = Head(notes)
<1>1. /\ notes \in Seq(Note) /\ wire \in Seq(Note) /\ Tail(notes) \in Seq(Note)
      /\ <<>> \in Seq(Note)
  BY HeadTailProperties DEF Typed, QueuesTyped
<1>2. Notified # <<>> /\ Tail(Notified) = Tail(notes) \o wire /\ Head(Notified) = Head(notes)
  BY <1>1 DEF Notified
<1>3. Notified' = Tail(notes) \o wire
  <2>1. CASE Reload
    <3>1. Tail(notes) \o wire \in Seq(Note)
      BY <1>1, ConcatProperties
    <3>2. notes' = Tail(notes) \o wire /\ wire' = <<>>
      BY <2>1 DEF Reload
    <3>3. notes' \o wire' = Tail(notes) \o wire
      BY <3>1, <3>2, ConcatProperties
    <3> QED
      BY <3>3 DEF Notified
  <2>2. CASE notes' = Tail(notes) /\ wire' = wire
    BY <2>2 DEF Notified
  <2> QED
    BY <2>1, <2>2
<1> QED
  BY <1>2, <1>3

LEMMA ForeignNotes ==
  ASSUME Typed, NEW op \in {"i", "u", "d"}, NEW id \in Nat, NEW n \in Names, Foreign(op, id, n)
  PROVE  Notified' \in {Notified, Append(Notified, [op |-> op, id |-> id, name |-> n])}
<1> DEFINE m == [op |-> op, id |-> id, name |-> n]
<1>1. notes \in Seq(Note) /\ wire \in Seq(Note) /\ m \in Note
  BY DEF Typed, QueuesTyped, Note
<1>2. notes' = notes /\ wire' \in {wire, Append(wire, m)}
  BY DEF Foreign
<1> HIDE DEF m
<1>3. notes \o Append(wire, m) = Append(notes \o wire, m)
  BY <1>1
<1> QED
  BY <1>2, <1>3 DEF Notified, m

LEMMA RowsAndNotes ==
  ASSUME Typed, CacheInv, [Next]_vars
  PROVE  \/ Taken
         \/ \E op \in {"u", "d"}, id \in DOMAIN rows : Told(op, id)
         \/ \E n \in Names : Added(n)
<1> DEFINE G == \/ Taken
                \/ \E op \in {"u", "d"}, id \in DOMAIN rows : Told(op, id)
                \/ \E n \in Names : Added(n)
<1>0. /\ nextId \notin DOMAIN rows /\ nextId \in Nat /\ RowsTyped(rows)
  BY DEF CacheInv, SameNames, Typed, OutsideTyped
<1>1. CASE rows' = rows /\ (UNCHANGED dbQueues \/ Absorb(<<>>))
  BY <1>1, AbsorbNotes DEF dbQueues, Notified, Taken, KeptNames
<1>2. CASE rows' = rows /\ notes # <<>> /\ (Reload \/ (notes' = Tail(notes) /\ wire' = wire))
  BY <1>2, TakenNotes DEF Taken, KeptNames
<1>3. ASSUME NEW n \in Present, insertDBFile(n) PROVE G
  <2> DEFINE m == [op |-> "i", id |-> nextId, name |-> n]
  <2>1. n \in Names /\ m \in Note
    BY <1>0 DEF Typed, OutsideTyped, DiskTyped, Present, Note
  <2>2. Notified' \in {Notified, Append(Notified, m)}
    BY <1>3, <2>1, AbsorbNotes DEF insertDBFile
  <2>3. Added(n)
    BY <1>0, <1>3, <2>2 DEF insertDBFile, With, Added
  <2> QED
    BY <2>1, <2>3
<1>4. ASSUME NEW op \in {"u", "d"}, NEW id \in DOMAIN rows, Absorb(<<NoteOf(op, id)>>), KeptNames
      PROVE  G
  <2>1. NoteOf(op, id) \in Note
    BY <1>4, NoteOfTypes
  <2>2. Told(op, id)
    BY <1>4, <2>1, AbsorbNotes DEF Told
  <2> QED
    BY <2>2
<1>5. ASSUME NEW n \in Names, ForeignInsert(n) PROVE Added(n)
  <2>1. Notified' \in {Notified, Append(Notified, [op |-> "i", id |-> nextId, name |-> n])}
    BY <1>0, <1>5, ForeignNotes DEF ForeignInsert
  <2> QED
    BY <1>0, <1>5, <2>1 DEF ForeignInsert, With, Added
<1>6. ASSUME NEW id \in DOMAIN rows, ForeignUpdate(id) PROVE G
  <2>1. id \in Nat /\ rows[id].name \in Names
    BY <1>0 DEF RowsTyped, RowType
  <2>2. Notified' \in {Notified, Append(Notified, NoteOf("u", id))}
    BY <1>6, <2>1, ForeignNotes DEF ForeignUpdate, NoteOf
  <2>3. KeptNames
    BY <1>0, <1>6 DEF ForeignUpdate, KeptNames, RowsTyped, RowType
  <2> QED
    BY <2>2, <2>3 DEF Told
<1>7. ASSUME NEW id \in DOMAIN rows, ForeignDelete(id) PROVE G
  <2>1. id \in Nat /\ rows[id].name \in Names
    BY <1>0 DEF RowsTyped, RowType
  <2>2. Notified' \in {Notified, Append(Notified, NoteOf("d", id))}
    BY <1>7, <2>1, ForeignNotes DEF ForeignDelete, NoteOf
  <2>3. KeptNames
    BY <1>7 DEF ForeignDelete, KeptNames, Without, Restrict
  <2> QED
    BY <2>2, <2>3 DEF Told
<1>8. ASSUME NEW id, NEW n, updateDBFile(id, n) PROVE G
  <2>1. CASE rows' = rows /\ Absorb(<<>>)
    BY <1>1, <2>1
  <2>2. CASE /\ id \in DOMAIN rows /\ Absorb(<<NoteOf("u", id)>>)
             /\ rows' = [rows EXCEPT ![id].version = filesById[id].version + 1, ![id].data = disk[n]]
    <3>1. KeptNames
      BY <1>0, <2>2 DEF KeptNames, RowsTyped, RowType
    <3> QED
      BY <1>4, <2>2, <3>1
  <2> QED
    BY <1>8, <2>1, <2>2 DEF updateDBFile
<1>9. ASSUME NEW id, removeDBFile(id) PROVE G
  <2>1. KeptNames
    BY <1>9 DEF removeDBFile, KeptNames, Without, Restrict
  <2>2. CASE id \in DOMAIN rows
    BY <1>4, <1>9, <2>1, <2>2 DEF removeDBFile
  <2>3. CASE id \notin DOMAIN rows
    <3>1. Absorb(<<>>)
      BY <1>9, <2>3 DEF removeDBFile
    <3> QED
      BY <2>1, <3>1, AbsorbNotes DEF Taken
  <2> QED
    BY <2>2, <2>3
<1>10. CASE Startup
  BY <1>1, <1>10 DEF Startup, connect, setupInotify, listen, database
<1>11. CASE R
  <2>1. CASE StartScript \/ EndScript \/ \E n \in Names : RWrite(n) \/ RRemove(n)
    BY <1>1, <2>1 DEF StartScript, EndScript, RWrite, RRemove, database
  <2>2. ASSUME NEW n \in Names, findOrAddFile(n) PROVE G
    BY <1>1, <1>3, <2>2 DEF findOrAddFile, insertRefused, insertFails
  <2> QED
    BY <1>11, <2>1, <2>2 DEF R
<1>12. CASE Others
  BY <1>5, <1>6, <1>7, <1>12 DEF Others
<1>13. CASE Inotify
  <2>1. CASE handleInotifyEvent \/ CutName \/ CreateSkipped \/ NoEntry \/ EndBatch
    BY <1>1, <2>1 DEF handleInotifyEvent, CutName, CreateSkipped, NoEntry, EndBatch, database
  <2>5. CASE CutLongName \/ CreateFailed
    <3>1. UNCHANGED <<database, dbQueues>> \/ insertFails
      BY <2>5 DEF CutLongName, CreateFailed
    <3> QED
      BY <1>1, <1>3, <3>1 DEF insertFails, database
  <2>2. CASE CreateInserted
    BY <1>1, <1>3, <2>2 DEF CreateInserted, insertRefused, insertFails
  <2>3. CASE CloseWrite
    BY <1>1, <1>8, <2>3 DEF CloseWrite
  <2>4. CASE DeleteSelf
    BY <1>1, <1>9, <2>4 DEF DeleteSelf
  <2> QED
    BY <1>13, <2>1, <2>2, <2>3, <2>4, <2>5 DEF Inotify
<1>14. CASE Notifications
  BY <1>1, <1>2, <1>14 DEF Notifications, handleDBNotifications, noteUnknown, noteDelete,
     noteInsert, noteUpdate, EndNotes, Noted, database
<1>15. CASE handleIgnoreFSNotesOff \/ UNCHANGED vars
  BY <1>1, <1>15 DEF handleIgnoreFSNotesOff, vars, database
<1> QED
  BY <1>10, <1>11, <1>12, <1>13, <1>14, <1>15 DEF Next

LEMMA NotesTyped == ASSUME Typed PROVE Notified \in Seq(Note) /\ Said \subseteq Note
<1>1. Notified \in Seq(Note)
  BY ConcatProperties DEF Typed, QueuesTyped, Notified
<1> QED
  BY <1>1 DEF Said, Range

LEMMA OneSaid ==
  ASSUME Typed, NEW m \in Note, Notified' \in {Notified, Append(Notified, m)}
  PROVE  Said' \subseteq Said \cup {m}
<1>1. Notified \in Seq(Note)
  BY NotesTyped
<1>2. Range(Append(Notified, m)) = Range(Notified) \cup {m}
  BY <1>1, OneMore
<1>3. Said' = Range(Notified')
  BY DEF Said
<1>4. Said' \in {Range(Notified), Range(Append(Notified, m))}
  BY <1>3
<1> QED
  BY <1>2, <1>4 DEF Said

LEMMA StepNotes == Typed /\ CacheInv /\ NotesInv /\ [Next]_vars => NotesInv'
<1> SUFFICES ASSUME Typed, CacheInv, NotesInv, [Next]_vars PROVE NotesInv'
  OBVIOUS
<1>1. /\ Notified \in Seq(Note) /\ Said \subseteq Note /\ RowsUnique /\ Newest /\ InOrder(Notified)
      /\ SameNames(rows, filesById, Said, nextId) /\ nextId \in Nat
  BY NotesTyped DEF NotesInv, CacheInv, Typed, OutsideTyped
<1>2. CASE Taken
  <2>1. Said' \subseteq Said /\ InOrder(Notified')
    <3>1. CASE Notified' = Notified
      BY <1>1, <3>1 DEF Said
    <3>2. CASE Notified # <<>> /\ Notified' = Tail(Notified)
      <4>1. Range(Tail(Notified)) \subseteq Range(Notified)
        BY <1>1, <3>2, RangeFacts
      <4> QED
        BY <1>1, <3>2, <4>1, OrderKept DEF Said
    <3> QED
      BY <1>2, <3>1, <3>2 DEF Taken
  <2>2. RowsUnique' /\ Newest'
    BY <1>1, <1>2, <2>1 DEF Taken, KeptNames, RowsUnique, Newest
  <2>3. InOrder(Notified)'
    BY <2>1 DEF InOrder
  <2> QED
    BY <2>2, <2>3 DEF NotesInv
<1>3. ASSUME NEW op \in {"u", "d"}, NEW id \in DOMAIN rows, Told(op, id) PROVE NotesInv'
  <2> DEFINE m == NoteOf(op, id)
  <2>1. m \in Note /\ m.id = id /\ m.name = rows[id].name
    BY NoteOfTypes DEF NoteOf
  <2>2. Notified' \in {Notified, Append(Notified, m)} /\ KeptNames
    BY <1>3 DEF Told
  <2> HIDE DEF m
  <2>3. Said' \subseteq Said \cup {m}
    BY <2>1, <2>2, OneSaid
  <2>4. \A k \in Said : k.name = m.name => k.id <= m.id
    BY <1>1, <2>1 DEF Newest
  <2>5. InOrder(Notified')
    BY <1>1, <2>1, <2>2, <2>4, OrderKept DEF Said
  <2>6. RowsUnique'
    BY <1>1, <2>2 DEF KeptNames, RowsUnique
  <2>7. Newest'
    <3> SUFFICES ASSUME NEW k \in Said', NEW jd \in DOMAIN rows', rows'[jd].name = k.name
                 PROVE  k.id <= jd
      BY DEF Newest
    <3>1. jd \in DOMAIN rows /\ rows[jd].name = k.name
      BY <2>2 DEF KeptNames
    <3>2. CASE k \in Said
      BY <1>1, <3>1, <3>2 DEF Newest
    <3>3. CASE k = m
      <4>1. jd = id /\ jd \in Nat
        BY <1>1, <2>1, <3>1, <3>3 DEF RowsUnique, SameNames
      <4> QED
        BY <2>1, <3>3, <4>1
    <3> QED
      BY <2>3, <3>2, <3>3
  <2>8. InOrder(Notified)'
    BY <2>5 DEF InOrder
  <2> QED
    BY <2>6, <2>7, <2>8 DEF NotesInv
<1>4. ASSUME NEW n \in Names, Added(n) PROVE NotesInv'
  <2> DEFINE m == [op |-> "i", id |-> nextId, name |-> n]
  <2>1. m \in Note /\ m.id = nextId /\ m.name = n
    BY <1>1 DEF Note
  <2>2. /\ Notified' \in {Notified, Append(Notified, m)} /\ n \notin RowNames
        /\ nextId \notin DOMAIN rows /\ DOMAIN rows' = DOMAIN rows \cup {nextId}
        /\ rows'[nextId].name = n /\ \A id \in DOMAIN rows : rows'[id] = rows[id]
    BY <1>4 DEF Added
  <2> HIDE DEF m
  <2>3. Said' \subseteq Said \cup {m}
    BY <2>1, <2>2, OneSaid
  <2>4. \A k \in Said : k.id \in Nat /\ k.id < nextId
    BY <1>1 DEF SameNames
  <2>5. InOrder(Notified')
    <3>1. \A k \in Range(Notified) : k.name = m.name => k.id <= m.id
      BY <1>1, <2>1, <2>4 DEF Said
    <3> QED
      BY <1>1, <2>1, <2>2, <3>1, OrderKept
  <2>6. RowsUnique'
    BY <1>1, <2>2 DEF RowsUnique, RowNames
  <2>7. Newest'
    <3> SUFFICES ASSUME NEW k \in Said', NEW jd \in DOMAIN rows', rows'[jd].name = k.name
                 PROVE  k.id <= jd
      BY DEF Newest
    <3>1. k.id \in Nat /\ k.id <= nextId
      BY <1>1, <2>1, <2>3, <2>4
    <3>2. CASE jd = nextId
      BY <3>1, <3>2
    <3>3. CASE jd \in DOMAIN rows
      <4>1. rows[jd].name = k.name /\ n # k.name
        BY <2>2, <3>3 DEF RowNames
      <4>2. k \in Said
        BY <2>1, <2>3, <4>1
      <4> QED
        BY <1>1, <3>3, <4>1, <4>2 DEF Newest
    <3> QED
      BY <2>2, <3>2, <3>3
  <2>8. InOrder(Notified)'
    BY <2>5 DEF InOrder
  <2> QED
    BY <2>6, <2>7, <2>8 DEF NotesInv
<1> QED
  BY <1>2, <1>3, <1>4, RowsAndNotes

LEMMA InitNotes == Init => NotesInv
<1> SUFFICES ASSUME Init PROVE NotesInv
  OBVIOUS
<1>1. Notified = <<>> /\ Said = {}
  BY DEF Init, Notified, Said, Range
<1>2. InOrder(Notified) /\ Newest
  BY <1>1 DEF InOrder, Newest
<1>3. RowsUnique
  <2>0. PICK old \in SUBSET Names : \E f \in [old -> FirstId .. FirstId + 1] :
          /\ \A m, n \in old : f[m] = f[n] => m = n
          /\ rows = [id \in {f[n] : n \in old} |->
                       [name |-> CHOOSE n \in old : f[n] = id, version |-> 1, data |-> 0]]
    BY DEF Init
  <2>1. PICK f \in [old -> FirstId .. FirstId + 1] :
          /\ \A m, n \in old : f[m] = f[n] => m = n
          /\ rows = [id \in {f[n] : n \in old} |->
                       [name |-> CHOOSE n \in old : f[n] = id, version |-> 1, data |-> 0]]
    BY <2>0
  <2>2. ASSUME NEW id \in DOMAIN rows PROVE rows[id].name \in old /\ f[rows[id].name] = id
    BY <2>1
  <2> QED
    BY <2>2 DEF RowsUnique
<1> QED
  BY <1>2, <1>3 DEF NotesInv

LEMMA AlwaysNotes == Spec => []NotesInv
BY InitNotes, StepNotes, AlwaysTyped, AlwaysCache, PTL DEF Spec

-----------------------------------------------------------------------------
(* Two files of one name are in the table only when an event of it was lost. *)

FilesUnique == \A id, jd \in Known : filesById[id].name = filesById[jd].name =>
                                       id = jd \/ filesById[id].name \in excused

\* What a step does to the names in the table.
KeptFiles == \A id \in Known' : id \in Known /\ filesById'[id].name = filesById[id].name
EnteredFile(id, n) ==
  /\ Known' = Known \cup {id} /\ filesById'[id].name = n
  /\ \A jd \in Known \ {id} : filesById'[jd].name = filesById[jd].name

LEMMA ExcusedGrows == ASSUME [Next]_vars, ~connect PROVE excused \subseteq excused'
<1>1. CASE UNCHANGED excused \/ \E n : Lost(n)
  BY <1>1 DEF Lost
<1>2. CASE R
  BY <1>2 DEF R, StartScript, EndScript, RWrite, RRemove, findOrAddFile, insertDBFile,
              insertRefused, insertFails, history
<1>3. CASE Others
  BY <1>3 DEF Others, ForeignInsert, ForeignUpdate, ForeignDelete, Foreign
<1>4. CASE Inotify
  <2>1. CASE handleInotifyEvent \/ CutName \/ NoEntry \/ EndBatch
    BY <2>1 DEF handleInotifyEvent, CutName, NoEntry, EndBatch, history
  <2>2. CASE CreateSkipped
    BY <1>1, <2>2 DEF CreateSkipped
  <2>6. CASE CutLongName \/ CreateFailed
    BY <1>1, <2>6 DEF CutLongName, CreateFailed
  <2>3. CASE CreateInserted
    BY <2>3 DEF CreateInserted, insertDBFile, insertRefused, insertFails
  <2>4. CASE CloseWrite
    BY <1>1, <2>4 DEF CloseWrite
  <2>5. CASE DeleteSelf
    BY <1>1, <2>5 DEF DeleteSelf
  <2> QED
    BY <1>4, <2>1, <2>2, <2>3, <2>4, <2>5, <2>6 DEF Inotify
<1>5. CASE Notifications
  BY <1>5 DEF Notifications, handleDBNotifications, noteUnknown, noteDelete, noteInsert,
              noteUpdate, EndNotes, history
<1>6. CASE Startup
  BY <1>6 DEF Startup, setupInotify, listen, history
<1>7. CASE handleIgnoreFSNotesOff \/ UNCHANGED vars
  BY <1>7 DEF handleIgnoreFSNotesOff, vars, history
<1> QED
  BY <1>2, <1>3, <1>4, <1>5, <1>6, <1>7 DEF Next

\* Watching files[id] gives it a watch, and leaves everything else of the table.
LEMMA WatchedTable ==
  ASSUME NEW files, FilesTyped(files), NEW id \in DOMAIN files, watchFile(id, files)
  PROVE  /\ Known' = DOMAIN files /\ filesById'[id].name = files[id].name
         /\ filesById'[id].version = files[id].version
         /\ \A jd \in DOMAIN files \ {id} : filesById'[jd] = files[jd]
<1> DEFINE wd == IF watchOf[files[id].name] # 0 THEN watchOf[files[id].name] ELSE nextWd
<1>1. filesById' = [files EXCEPT ![id].wd = wd]
  BY DEF watchFile
<1> HIDE DEF wd
<1> QED
  BY <1>1 DEF FilesTyped, FileInfo, Known

LEMMA NewTable ==
  ASSUME Typed, CacheInv, NEW n
  PROVE  /\ nextId \notin Known /\ nextId \in Nat
         /\ DOMAIN newFile(n) = Known \cup {nextId}
         /\ newFile(n)[nextId].name = n /\ newFile(n)[nextId].wd = 0
         /\ \A id \in Known : newFile(n)[id] = filesById[id]
BY DEF CacheInv, SameNames, newFile, With, Known, Typed, OutsideTyped

LEMMA TableSteps ==
  ASSUME Typed, CacheInv, [Next]_vars
  PROVE  \/ connect \/ KeptFiles
         \/ \E n \in Names \ KnownNames : EnteredFile(nextId, n)
         \/ /\ noteInsert /\ Noted("i") /\ Reload /\ noted \in DOMAIN rows
            /\ EnteredFile(noted, rows[noted].name)
<1> DEFINE G == \/ connect \/ KeptFiles
                \/ \E n \in Names \ KnownNames : EnteredFile(nextId, n)
                \/ /\ noteInsert /\ Noted("i") /\ Reload /\ noted \in DOMAIN rows
                   /\ EnteredFile(noted, rows[noted].name)
<1>0. FilesTyped(filesById) /\ DOMAIN filesById = Known
  BY DEF Typed, TablesTyped, Known
<1>1. CASE UNCHANGED filesById
  BY <1>1 DEF KeptFiles, Known
<1>2. ASSUME NEW id, filesById' = Without(filesById, id) PROVE KeptFiles
  BY <1>2 DEF KeptFiles, Known, Without, Restrict
<1>3. ASSUME NEW id, NEW n, updateDBFile(id, n) PROVE KeptFiles
  <2>1. CASE filesById' = filesById
    BY <2>1 DEF KeptFiles, Known
  <2>2. CASE /\ id \in Known
             /\ filesById' = [filesById EXCEPT ![id].version = filesById[id].version + 1]
    BY <1>0, <2>2 DEF KeptFiles, FilesTyped, FileInfo, Known
  <2> QED
    BY <1>3, <2>1, <2>2 DEF updateDBFile
<1>4. CASE Startup
  <2>1. CASE setupInotify
    <3> DEFINE wd == [id \in Known |-> 1 + Cardinality({j \in Known : j <= id})]
    <3>1. filesById' = [id \in Known |-> [filesById[id] EXCEPT !.wd = wd[id]]]
      BY <2>1 DEF setupInotify
    <3> HIDE DEF wd
    <3>2. KeptFiles
      BY <1>0, <3>1 DEF KeptFiles, FilesTyped, FileInfo, Known
    <3> QED
      BY <3>2
  <2> QED
    BY <1>1, <1>4, <2>1 DEF Startup, listen, indexes
<1>5. CASE R
  <2>1. CASE StartScript \/ EndScript \/ \E n \in Names : RWrite(n) \/ RRemove(n)
    BY <1>1, <2>1 DEF StartScript, EndScript, RWrite, RRemove, indexes
  <2>2. ASSUME NEW n \in Names, findOrAddFile(n) PROVE G
    <3>1. n \notin KnownNames /\ (filesById' = newFile(n) \/ UNCHANGED filesById)
      BY <2>2 DEF findOrAddFile
    <3>2. CASE filesById' = newFile(n)
      <4> DEFINE files == newFile(n)
      <4>1. /\ DOMAIN files = Known \cup {nextId} /\ files[nextId].name = n
            /\ nextId \notin Known /\ \A id \in Known : files[id] = filesById[id]
        BY NewTable
      <4>2. filesById' = files
        BY <3>2
      <4> HIDE DEF files
      <4>3. EnteredFile(nextId, n)
        BY <4>1, <4>2 DEF EnteredFile, Known
      <4> QED
        BY <2>2, <3>1, <4>3
    <3> QED
      BY <1>1, <3>1, <3>2
  <2> QED
    BY <1>5, <2>1, <2>2 DEF R
<1>6. CASE Others
  BY <1>1, <1>6 DEF Others, ForeignInsert, ForeignUpdate, ForeignDelete, Foreign, indexes
<1>7. CASE Inotify
  <2>1. CASE handleInotifyEvent \/ CutName \/ CutLongName \/ CreateSkipped \/ CreateFailed \/ NoEntry
             \/ EndBatch
    BY <1>1, <2>1 DEF handleInotifyEvent, CutName, CutLongName, CreateSkipped, CreateFailed,
       NoEntry, EndBatch, indexes
  <2>2. CASE CreateInserted
    <3> DEFINE n == Head(batch).name
    <3>1. /\ n \in Names \ KnownNames
          /\ watchFile(nextId, newFile(n)) \/ UNCHANGED filesById
      BY <2>2 DEF CreateInserted, Typed, OutsideTyped, DiskTyped, Present
    <3> HIDE DEF n
    <3>2. CASE watchFile(nextId, newFile(n))
      <4> DEFINE files == newFile(n)
      <4>1. /\ FilesTyped(files) /\ DOMAIN files = Known \cup {nextId}
            /\ files[nextId].name = n /\ nextId \notin Known
            /\ \A id \in Known : files[id] = filesById[id]
        BY <3>1, InsertTypes, NewTable
      <4>3. watchFile(nextId, files)
        BY <3>2
      <4> HIDE DEF files
      <4>4. /\ Known' = DOMAIN files /\ filesById'[nextId].name = files[nextId].name
            /\ \A jd \in DOMAIN files \ {nextId} : filesById'[jd] = files[jd]
        BY <4>1, <4>3, WatchedTable
      <4>2. EnteredFile(nextId, n)
        BY <4>1, <4>4 DEF EnteredFile
      <4> QED
        BY <3>1, <4>2
    <3> QED
      BY <1>1, <3>1, <3>2
  <2>3. CASE CloseWrite
    BY <1>1, <1>3, <2>3 DEF CloseWrite
  <2>4. CASE DeleteSelf
    BY <1>1, <1>2, <2>4 DEF DeleteSelf, removeDBFile
  <2> QED
    BY <1>7, <2>1, <2>2, <2>3, <2>4 DEF Inotify
<1>8. CASE Notifications
  <2>1. CASE handleDBNotifications \/ noteUnknown \/ EndNotes
    BY <1>1, <2>1 DEF handleDBNotifications, noteUnknown, EndNotes, indexes
  <2>2. CASE noteDelete
    BY <1>2, <2>2 DEF noteDelete
  <2>3. CASE noteUpdate
    <3>1. CASE noted \in Known /\ noted \in DOMAIN rows /\ filesById' = fileFromRow(noted)
      <4>1. rows[noted].name = filesById[noted].name
        BY <1>0, <3>1 DEF CacheInv, SameNames
      <4> QED
        <5> DEFINE files == fileFromRow(noted)
        <5>1. /\ DOMAIN files = Known \cup {noted} /\ files[noted].name = rows[noted].name
              /\ \A jd \in Known \ {noted} : files[jd] = filesById[jd]
          BY <3>1, FromRow
        <5>2. filesById' = files
          BY <3>1
        <5> HIDE DEF files
        <5>3. KeptFiles
          BY <3>1, <4>1, <5>1, <5>2 DEF KeptFiles, Known
        <5> QED
          BY <5>3
    <3> QED
      BY <1>1, <2>3, <3>1 DEF noteUpdate
  <2>4. CASE noteInsert
    <3>1. PICK ok \in BOOLEAN :
            CASE ok /\ noted \in DOMAIN rows -> watchFile(noted, fileFromRow(noted))
              [] ~(ok /\ noted \in DOMAIN rows) /\ noted \in Known ->
                   watchFile(noted, filesById) \/ UNCHANGED filesById
              [] OTHER -> UNCHANGED filesById
      BY <2>4 DEF noteInsert
    <3>2. CASE ok /\ noted \in DOMAIN rows
      <4>1. watchFile(noted, fileFromRow(noted)) /\ noted \in DOMAIN rows
        BY <3>1, <3>2
      <4>2. FilesTyped(fileFromRow(noted)) /\ noted \in DOMAIN fileFromRow(noted)
        BY <4>1, FileFromRowTypes
      <4> DEFINE files == fileFromRow(noted)
      <4>3. /\ DOMAIN files = Known \cup {noted} /\ files[noted].name = rows[noted].name
            /\ \A jd \in Known \ {noted} : files[jd] = filesById[jd]
        BY <4>1, FromRow
      <4>4. FilesTyped(files) /\ watchFile(noted, files)
        BY <4>1, <4>2
      <4> HIDE DEF files
      <4>5. /\ Known' = DOMAIN files /\ filesById'[noted].name = files[noted].name
            /\ \A jd \in DOMAIN files \ {noted} : filesById'[jd] = files[jd]
        BY <4>3, <4>4, WatchedTable
      <4>6. EnteredFile(noted, rows[noted].name)
        BY <4>3, <4>5 DEF EnteredFile
      <4> QED
        BY <2>4, <4>1, <4>6 DEF noteInsert
    <3>3. CASE ~(ok /\ noted \in DOMAIN rows) /\ noted \in Known
      <4>1. CASE watchFile(noted, filesById)
        BY <1>0, <3>3, <4>1, WatchedTable DEF KeptFiles
      <4> QED
        BY <1>1, <3>1, <3>3, <4>1
    <3>4. CASE ~(ok /\ noted \in DOMAIN rows) /\ noted \notin Known
      BY <1>1, <3>1, <3>4
    <3> QED
      BY <3>2, <3>3, <3>4
  <2> QED
    BY <1>8, <2>1, <2>2, <2>3, <2>4 DEF Notifications
<1>9. CASE handleIgnoreFSNotesOff \/ UNCHANGED vars
  BY <1>1, <1>9 DEF handleIgnoreFSNotesOff, vars, indexes
<1> QED
  BY <1>4, <1>5, <1>6, <1>7, <1>8, <1>9 DEF Next

\* The oldest notification of a name is of the oldest id.
LEMMA HeadOldest ==
  ASSUME Typed, NotesInv, notes # <<>>, NEW m \in Said, m.name = Head(notes).name
  PROVE  Head(notes) \in Said /\ Head(notes).id <= m.id
<1>1. Notified \in Seq(Note) /\ notes \in Seq(Note) /\ wire \in Seq(Note) /\ Said \subseteq Note
  BY NotesTyped DEF Typed, QueuesTyped
<1>2. Notified # <<>> /\ Notified[1] = Head(notes) /\ 1 \in DOMAIN Notified
  BY <1>1 DEF Notified
<1>3. PICK j \in DOMAIN Notified : m = Notified[j]
  BY DEF Said, Range
<1>4. Notified[1] \in Said
  BY <1>2 DEF Said, Range
<1>5. CASE j = 1
  <2>1. m.id \in Nat
    BY <1>1 DEF Note
  <2> QED
    BY <1>2, <1>3, <1>4, <1>5, <2>1
<1>6. CASE j # 1
  <2>1. 1 < j
    BY <1>1, <1>6
  <2> QED
    BY <1>2, <1>3, <1>4, <2>1 DEF NotesInv, InOrder
<1> QED
  BY <1>5, <1>6

\* When the notification of a row comes up, a file of that name is the row's.
LEMMA HeadsFile ==
  ASSUME Typed, CacheInv, NotesInv, pc = "notes", notes # <<>>, noted \in DOMAIN rows,
         NEW id \in Known, filesById[id].name = rows[noted].name
  PROVE  id = noted \/ rows[noted].name \in excused
<1> DEFINE n == rows[noted].name
<1> SUFFICES ASSUME id # noted, n \notin excused PROVE FALSE
  OBVIOUS
<1>1. /\ SameNames(rows, filesById, Said, nextId) /\ Mended(rows, filesById, Said, excused)
      /\ Known = DOMAIN filesById
  BY DEF CacheInv, Known
<1>2. Head(notes) \in Said /\ noted = Head(notes).id
  <2>1. notes \in Seq(Note) /\ Notified \in Seq(Note) /\ Notified[1] = Head(notes)
        /\ 1 \in DOMAIN Notified
    BY DEF Typed, QueuesTyped, Notified
  <2> QED
    BY <2>1 DEF Said, Range, noted
<1>3. Head(notes).name = n /\ Head(notes).op # "d"
  BY <1>1, <1>2 DEF SameNames
<1>4. id \notin DOMAIN rows
  <2>1. CASE id \in DOMAIN rows
    <3>1. rows[id].name = n
      BY <1>1, <2>1 DEF SameNames
    <3> QED
      BY <2>1, <3>1 DEF NotesInv, RowsUnique
  <2> QED
    BY <2>1
<1>5. PICK m \in Said : m.id = id /\ m.op = "d"
  BY <1>1, <1>4 DEF Mended, SaidOf
<1>6. m.name = n
  BY <1>1, <1>5 DEF SameNames
<1>7. noted <= id
  BY <1>2, <1>3, <1>5, <1>6, HeadOldest
<1>8. id <= noted
  BY <1>5, <1>6 DEF NotesInv, Newest
<1>9. id \in Nat /\ noted \in Nat
  BY <1>1 DEF SameNames
<1> QED
  BY <1>7, <1>8, <1>9

LEMMA StepFilesUnique ==
  Typed /\ CacheInv /\ NotesInv /\ FilesUnique /\ [Next]_vars => FilesUnique'
<1> SUFFICES ASSUME Typed, CacheInv, NotesInv, FilesUnique, [Next]_vars PROVE FilesUnique'
  OBVIOUS
<1>1. CASE connect
  <2>1. \/ filesById' = <<>>
        \/ filesById' = [id \in DOMAIN rows |->
             [name |-> rows[id].name, version |-> rows[id].version, wd |-> 0]]
    BY <1>1 DEF connect
  <2>2. \A id \in Known' : id \in DOMAIN rows /\ filesById'[id].name = rows[id].name
    BY <2>1 DEF Known
  <2> QED
    BY <2>2 DEF FilesUnique, NotesInv, RowsUnique
<1>2. CASE ~connect /\ KeptFiles
  BY <1>2, ExcusedGrows DEF FilesUnique, KeptFiles
<1>3. ASSUME NEW jd, NEW n, ~connect, EnteredFile(jd, n),
             \A id \in Known \ {jd} : filesById[id].name = n => n \in excused
      PROVE  FilesUnique'
  <2>1. excused \subseteq excused'
    BY <1>3, ExcusedGrows
  <2> SUFFICES ASSUME NEW id1 \in Known', NEW id2 \in Known',
                      filesById'[id1].name = filesById'[id2].name
               PROVE  id1 = id2 \/ filesById'[id1].name \in excused'
    BY DEF FilesUnique
  <2>2. CASE id1 # jd /\ id2 # jd
    BY <1>3, <2>1, <2>2 DEF EnteredFile, FilesUnique
  <2>3. CASE id1 = jd /\ id2 # jd
    BY <1>3, <2>1, <2>3 DEF EnteredFile
  <2>4. CASE id1 # jd /\ id2 = jd
    BY <1>3, <2>1, <2>4 DEF EnteredFile
  <2> QED
    BY <2>2, <2>3, <2>4
<1>4. ASSUME NEW n \in Names \ KnownNames, ~connect, EnteredFile(nextId, n) PROVE FilesUnique'
  BY <1>3, <1>4 DEF KnownNames
<1>5. CASE ~connect /\ noteInsert /\ Noted("i") /\ noted \in DOMAIN rows
           /\ EnteredFile(noted, rows[noted].name)
  <2>1. \A id \in Known \ {noted} : filesById[id].name = rows[noted].name =>
                                       rows[noted].name \in excused
    BY <1>5, HeadsFile DEF Noted
  <2> QED
    BY <1>3, <1>5, <2>1
<1> QED
  BY <1>1, <1>2, <1>4, <1>5, TableSteps

LEMMA AlwaysFilesUnique == Spec => []FilesUnique
<1>1. Init => FilesUnique
  BY DEF Init, FilesUnique, Known
<1> QED
  BY <1>1, StepFilesUnique, AlwaysTyped, AlwaysCache, AlwaysNotes, PTL DEF Spec

-----------------------------------------------------------------------------
(* A watch is of one file. *)

Dirs == Names \cup {Dir}
Apart(w, next, f) ==
  /\ \A n \in Dirs : w[n] < next
  /\ \A m, n \in Dirs : w[m] = w[n] /\ w[m] # 0 => m = n
  /\ \A id \in DOMAIN f : f[id].wd < next
  /\ \A id \in DOMAIN f : \A n \in Dirs : w[n] = f[id].wd /\ w[n] # 0 => f[id].name = n
WatchesApart == Apart(watchOf, nextWd, filesById)

\* What a table keeps: a file that stays keeps its name, and its watch or loses it.
KeptWatches(f2) ==
  \A id \in DOMAIN f2 : \/ f2[id].wd = 0
                        \/ /\ id \in Known /\ f2[id].wd = filesById[id].wd
                           /\ f2[id].name = filesById[id].name

LEMMA ApartLess ==
  ASSUME Typed, WatchesApart, nextWd' = nextWd, KeptWatches(filesById'),
         \A n \in Dirs : watchOf'[n] \in {0, watchOf[n]}
  PROVE  WatchesApart'
<1>1. nextWd \in Nat \ {0} /\ Known = DOMAIN filesById
  BY DEF Typed, OutsideTyped, Known
<1>2. Apart(watchOf, nextWd, filesById)
  BY DEF WatchesApart
<1>3. Apart(watchOf', nextWd', filesById')
  <2>1. \A n \in Dirs : watchOf'[n] < nextWd'
    BY <1>1, <1>2 DEF Apart
  <2>2. \A m, n \in Dirs : watchOf'[m] = watchOf'[n] /\ watchOf'[m] # 0 => m = n
    BY <1>2 DEF Apart
  <2>3. ASSUME NEW id \in DOMAIN filesById' PROVE filesById'[id].wd < nextWd'
    BY <1>1, <1>2 DEF Apart, KeptWatches
  <2>4. ASSUME NEW id \in DOMAIN filesById', NEW n \in Dirs,
               watchOf'[n] = filesById'[id].wd /\ watchOf'[n] # 0
        PROVE  filesById'[id].name = n
    <3>1. watchOf[n] = watchOf'[n] /\ watchOf[n] # 0
      BY <2>4
    <3>2. id \in Known /\ filesById'[id].wd = filesById[id].wd
          /\ filesById'[id].name = filesById[id].name
      BY <2>4 DEF KeptWatches
    <3>3. watchOf[n] = filesById[id].wd
      BY <2>4, <3>1, <3>2
    <3> QED
      BY <1>1, <1>2, <3>1, <3>2, <3>3 DEF Apart
  <2> QED
    BY <2>1, <2>2, <2>3, <2>4 DEF Apart
<1> QED
  BY <1>3 DEF WatchesApart, Apart

\* The watch of a file is its inode's, or the next one.
Gives(files, id, n, wd) ==
  /\ wd = watchOf[n] \/ wd = nextWd
  /\ watchOf' = [watchOf EXCEPT ![n] = wd]
  /\ nextWd' \in Nat /\ wd < nextWd' /\ nextWd <= nextWd'
  /\ filesById' = [files EXCEPT ![id].wd = wd] /\ byWd' = With(byWd, wd, id)
  /\ \A m \in Dirs : watchOf[m] = wd => m = n

LEMMA WatchGiven ==
  ASSUME Typed, WatchesApart, NEW files, FilesTyped(files), NEW id \in DOMAIN files,
         watchFile(id, files)
  PROVE  \E wd \in Nat \ {0} : Gives(files, id, files[id].name, wd)
<1> DEFINE n == files[id].name
           wd == IF watchOf[n] # 0 THEN watchOf[n] ELSE nextWd
<1>1. n \in Names /\ n \in Dirs /\ nextWd \in Nat \ {0} /\ watchOf \in [Dirs -> Nat]
  BY DEF FilesTyped, FileInfo, Typed, OutsideTyped, Dirs
<1>2. /\ watchOf' = [watchOf EXCEPT ![n] = wd]
      /\ nextWd' = IF wd = nextWd THEN nextWd + 1 ELSE nextWd
      /\ filesById' = [files EXCEPT ![id].wd = wd]
      /\ byWd' = With(byWd, wd, id)
  BY DEF watchFile
<1>3. /\ \A m \in Dirs : watchOf[m] < nextWd
      /\ \A m, k \in Dirs : watchOf[m] = watchOf[k] /\ watchOf[m] # 0 => m = k
  BY DEF WatchesApart, Apart
<1>4. CASE watchOf[n] # 0
  <2>1. wd = watchOf[n] /\ wd # 0 /\ wd \in Nat /\ wd < nextWd /\ nextWd' = nextWd
    BY <1>1, <1>2, <1>3, <1>4
  <2>2. \A m \in Dirs : watchOf[m] = wd => m = n
    BY <1>1, <1>3, <2>1
  <2>3. nextWd' \in Nat /\ wd < nextWd' /\ nextWd <= nextWd' /\ wd \in Nat \ {0}
    BY <1>1, <2>1
  <2>4. Gives(files, id, n, wd)
    <3> HIDE DEF wd, n
    <3> QED
      BY <1>2, <2>1, <2>2, <2>3 DEF Gives
  <2> QED
    BY <2>3, <2>4
<1>5. CASE watchOf[n] = 0
  <2>1. wd = nextWd /\ nextWd' = nextWd + 1
    BY <1>2, <1>5
  <2>2. \A m \in Dirs : watchOf[m] # wd
    BY <1>1, <1>3, <2>1
  <2>3. nextWd' \in Nat /\ wd < nextWd' /\ nextWd <= nextWd' /\ wd \in Nat \ {0}
    BY <1>1, <2>1
  <2>4. Gives(files, id, n, wd)
    <3> HIDE DEF wd, n
    <3> QED
      BY <1>2, <2>1, <2>2, <2>3 DEF Gives
  <2> QED
    BY <2>3, <2>4
<1> QED
  BY <1>4, <1>5

LEMMA ApartMore ==
  ASSUME Typed, WatchesApart, NEW files, FilesTyped(files), NEW id \in DOMAIN files,
         watchFile(id, files), KeptWatches(files)
  PROVE  WatchesApart'
<1> DEFINE n == files[id].name
<1>1. PICK wd \in Nat \ {0} :
           /\ wd = watchOf[n] \/ wd = nextWd
           /\ watchOf' = [watchOf EXCEPT ![n] = wd]
           /\ nextWd' \in Nat /\ wd < nextWd' /\ nextWd <= nextWd'
           /\ filesById' = [files EXCEPT ![id].wd = wd]
           /\ \A m \in Dirs : watchOf[m] = wd => m = n
  BY WatchGiven DEF Gives
<1>2. n \in Names /\ n \in Dirs /\ nextWd \in Nat \ {0} /\ watchOf \in [Dirs -> Nat]
  BY DEF FilesTyped, FileInfo, Typed, OutsideTyped, Dirs
<1>3. Apart(watchOf, nextWd, filesById) /\ Known = DOMAIN filesById
  BY DEF WatchesApart, Known
<1>4. /\ DOMAIN filesById' = DOMAIN files /\ filesById'[id].wd = wd /\ filesById'[id].name = n
      /\ \A jd \in DOMAIN files \ {id} : filesById'[jd] = files[jd]
  BY <1>1 DEF FilesTyped, FileInfo
<1> HIDE DEF n
<1>5. watchOf'[n] = wd /\ \A m \in Dirs \ {n} : watchOf'[m] = watchOf[m]
  BY <1>1, <1>2
<1>6. \A m \in Dirs : watchOf'[m] < nextWd'
  BY <1>1, <1>2, <1>3, <1>5 DEF Apart
<1>7. \A m, k \in Dirs : watchOf'[m] = watchOf'[k] /\ watchOf'[m] # 0 => m = k
  BY <1>1, <1>2, <1>3, <1>5 DEF Apart
<1>8. \A jd \in DOMAIN files : files[jd].wd \in Nat
  BY DEF FilesTyped, FileInfo
<1>9. \A jd \in DOMAIN files : files[jd].wd < nextWd
  BY <1>2, <1>3, <1>8 DEF KeptWatches, Apart
<1>10. ASSUME NEW jd \in DOMAIN filesById' PROVE filesById'[jd].wd < nextWd'
  BY <1>1, <1>2, <1>4, <1>8, <1>9
<1>11. ASSUME NEW jd \in DOMAIN filesById', NEW m \in Dirs,
              watchOf'[m] = filesById'[jd].wd /\ watchOf'[m] # 0
       PROVE  filesById'[jd].name = m
  <2>1. CASE jd = id
    BY <1>1, <1>4, <1>5, <1>11, <2>1
  <2>2. CASE jd # id
    <3>1. /\ filesById'[jd] = files[jd] /\ jd \in Known /\ files[jd].wd = filesById[jd].wd
          /\ files[jd].name = filesById[jd].name
      BY <1>4, <1>11, <2>2 DEF KeptWatches
    <3>2. CASE m # n
      BY <1>3, <1>5, <1>11, <3>1, <3>2 DEF Apart
    <3>3. CASE m = n
      <4>1. files[jd].wd = wd
        BY <1>5, <1>11, <3>1, <3>3
      <4>2. wd = watchOf[n]
        BY <1>1, <1>4, <1>9, <1>11, <2>2, <4>1
      <4> QED
        BY <1>2, <1>3, <1>11, <3>1, <3>3, <4>1, <4>2 DEF Apart
    <3> QED
      BY <3>2, <3>3
  <2> QED
    BY <2>1, <2>2
<1>12. Apart(watchOf', nextWd', filesById')
  BY <1>6, <1>7, <1>10, <1>11 DEF Apart
<1> QED
  BY <1>12 DEF WatchesApart, Apart

\* The number of ids up to each of a finite set tells them apart.
LEMMA Ranks ==
  ASSUME NEW K, IsFiniteSet(K), K \subseteq Nat,
         NEW rank, rank = [id \in K |-> 1 + Cardinality({j \in K : j <= id})]
  PROVE  /\ \A id \in K : rank[id] \in Nat /\ 1 < rank[id] /\ rank[id] < 2 + Cardinality(K)
         /\ \A id, jd \in K : rank[id] = rank[jd] => id = jd
         /\ Cardinality(K) \in Nat
<1> DEFINE below(id) == {j \in K : j <= id}
<1>1. \A id \in K : /\ below(id) \in SUBSET K /\ IsFiniteSet(below(id)) /\ id \in below(id)
                    /\ Cardinality(below(id)) \in Nat
                    /\ Cardinality(below(id)) <= Cardinality(K)
  BY FS_Subset, FS_CardinalityType
<1>2. Cardinality(K) \in Nat
  BY FS_CardinalityType
<1>3. \A id \in K : Cardinality(below(id)) # 0
  BY <1>1, FS_EmptySet
<1>4. \A id \in K : rank[id] = 1 + Cardinality(below(id))
  OBVIOUS
<1>5. ASSUME NEW id \in K, NEW jd \in K, id < jd PROVE rank[id] # rank[jd]
  <2>0. id \in Nat /\ jd \in Nat /\ \A j \in K : j \in Nat
    OBVIOUS
  <2>1. below(id) \in SUBSET below(jd) /\ jd \notin below(id) /\ jd \in below(jd)
    <3>1. \A j \in K : j <= id => j <= jd
      BY <1>5, <2>0
    <3>2. ~(jd <= id) /\ jd <= jd
      BY <1>5, <2>0
    <3> QED
      BY <3>1, <3>2
  <2> HIDE DEF below
  <2>2. Cardinality(below(id)) # Cardinality(below(jd))
    <3>1. below(jd) # below(id)
      BY <2>1
    <3>2. IsFiniteSet(below(jd))
      BY <1>1
    <3> QED
      BY <2>1, <3>1, <3>2, FS_Subset
  <2> QED
    BY <1>1, <1>4, <2>2
<1> HIDE DEF below
<1>6. \A id \in K : rank[id] \in Nat /\ 1 < rank[id] /\ rank[id] < 2 + Cardinality(K)
  BY <1>1, <1>2, <1>3, <1>4
<1>7. \A id, jd \in K : rank[id] = rank[jd] => id = jd
  BY <1>5
<1> QED
  BY <1>2, <1>6, <1>7

\* What setupInotify gives to each file.
SetUp(rank) ==
  /\ \A id \in Known : rank[id] \in Nat /\ 1 < rank[id] /\ rank[id] < nextWd'
  /\ \A id, jd \in Known : rank[id] = rank[jd] => id = jd
  /\ Known' = Known
  /\ \A id \in Known : filesById'[id].wd = rank[id] /\ filesById'[id].name = filesById[id].name
  /\ \A id \in Known : rank[id] \in DOMAIN byWd' /\ byWd'[rank[id]] = id
  /\ \A w \in DOMAIN byWd' : \E id \in Known : w = rank[id]
  /\ watchOf'[Dir] = 1 /\ 1 < nextWd' /\ nextWd' \in Nat
  /\ \A n \in Names : \/ n \notin KnownNames /\ watchOf'[n] = 0
                      \/ \E id \in Known : filesById[id].name = n /\ watchOf'[n] = rank[id]

LEMMA SetUpGives == ASSUME Typed, setupInotify PROVE \E rank : SetUp(rank)
<1> DEFINE rank == [id \in Known |-> 1 + Cardinality({j \in Known : j <= id})]
           of(n) == CHOOSE id \in Known : filesById[id].name = n
           at(w) == CHOOSE id \in Known : rank[id] = w
<1>1. /\ filesById' = [id \in Known |-> [filesById[id] EXCEPT !.wd = rank[id]]]
      /\ byWd' = [w \in {rank[id] : id \in Known} |-> at(w)]
      /\ watchOf' = [n \in Names \cup {Dir} |->
                       IF n = Dir THEN 1 ELSE IF n \notin KnownNames THEN 0 ELSE rank[of(n)]]
      /\ nextWd' = 2 + Cardinality(Known)
  BY DEF setupInotify
<1>2. IsFiniteSet(Known) /\ Known \subseteq Nat /\ \A id \in Known : filesById[id] \in FileInfo
  BY DEF Typed, TablesTyped, FilesTyped, Known
<1>3. /\ \A id \in Known : rank[id] \in Nat /\ 1 < rank[id] /\ rank[id] < 2 + Cardinality(Known)
      /\ \A id, jd \in Known : rank[id] = rank[jd] => id = jd
      /\ Cardinality(Known) \in Nat
  BY <1>2, Ranks
<1>4. \A n \in KnownNames : of(n) \in Known /\ filesById[of(n)].name = n
  BY DEF KnownNames
<1> HIDE DEF rank, of
<1>5. \A id \in Known : at(rank[id]) = id
  BY <1>3
<1> HIDE DEF at
<1>6. Known' = Known
  BY <1>1 DEF Known
<1>7. \A id \in Known : filesById'[id].wd = rank[id] /\ filesById'[id].name = filesById[id].name
  BY <1>1, <1>2 DEF FileInfo
<1>8. /\ \A id \in Known : rank[id] \in DOMAIN byWd' /\ byWd'[rank[id]] = id
      /\ \A w \in DOMAIN byWd' : \E id \in Known : w = rank[id]
  BY <1>1, <1>5
<1>9. watchOf'[Dir] = 1 /\ 1 < nextWd' /\ nextWd' \in Nat
  BY <1>1, <1>3
<1>10. ASSUME NEW n \in Names
       PROVE  \/ n \notin KnownNames /\ watchOf'[n] = 0
              \/ \E id \in Known : filesById[id].name = n /\ watchOf'[n] = rank[id]
  <2>1. n # Dir
    BY FileSyncAssumption
  <2> QED
    BY <1>1, <1>4, <2>1
<1>11. SetUp(rank)
  BY <1>1, <1>3, <1>6, <1>7, <1>8, <1>9, <1>10 DEF SetUp
<1> QED
  BY <1>11

LEMMA SetUpApart == ASSUME Typed, setupInotify PROVE WatchesApart'
<1>1. PICK rank : SetUp(rank)
  BY SetUpGives
<1>2. Known = DOMAIN filesById /\ DOMAIN filesById' = Known
  BY <1>1 DEF SetUp, Known
<1>3. \A n \in Dirs : watchOf'[n] < nextWd'
  BY <1>1 DEF SetUp, Dirs
<1>4. ASSUME NEW m \in Dirs, NEW n \in Dirs, watchOf'[m] = watchOf'[n], watchOf'[m] # 0
      PROVE  m = n
  BY <1>1, <1>4 DEF SetUp, Dirs
<1>5. \A id \in DOMAIN filesById' : filesById'[id].wd < nextWd'
  BY <1>1, <1>2 DEF SetUp
<1>6. ASSUME NEW id \in DOMAIN filesById', NEW n \in Dirs,
             watchOf'[n] = filesById'[id].wd /\ watchOf'[n] # 0
      PROVE  filesById'[id].name = n
  <2>1. CASE n = Dir
    BY <1>1, <1>2, <1>6, <2>1 DEF SetUp
  <2>2. CASE n \in Names
    BY <1>1, <1>2, <1>6, <2>2 DEF SetUp
  <2> QED
    BY <2>1, <2>2 DEF Dirs
<1>7. Apart(watchOf', nextWd', filesById')
  BY <1>3, <1>4, <1>5, <1>6 DEF Apart
<1> QED
  BY <1>7 DEF WatchesApart, Apart

\* A new file object has no watch yet, and one loaded again keeps its own.
LEMMA NewKept == ASSUME Typed, CacheInv, NEW n PROVE KeptWatches(newFile(n))
<1> DEFINE files == newFile(n)
<1>1. /\ nextId \notin Known /\ DOMAIN files = Known \cup {nextId} /\ files[nextId].wd = 0
      /\ \A id \in Known : files[id] = filesById[id]
  BY NewTable
<1> HIDE DEF files
<1>2. KeptWatches(files)
  BY <1>1 DEF KeptWatches
<1> QED
  BY <1>2 DEF files

LEMMA RowKept ==
  ASSUME Typed, CacheInv, NEW id \in DOMAIN rows
  PROVE  /\ KeptWatches(fileFromRow(id))
         /\ fileFromRow(id)[id].wd = IF id \in Known THEN filesById[id].wd ELSE 0
<1> DEFINE files == fileFromRow(id)
<1>1. /\ DOMAIN files = Known \cup {id} /\ files[id].name = rows[id].name
      /\ \A jd \in Known \ {id} : files[jd] = filesById[jd]
  BY FromRow
<1>2. files[id].wd = IF id \in Known THEN filesById[id].wd ELSE 0
  BY DEF fileFromRow, With
<1>3. id \in Known => rows[id].name = filesById[id].name
  BY DEF CacheInv, SameNames, Known
<1> HIDE DEF files
<1>4. KeptWatches(files)
  BY <1>1, <1>2, <1>3 DEF KeptWatches
<1> QED
  BY <1>2, <1>4 DEF files

LEMMA StepApart == Typed /\ CacheInv /\ WatchesApart /\ [Next]_vars => WatchesApart'
<1> SUFFICES ASSUME Typed, CacheInv, WatchesApart, [Next]_vars PROVE WatchesApart'
  OBVIOUS
<1>0. /\ watchOf \in [Dirs -> Nat] /\ FilesTyped(filesById) /\ Known = DOMAIN filesById
  BY DEF Typed, OutsideTyped, TablesTyped, Known, Dirs
<1>1. CASE UNCHANGED <<watchOf, nextWd>> /\ KeptWatches(filesById')
  BY <1>1, ApartLess
<1>2. KeptWatches(filesById) /\ \A id : KeptWatches(Without(filesById, id))
  BY <1>0 DEF KeptWatches, Without, Restrict
<1>3. CASE UNCHANGED <<watchOf, nextWd, filesById>>
  BY <1>1, <1>2, <1>3
<1>4. CASE Startup
  <2>1. CASE connect
    <3>1. filesById' = <<>> \/ \A id \in DOMAIN filesById' : filesById'[id].wd = 0
      BY <2>1 DEF connect
    <3>2. KeptWatches(filesById')
      BY <3>1 DEF KeptWatches
    <3> QED
      BY <1>1, <2>1, <3>2 DEF connect
  <2>2. CASE setupInotify
    BY <2>2, SetUpApart
  <2>3. CASE listen
    BY <1>3, <2>3 DEF listen, dirState, indexes
  <2> QED
    BY <1>4, <2>1, <2>2, <2>3 DEF Startup
<1>5. CASE R
  <2>1. CASE StartScript \/ EndScript \/ \E n \in Names : RWrite(n)
    BY <1>3, <2>1 DEF StartScript, EndScript, RWrite, dirState, indexes
  <2>2. ASSUME NEW n \in Names, RRemove(n) PROVE WatchesApart'
    <3>1. \A m \in Dirs : watchOf'[m] \in {0, watchOf[m]}
      BY <1>0, <2>2 DEF RRemove
    <3> QED
      BY <1>2, <2>2, <3>1, ApartLess DEF RRemove, indexes
  <2>3. ASSUME NEW n \in Names, findOrAddFile(n) PROVE WatchesApart'
    <3>1. UNCHANGED <<watchOf, nextWd>> /\ (filesById' = newFile(n) \/ UNCHANGED filesById)
      BY <2>3 DEF findOrAddFile, dirState
    <3> QED
      BY <1>1, <1>3, <3>1, NewKept
  <2> QED
    BY <1>5, <2>1, <2>2, <2>3 DEF R
<1>6. CASE Others
  BY <1>3, <1>6 DEF Others, ForeignInsert, ForeignUpdate, ForeignDelete, Foreign, dirState,
                    indexes
<1>7. CASE Inotify
  <2>1. CASE handleInotifyEvent \/ CutName \/ CutLongName \/ CreateSkipped \/ CreateFailed \/ NoEntry
             \/ EndBatch
    BY <1>3, <2>1 DEF handleInotifyEvent, CutName, CutLongName, CreateSkipped, CreateFailed,
       NoEntry, EndBatch, dirState, indexes
  <2>2. CASE CreateInserted
    <3> DEFINE files == newFile(Head(batch).name)
    <3>1. /\ watchFile(nextId, files) \/ UNCHANGED <<watchOf, nextWd, filesById>>
          /\ Head(batch).name \in Names
      BY <2>2 DEF CreateInserted, Typed, OutsideTyped, DiskTyped, Present
    <3>2. FilesTyped(files) /\ nextId \in DOMAIN files /\ KeptWatches(files)
      BY <3>1, InsertTypes, NewKept
    <3> HIDE DEF files
    <3> QED
      BY <1>3, <3>1, <3>2, ApartMore
  <2>3. CASE CloseWrite
    <3>1. UNCHANGED <<watchOf, nextWd>>
      BY <2>3 DEF CloseWrite, dirState
    <3>2. \/ UNCHANGED filesById
          \/ \E id \in Known : \E v : filesById' = [filesById EXCEPT ![id].version = v]
      BY <2>3 DEF CloseWrite, updateDBFile
    <3>3. KeptWatches(filesById')
      BY <1>0, <1>2, <3>2 DEF KeptWatches, FilesTyped, FileInfo
    <3> QED
      BY <1>1, <3>1, <3>3
  <2>4. CASE DeleteSelf
    BY <1>1, <1>2, <2>4 DEF DeleteSelf, removeDBFile, dirState
  <2> QED
    BY <1>7, <2>1, <2>2, <2>3, <2>4 DEF Inotify
<1>8. CASE Notifications
  <2>1. CASE handleDBNotifications \/ noteUnknown \/ EndNotes
    BY <1>3, <2>1 DEF handleDBNotifications, noteUnknown, EndNotes, dirState, indexes
  <2>2. CASE noteDelete
    <3>1. /\ \A m \in Dirs : watchOf'[m] \in {0, watchOf[m]}
          /\ filesById' = Without(filesById, noted) /\ nextWd' = nextWd
      BY <1>0, <2>2 DEF noteDelete
    <3> QED
      BY <1>2, <3>1, ApartLess
  <2>3. CASE noteUpdate
    <3>1. UNCHANGED <<watchOf, nextWd>>
      BY <2>3 DEF noteUpdate
    <3>2. UNCHANGED filesById \/ (noted \in DOMAIN rows /\ filesById' = fileFromRow(noted))
      BY <2>3 DEF noteUpdate
    <3> QED
      BY <1>1, <1>3, <3>1, <3>2, RowKept
  <2>4. CASE noteInsert
    <3>1. PICK ok \in BOOLEAN :
            CASE ok /\ noted \in DOMAIN rows -> watchFile(noted, fileFromRow(noted))
              [] ~(ok /\ noted \in DOMAIN rows) /\ noted \in Known ->
                   watchFile(noted, filesById) \/ UNCHANGED <<watchOf, nextWd, filesById>>
              [] OTHER -> UNCHANGED <<watchOf, nextWd, filesById>>
      BY <2>4 DEF noteInsert, dirState
    <3>2. CASE ok /\ noted \in DOMAIN rows
      <4> DEFINE files == fileFromRow(noted)
      <4>1. FilesTyped(files) /\ noted \in DOMAIN files /\ KeptWatches(files)
        BY <3>2, FileFromRowTypes, RowKept
      <4>2. watchFile(noted, files)
        BY <3>1, <3>2
      <4> HIDE DEF files
      <4> QED
        BY <4>1, <4>2, ApartMore
    <3>3. CASE ~(ok /\ noted \in DOMAIN rows) /\ noted \in Known
      BY <1>0, <1>2, <1>3, <3>1, <3>3, ApartMore
    <3>4. CASE ~(ok /\ noted \in DOMAIN rows) /\ noted \notin Known
      BY <1>3, <3>1, <3>4
    <3> QED
      BY <3>2, <3>3, <3>4
  <2> QED
    BY <1>8, <2>1, <2>2, <2>3, <2>4 DEF Notifications
<1>9. CASE handleIgnoreFSNotesOff \/ UNCHANGED vars
  BY <1>3, <1>9 DEF handleIgnoreFSNotesOff, vars, dirState, indexes
<1> QED
  BY <1>4, <1>5, <1>6, <1>7, <1>8, <1>9 DEF Next

LEMMA AlwaysApart == Spec => []WatchesApart
<1>1. Init => WatchesApart
  <2> SUFFICES ASSUME Init PROVE WatchesApart
    OBVIOUS
  <2>1. /\ nextWd = 1 /\ DOMAIN filesById = {} /\ \A n \in Dirs : watchOf[n] = 0
    BY DEF Init, Dirs
  <2> QED
    BY <2>1 DEF WatchesApart, Apart
<1> QED
  BY <1>1, StepApart, AlwaysTyped, AlwaysCache, PTL DEF Spec
=============================================================================
