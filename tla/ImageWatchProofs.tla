--------------------------- MODULE ImageWatchProofs ---------------------------
(* Proofs about ImageWatch, for every set of images and every bound. *)
EXTENDS ImageWatch, SequenceTheorems, TLAPS

-----------------------------------------------------------------------------
(* The event queue. *)

\* What queueing an event does to the type of the queue.
LEMMA QueuedType ==
  ASSUME NEW q \in Seq(Events), NEW e \in Events
  PROVE  Queued(q, e) \in Seq(Events)
  BY DEF Queued

LEMMA QueuedOtherType ==
  ASSUME NEW q \in Seq(Events)
  PROVE  Queued(q, Other) \in Seq(Events)
  <1>1. Other \in Events
    BY DEF Events
  <1> QED
    BY <1>1, QueuedType

\* Opening an image file queues at most its IN_CREATE.
LEMMA OpensFileType ==
  ASSUME TypeOK, NEW i \in Images
  PROVE  OpensFile(i) \in Seq(Events)
  <1>1. CreateEvent(i) \in Events
    BY DEF CreateEvent, Events
  <1>2. inotifyQ \in Seq(Events)
    BY DEF TypeOK, FilesOK, QueuesOK, TablesOK
  <1>3. Queued(inotifyQ, CreateEvent(i)) \in Seq(Events)
    BY <1>1, <1>2, QueuedType
  <1> QED
    BY <1>2, <1>3 DEF OpensFile

\* The batch of an insert is a natural number, and never 0.
LEMMA BatchForInsertType ==
  ASSUME TypeOK
  PROVE  BatchForInsert \in Nat \ {0}
  <1>1. sessionimage \in Seq(Row) /\ sessionImageBatch \in Nat
    BY DEF TypeOK, FilesOK, QueuesOK, TablesOK
  <1>2. ASSUME sessionimage # <<>>
        PROVE  MaxBatchId \in Nat
    <2>1. Len(sessionimage) \in 1 .. Len(sessionimage)
      BY <1>1, <1>2, EmptySeq
    <2>2. sessionimage[Len(sessionimage)] \in Row
      BY <1>1, <2>1, ElementOfSeq
    <2> QED
      BY <1>2, <2>2 DEF MaxBatchId, Row
  <1>3. MaxBatchId \in Nat
    BY <1>2, ConstantsAssumption DEF MaxBatchId
  <1> QED
    BY <1>1, <1>3 DEF BatchForInsert

\* What an insert does to the rows.
LEMMA InsertRows ==
  ASSUME TypeOK, NEW i \in Images, Insert(i)
  PROVE  /\ sessionimage' \in Seq(Row)
         /\ Len(sessionimage') = Len(sessionimage) + 1
         /\ Len(sessionimage) \in Nat
         /\ \A id \in 1 .. Len(sessionimage) : sessionimage'[id] = sessionimage[id]
         /\ sessionimage'[Len(sessionimage) + 1].batch = BatchForInsert
         /\ sessionimage'[Len(sessionimage) + 1].by = written[i]
  <1>1. sessionimage \in Seq(Row) /\ written[i] \in 0 .. MaxScripts
    BY DEF TypeOK, FilesOK, QueuesOK, TablesOK
  <1> DEFINE row == [batch |-> BatchForInsert, by |-> written[i]]
  <1>2. row \in Row
    BY <1>1, BatchForInsertType DEF Row
  <1>3. sessionimage' = Append(sessionimage, row)
    BY DEF Insert
  <1>4. row.batch = BatchForInsert /\ row.by = written[i]
    OBVIOUS
  <1> HIDE DEF row
  <1>5. /\ sessionimage' \in Seq(Row)
        /\ Len(sessionimage') = Len(sessionimage) + 1
        /\ Len(sessionimage) \in Nat
        /\ \A id \in 1 .. Len(sessionimage) : sessionimage'[id] = sessionimage[id]
        /\ sessionimage'[Len(sessionimage) + 1] = row
    BY <1>1, <1>2, <1>3
  <1> QED
    BY <1>4, <1>5

\* The state variables an insert changes keep their types.
LEMMA InsertType ==
  ASSUME TypeOK, NEW i \in Images, Insert(i)
  PROVE  /\ onDisk' \subseteq Images
         /\ watchOf' \in [Images -> Nat]
         /\ inotifyQ' \in Seq(Events)
         /\ imageIds' \subseteq 1 .. Len(sessionimage')
         /\ sessionImageBatch' \in Nat
         /\ sessionimage' \in Seq(Row)
         /\ unseen' \subseteq onDisk'
  <1>1. imageIds' \subseteq 1 .. Len(sessionimage')
    <2> SUFFICES ASSUME NEW id \in imageIds'
                 PROVE  id \in 1 .. Len(sessionimage')
      OBVIOUS
    <2>1. id \in imageIds \/ id = Len(sessionimage) + 1
      BY DEF Insert
    <2>2. id \in imageIds => id \in 1 .. Len(sessionimage)
      BY DEF TypeOK, FilesOK, QueuesOK, TablesOK
    <2> QED
      BY <2>1, <2>2, InsertRows
  <1>2. Queued(inotifyQ, Other) \in Seq(Events)
    BY QueuedOtherType DEF TypeOK, FilesOK, QueuesOK, TablesOK
  <1>3. /\ onDisk' \subseteq Images
        /\ watchOf' \in [Images -> Nat]
        /\ unseen' \subseteq onDisk'
    BY DEF Insert, TypeOK, FilesOK
  <1>4. inotifyQ' \in Seq(Events) /\ sessionImageBatch' \in Nat
    BY <1>2, BatchForInsertType DEF Insert
  <1> QED
    BY <1>1, <1>3, <1>4, InsertRows

LEMMA SkipEmptyType ==
  ASSUME TypeOK, NEW p \in pending, p.img \in onDisk, SkipEmpty(p)
  PROVE  /\ onDisk' = onDisk
         /\ watchOf' \in [Images -> Nat]
         /\ inotifyQ' \in Seq(Events)
         /\ UNCHANGED tables
         /\ unseen' \subseteq onDisk'
  <1>1. p.img \in Images
    BY DEF TypeOK, FilesOK, QueuesOK, TablesOK
  <1>2. inotifyQ \in Seq(Events)
    BY DEF TypeOK, FilesOK, QueuesOK, TablesOK
  <1>3. Queued(inotifyQ, Other) \in Seq(Events)
    BY <1>1, <1>2, QueuedOtherType
  <1>4. inotifyQ' \in Seq(Events)
    BY <1>2, <1>3 DEF SkipEmpty
  <1>5. watchOf \in [Images -> Nat] /\ unseen \subseteq onDisk
    BY DEF TypeOK, FilesOK, QueuesOK, TablesOK
  <1>6. watchOf' \in [Images -> Nat]
    BY <1>1, <1>5 DEF SkipEmpty
  <1>7. onDisk' = onDisk /\ unseen' \subseteq onDisk'
    BY <1>5 DEF SkipEmpty
  <1> QED
    BY <1>4, <1>6, <1>7 DEF SkipEmpty

-----------------------------------------------------------------------------
(* Queues as the sets of their events. *)

Elems(q) == {q[n] : n \in 1 .. Len(q)}

LEMMA AppendElems ==
  ASSUME NEW q \in Seq(Events), NEW e
  PROVE  Elems(Append(q, e)) = Elems(q) \cup {e}
<1>1. Len(q) \in Nat
  OBVIOUS
<1>2. /\ Len(Append(q, e)) = Len(q) + 1 /\ Append(q, e)[Len(q) + 1] = e
      /\ \A n \in 1 .. Len(q) : Append(q, e)[n] = q[n]
  BY <1>1
<1>3. Elems(Append(q, e)) \subseteq Elems(q) \cup {e}
  <2> SUFFICES ASSUME NEW x \in Elems(Append(q, e)) PROVE x \in Elems(q) \cup {e}
    OBVIOUS
  <2>1. PICK n \in 1 .. Len(q) + 1 : x = Append(q, e)[n]
    BY <1>2 DEF Elems
  <2>2. n \in 1 .. Len(q) \/ n = Len(q) + 1
    BY <1>1
  <2> QED BY <1>2, <2>1, <2>2 DEF Elems
<1>4. Elems(q) \cup {e} \subseteq Elems(Append(q, e))
  <2>1. Len(q) + 1 \in 1 .. Len(q) + 1 /\ 1 .. Len(q) \subseteq 1 .. Len(q) + 1
    BY <1>1
  <2> QED BY <1>2, <2>1 DEF Elems
<1> QED BY <1>3, <1>4

\* Queueing adds the event, whether or not the kernel merges it.
LEMMA QueuedElems ==
  ASSUME NEW q \in Seq(Events), NEW e
  PROVE  Elems(Queued(q, e)) = Elems(q) \cup {e}
<1>1. q # <<>> => Len(q) \in 1 .. Len(q)
  BY EmptySeq
<1>2. CASE q # <<>> /\ q[Len(q)] = e
  BY <1>1, <1>2 DEF Queued, Elems
<1>3. CASE ~(q # <<>> /\ q[Len(q)] = e)
  BY <1>3, AppendElems DEF Queued
<1> QED BY <1>2, <1>3

\* Handling an event takes the first from the batch.
LEMMA TailElems ==
  ASSUME NEW q \in Seq(Events), q # <<>>
  PROVE  /\ Head(q) \in Events /\ Elems(q) = {Head(q)} \cup Elems(Tail(q))
<1>1. /\ Len(q) \in Nat \ {0} /\ Head(q) = q[1] /\ Len(Tail(q)) = Len(q) - 1
      /\ \A n \in 1 .. Len(q) - 1 : Tail(q)[n] = q[n + 1]
  BY EmptySeq
<1>2. 1 \in 1 .. Len(q) /\ Head(q) \in Events
  BY <1>1
<1>3. ASSUME NEW x \in Elems(q) PROVE x \in {Head(q)} \cup Elems(Tail(q))
  <2>1. PICK n \in 1 .. Len(q) : x = q[n]
    BY DEF Elems
  <2>2. CASE n = 1
    BY <1>1, <2>1, <2>2
  <2>3. CASE n # 1
    <3>1. n - 1 \in 1 .. Len(q) - 1 /\ (n - 1) + 1 = n
      BY <1>1, <2>3
    <3> QED BY <1>1, <2>1, <3>1 DEF Elems
  <2> QED BY <2>2, <2>3
<1>4. ASSUME NEW x \in Elems(Tail(q)) PROVE x \in Elems(q)
  <2>1. PICK n \in 1 .. Len(q) - 1 : x = q[n + 1]
    BY <1>1, <1>4 DEF Elems
  <2>2. n + 1 \in 1 .. Len(q)
    BY <1>1
  <2> QED BY <2>1, <2>2 DEF Elems
<1> QED BY <1>1, <1>2, <1>3, <1>4 DEF Elems

LEMMA EmptyElems == Elems(<<>>) = {}
  BY DEF Elems

\* A queue is the part that is read and the part that is left.
LEMMA SplitElems ==
  ASSUME NEW q \in Seq(Events), NEW k \in 0 .. Len(q)
  PROVE  /\ SubSeq(q, 1, k) \in Seq(Events) /\ SubSeq(q, k + 1, Len(q)) \in Seq(Events)
         /\ Elems(q) = Elems(SubSeq(q, 1, k)) \cup Elems(SubSeq(q, k + 1, Len(q)))
<1>1. Len(q) \in Nat /\ k \in Nat /\ k <= Len(q)
  OBVIOUS
<1> DEFINE a == SubSeq(q, 1, k)
           b == SubSeq(q, k + 1, Len(q))
<1>2. /\ a \in Seq(Events) /\ Len(a) = k
      /\ \A n \in 1 .. k : a[n] = q[n]
  BY <1>1
<1>3. /\ b \in Seq(Events) /\ Len(b) = Len(q) - k
      /\ \A n \in 1 .. Len(q) - k : b[n] = q[k + n]
  BY <1>1
<1> HIDE DEF a, b
<1>4. ASSUME NEW x \in Elems(q) PROVE x \in Elems(a) \cup Elems(b)
  <2>1. PICK n \in 1 .. Len(q) : x = q[n]
    BY DEF Elems
  <2>2. CASE n <= k
    <3>1. n \in 1 .. k
      BY <1>1, <2>2
    <3> QED BY <1>2, <2>1, <3>1 DEF Elems
  <2>3. CASE n > k
    <3>1. n - k \in 1 .. Len(q) - k /\ k + (n - k) = n
      BY <1>1, <2>3
    <3> QED BY <1>3, <2>1, <3>1 DEF Elems
  <2> QED BY <1>1, <2>2, <2>3
<1>5. ASSUME NEW x \in Elems(a) PROVE x \in Elems(q)
  <2>1. PICK n \in 1 .. k : x = q[n]
    BY <1>2, <1>5 DEF Elems
  <2> QED BY <1>1, <2>1 DEF Elems
<1>6. ASSUME NEW x \in Elems(b) PROVE x \in Elems(q)
  <2>1. PICK n \in 1 .. Len(q) - k : x = q[k + n]
    BY <1>3, <1>6 DEF Elems
  <2>2. k + n \in 1 .. Len(q)
    BY <1>1
  <2> QED BY <2>1, <2>2 DEF Elems
<1>7. a \in Seq(Events) /\ b \in Seq(Events) /\ Elems(q) = Elems(a) \cup Elems(b)
  BY <1>2, <1>3, <1>4, <1>5, <1>6
<1> QED BY <1>7 DEF a, b

\* One queue behind another has the events of both.
LEMMA ConcatElems ==
  ASSUME NEW a \in Seq(Events), NEW b \in Seq(Events)
  PROVE  a \o b \in Seq(Events) /\ Elems(a \o b) = Elems(a) \cup Elems(b)
<1>1. /\ a \o b \in Seq(Events) /\ Len(a \o b) = Len(a) + Len(b)
      /\ Len(a) \in Nat /\ Len(b) \in Nat
      /\ \A n \in 1 .. Len(a) : (a \o b)[n] = a[n]
      /\ \A n \in 1 .. Len(b) : (a \o b)[Len(a) + n] = b[n]
  BY ConcatProperties
<1>2. ASSUME NEW x \in Elems(a \o b) PROVE x \in Elems(a) \cup Elems(b)
  <2>1. PICK n \in 1 .. Len(a) + Len(b) : x = (a \o b)[n]
    BY <1>1 DEF Elems
  <2>2. CASE n <= Len(a)
    <3>1. n \in 1 .. Len(a)
      BY <1>1, <2>2
    <3> QED BY <1>1, <2>1, <3>1 DEF Elems
  <2>3. CASE n > Len(a)
    <3>1. n - Len(a) \in 1 .. Len(b) /\ Len(a) + (n - Len(a)) = n
      BY <1>1, <2>3
    <3> QED BY <1>1, <2>1, <3>1 DEF Elems
  <2> QED BY <1>1, <2>2, <2>3
<1>3. ASSUME NEW x \in Elems(a) \cup Elems(b) PROVE x \in Elems(a \o b)
  <2>1. ASSUME NEW n \in 1 .. Len(a), x = a[n] PROVE x \in Elems(a \o b)
    <3>1. n \in 1 .. Len(a) + Len(b)
      BY <1>1
    <3> QED BY <1>1, <2>1, <3>1 DEF Elems
  <2>2. ASSUME NEW n \in 1 .. Len(b), x = b[n] PROVE x \in Elems(a \o b)
    <3>1. Len(a) + n \in 1 .. Len(a) + Len(b)
      BY <1>1
    <3> QED BY <1>1, <2>2, <3>1 DEF Elems
  <2> QED BY <1>3, <2>1, <2>2 DEF Elems
<1> QED BY <1>1, <1>2, <1>3

LEMMA SingleElems ==
  ASSUME NEW e \in Events
  PROVE  <<e>> \in Seq(Events) /\ Elems(<<e>>) = {e}
<1>1. <<e>> \in Seq(Events) /\ Len(<<e>>) = 1 /\ <<e>>[1] = e
  OBVIOUS
<1> QED BY <1>1 DEF Elems

LEMMA ImagesOfElems ==
  ASSUME NEW q
  PROVE  ImagesOf(q) = {i \in Images : CreateEvent(i) \in Elems(q)}
  BY DEF ImagesOf, Elems

LEMMA LeastType ==
  ASSUME NEW q \in Seq(Events)
  PROVE  Least(q) \in 0 .. Len(q)
<1>1. ReadMin \in Nat /\ Len(q) \in Nat
  BY ConstantsAssumption
<1>2. /\ ReadMin <= Len(q) => Min({ReadMin, Len(q)}) = ReadMin
      /\ Len(q) <= ReadMin => Min({ReadMin, Len(q)}) = Len(q)
  BY <1>1 DEF Min
<1> QED BY <1>1, <1>2 DEF Least

\* A read takes every event from the two queues to the batch or leaves it where
\* the next read finds it, but for those it drops and the one it cuts.  It notes
\* the script when it leaves something.
LEMMA ReadsEvents ==
  ASSUME TypeOK, NEW ignored \in BOOLEAN, Reads(ignored)
  PROVE  /\ inotifyQ' \in Seq(Events) /\ input' \in Seq(Events) /\ batch' \in Seq(Events)
         /\ Elems(inotifyQ') \subseteq Elems(inotifyQ)
         /\ Elems(input') \subseteq Elems(inotifyQ) \cup Elems(input) \cup {CutName}
         /\ Elems(batch') \subseteq Elems(inotifyQ) \cup Elems(input) \cup
                                    (IF input' = <<>> THEN {} ELSE {Header})
         /\ ignored => batch' = <<>>
         /\ unseen \subseteq unseen' /\ unseen' \subseteq unseen \cup onDisk
         /\ \A i \in onDisk :
              CreateEvent(i) \in Elems(inotifyQ) \cup Elems(input) =>
                \/ CreateEvent(i) \in Elems(inotifyQ') \cup Elems(input') \cup Elems(batch')
                \/ i \in unseen'
         /\ late \subseteq late' /\ late' \subseteq late \cup {script}
         /\ (input' # <<>> \/ inotifyQ' # <<>>) => script \in late'
<1>1. /\ inotifyQ \in Seq(Events) /\ input \in Seq(Events) /\ onDisk \subseteq Images
      /\ Len(inotifyQ) \in Nat
  BY DEF TypeOK, QueuesOK, FilesOK
<1> PICK k \in 1 .. Len(inotifyQ) :
      LET got == input \o SubSeq(inotifyQ, 1, k)
      IN
      /\ inotifyQ' = SubSeq(inotifyQ, k + 1, Len(inotifyQ))
      /\ \E j \in Least(got) .. Len(got), cut \in BOOLEAN :
           LET whole == SubSeq(got, 1, j)
               left  == SubSeq(got, j + 1, Len(got))
           IN
           /\ cut => left # <<>> /\ Head(left).kind \in {"create", "other"}
           /\ input' = IF cut THEN <<CutName>> \o Tail(left) ELSE left
           /\ batch' = IF ignored THEN <<>>
                       ELSE IF cut THEN Append(whole, Header) ELSE whole
           /\ unseen' = unseen \cup (onDisk \cap
                ((IF ignored THEN ImagesOf(whole) ELSE {}) \cup
                 (IF cut THEN ImagesOf(<<Head(left)>>) ELSE {})))
  BY DEF Reads, TakesFrom
<1> DEFINE taken == SubSeq(inotifyQ, 1, k)
           got == input \o taken
<1>2. PICK j \in Least(got) .. Len(got), cut \in BOOLEAN :
           LET whole == SubSeq(got, 1, j)
               left  == SubSeq(got, j + 1, Len(got))
           IN
           /\ cut => left # <<>> /\ Head(left).kind \in {"create", "other"}
           /\ input' = IF cut THEN <<CutName>> \o Tail(left) ELSE left
           /\ batch' = IF ignored THEN <<>>
                       ELSE IF cut THEN Append(whole, Header) ELSE whole
           /\ unseen' = unseen \cup (onDisk \cap
                ((IF ignored THEN ImagesOf(whole) ELSE {}) \cup
                 (IF cut THEN ImagesOf(<<Head(left)>>) ELSE {})))
  OBVIOUS
<1> DEFINE whole == SubSeq(got, 1, j)
           left  == SubSeq(got, j + 1, Len(got))
<1>3. /\ taken \in Seq(Events) /\ inotifyQ' \in Seq(Events)
      /\ Elems(inotifyQ) = Elems(taken) \cup Elems(inotifyQ')
  <2>1. k \in 0 .. Len(inotifyQ)
    BY <1>1
  <2> QED BY <1>1, <2>1, SplitElems
<1>4. got \in Seq(Events) /\ Elems(got) = Elems(input) \cup Elems(taken)
  <2> HIDE DEF taken
  <2> QED BY <1>1, <1>3, ConcatElems
<1>5. /\ whole \in Seq(Events) /\ left \in Seq(Events)
      /\ Elems(got) = Elems(whole) \cup Elems(left)
  <2> HIDE DEF got
  <2>1. j \in 0 .. Len(got)
    BY <1>4, LeastType
  <2> QED BY <1>4, <2>1, SplitElems
<1>6. /\ cut => left # <<>>
      /\ input' = IF cut THEN <<CutName>> \o Tail(left) ELSE left
      /\ batch' = IF ignored THEN <<>> ELSE IF cut THEN Append(whole, Header) ELSE whole
      /\ unseen' = unseen \cup (onDisk \cap
           ((IF ignored THEN ImagesOf(whole) ELSE {}) \cup
            (IF cut THEN ImagesOf(<<Head(left)>>) ELSE {})))
  BY <1>2
<1> HIDE DEF taken, got, whole, left
<1>7. CutName \in Events /\ Header \in Events
  BY DEF Events
<1>8. ASSUME cut
      PROVE  /\ input' \in Seq(Events) /\ input' # <<>>
             /\ Elems(input') = {CutName} \cup Elems(Tail(left))
             /\ Elems(left) = {Head(left)} \cup Elems(Tail(left))
             /\ ImagesOf(<<Head(left)>>) = {i \in Images : CreateEvent(i) = Head(left)}
  <2>1. left # <<>> /\ input' = <<CutName>> \o Tail(left)
    BY <1>6, <1>8
  <2>2. Head(left) \in Events /\ Elems(left) = {Head(left)} \cup Elems(Tail(left))
    BY <1>5, <2>1, TailElems
  <2>3. Tail(left) \in Seq(Events)
    BY <1>5, <2>1
  <2>4. <<CutName>> \in Seq(Events) /\ Elems(<<CutName>>) = {CutName}
    BY <1>7, SingleElems
  <2>5. input' \in Seq(Events) /\ Elems(input') = {CutName} \cup Elems(Tail(left))
    BY <2>1, <2>3, <2>4, ConcatElems
  <2>6. ImagesOf(<<Head(left)>>) = {i \in Images : CreateEvent(i) = Head(left)}
    BY <2>2, SingleElems, ImagesOfElems
  <2> QED BY <2>2, <2>5, <2>6, EmptyElems
<1>9. /\ batch' \in Seq(Events)
      /\ ignored => batch' = <<>>
      /\ ~ignored => Elems(batch') = Elems(whole) \cup (IF cut THEN {Header} ELSE {})
  <2>1. /\ Append(whole, Header) \in Seq(Events)
        /\ Elems(Append(whole, Header)) = Elems(whole) \cup {Header}
    BY <1>5, <1>7, AppendElems
  <2>2. CASE ignored
    BY <1>6, <2>2, EmptySeq
  <2>3. CASE ~ignored /\ cut
    BY <1>6, <2>1, <2>3
  <2>4. CASE ~ignored /\ ~cut
    BY <1>5, <1>6, <2>4
  <2> QED BY <2>2, <2>3, <2>4
<1>10. input' \in Seq(Events)
  BY <1>5, <1>6, <1>8
<1>11. Elems(input') \subseteq Elems(left) \cup {CutName}
  BY <1>6, <1>8
<1>12. Elems(batch') \subseteq Elems(whole) \cup (IF input' = <<>> THEN {} ELSE {Header})
  BY <1>8, <1>9, EmptyElems
<1>13. ASSUME NEW i \in onDisk, CreateEvent(i) \in Elems(inotifyQ) \cup Elems(input)
       PROVE  \/ CreateEvent(i) \in Elems(inotifyQ') \cup Elems(input') \cup Elems(batch')
              \/ i \in unseen'
  <2>0. i \in Images
    BY <1>1
  <2>1. CreateEvent(i) \in Elems(whole) \cup Elems(left) \cup Elems(inotifyQ')
    BY <1>3, <1>4, <1>5, <1>13
  <2>2. CASE CreateEvent(i) \in Elems(whole)
    BY <1>6, <1>9, <2>0, <2>2, ImagesOfElems
  <2>3. CASE CreateEvent(i) \in Elems(left)
    BY <1>6, <1>8, <2>0, <2>3
  <2> QED BY <2>1, <2>2, <2>3
<1>14. /\ late \subseteq late' /\ late' \subseteq late \cup {script}
       /\ (input' # <<>> \/ inotifyQ' # <<>>) => script \in late'
  BY DEF Reads, TakesFrom
<1> QED
  BY <1>1, <1>3, <1>4, <1>5, <1>6, <1>9, <1>10, <1>11, <1>12, <1>13, <1>14

-----------------------------------------------------------------------------
(* Type correctness: TypeOK is inductive. *)

LEMMA TypeOKInit == Init => TypeOK
  <1> SUFFICES ASSUME Init PROVE TypeOK
    OBVIOUS
  <1>1. FilesOK
    BY ConstantsAssumption DEF Init, FilesOK
  <1>2. QueuesOK
    BY EmptySeq DEF Init, QueuesOK
  <1>3. TablesOK
    BY EmptySeq DEF Init, TablesOK
  <1>4. CountersOK
    BY ConstantsAssumption DEF Init, CountersOK
  <1>5. FlagsOK
    BY DEF Init, FlagsOK
  <1>6. ReportsOK
    BY EmptySeq DEF Init, ReportsOK
  <1> QED
    BY <1>1, <1>2, <1>3, <1>4, <1>5, <1>6 DEF TypeOK

LEMMA TypeOKStep == TypeOK /\ [Next]_vars => TypeOK'
  <1> SUFFICES ASSUME TypeOK, [Next]_vars PROVE TypeOK'
    OBVIOUS
  <1> USE DEF files, tables, history
  <1>t. FilesOK /\ QueuesOK /\ TablesOK /\ CountersOK /\ FlagsOK /\ ReportsOK
    BY DEF TypeOK
  <1>1. CASE BeginScript
    <2>1. FilesOK'
      BY <1>t, <1>1 DEF BeginScript, StartScript, ResetWatch, FilesOK
    <2>2. QueuesOK'
      BY <1>t, <1>1 DEF BeginScript, StartScript, ResetWatch, QueuesOK
    <2>3. TablesOK'
      BY <1>t, <1>1 DEF BeginScript, StartScript, ResetWatch, TablesOK
    <2>4. CountersOK'
      <3>1. script' \in 0 .. MaxScripts /\ script' # 0
        BY <1>t, <1>1, ConstantsAssumption DEF BeginScript, StartScript, CountersOK
      <3>2. late' \subseteq 0 .. MaxScripts
        BY <1>t, <1>1, <3>1 DEF BeginScript, StartScript, CountersOK
      <3> QED
        BY <1>t, <1>1, <3>1, <3>2 DEF BeginScript, StartScript, ResetWatch, CountersOK
    <2>5. FlagsOK'
      BY <1>t, <1>1 DEF BeginScript, StartScript, ResetWatch, FlagsOK
    <2>6. ReportsOK'
      BY <1>t, <1>1 DEF BeginScript, StartScript, ResetWatch, ReportsOK
    <2> QED
      BY <2>1, <2>2, <2>3, <2>4, <2>5, <2>6 DEF TypeOK
  <1>2. ASSUME NEW i \in Images, Draw(i)
       PROVE  TypeOK'
    <2>1. FilesOK'
      BY <1>t, <1>2 DEF Draw, Unnoticed, FilesOK, CountersOK
    <2>2. QueuesOK'
      <3>1. OpensFile(i) \in Seq(Events)
        BY OpensFileType
      <3>2. CloseWriteEvent(i, watchOf[i]) \in Events
        BY <1>t DEF CloseWriteEvent, Events, FilesOK
      <3>3. Queued(OpensFile(i), CloseWriteEvent(i, watchOf[i])) \in Seq(Events)
        BY <3>1, <3>2, QueuedType
      <3>4. inotifyQ' \in Seq(Events)
        BY <1>2, <3>1, <3>3 DEF Draw
      <3> QED
        BY <1>t, <1>2, <3>4 DEF Draw, QueuesOK
    <2>3. TablesOK'
      BY <1>t, <1>2 DEF Draw, TablesOK
    <2>4. CountersOK'
      BY <1>t, <1>2, ConstantsAssumption DEF Draw, CountersOK
    <2>5. FlagsOK'
      BY <1>t, <1>2 DEF Draw, FlagsOK
    <2>6. ReportsOK'
      BY <1>t, <1>2 DEF Draw, ReportsOK
    <2> QED
      BY <2>1, <2>2, <2>3, <2>4, <2>5, <2>6 DEF TypeOK
  <1>3. ASSUME NEW i \in Images, OpenPage(i)
       PROVE  TypeOK'
    <2>1. FilesOK'
      BY <1>t, <1>3, ConstantsAssumption DEF OpenPage, Unnoticed, FilesOK, CountersOK
    <2>2. QueuesOK'
      BY <1>t, <1>3, OpensFileType DEF OpenPage, QueuesOK
    <2>3. TablesOK'
      BY <1>t, <1>3 DEF OpenPage, TablesOK
    <2>4. CountersOK'
      BY <1>t, <1>3, ConstantsAssumption DEF OpenPage, CountersOK
    <2>5. FlagsOK'
      BY <1>t, <1>3 DEF OpenPage, FlagsOK
    <2>6. ReportsOK'
      BY <1>t, <1>3 DEF OpenPage, ReportsOK
    <2> QED
      BY <2>1, <2>2, <2>3, <2>4, <2>5, <2>6 DEF TypeOK
  <1>4. ASSUME NEW i \in Images, RemoveImage(i)
       PROVE  TypeOK'
    <2>1. FilesOK'
      BY <1>t, <1>4 DEF RemoveImage, FilesOK
    <2>2. QueuesOK'
      <3>1. Queued(inotifyQ, Other) \in Seq(Events)
        BY <1>t, QueuedOtherType DEF QueuesOK
      <3> QED
        BY <1>t, <1>4, <3>1 DEF RemoveImage, QueuesOK
    <2>3. TablesOK'
      BY <1>t, <1>4 DEF RemoveImage, TablesOK
    <2>4. CountersOK'
      BY <1>t, <1>4, ConstantsAssumption DEF RemoveImage, CountersOK
    <2>5. FlagsOK'
      BY <1>t, <1>4 DEF RemoveImage, FlagsOK
    <2>6. ReportsOK'
      BY <1>t, <1>4 DEF RemoveImage, ReportsOK
    <2> QED
      BY <2>1, <2>2, <2>3, <2>4, <2>5, <2>6 DEF TypeOK
  <1>5. ASSUME NEW acked \in BOOLEAN, NEW copied \in BOOLEAN, EndScript(acked, copied)
       PROVE  TypeOK'
    <2>1. FilesOK'
      BY <1>t, <1>5 DEF EndScript, FilesOK
    <2>2. QueuesOK'
      BY <1>t, <1>5, QueuedOtherType DEF EndScript, QueuesOK
    <2>3. TablesOK'
      BY <1>t, <1>5 DEF EndScript, TablesOK
    <2>4. CountersOK'
      BY <1>t, <1>5, ConstantsAssumption DEF EndScript, CountersOK, Scripts
    <2>5. FlagsOK'
      BY <1>t, <1>5 DEF EndScript, FlagsOK
    <2>6. ReportsOK'
      BY <1>t, <1>5 DEF EndScript, ReportsOK
    <2> QED
      BY <2>1, <2>2, <2>3, <2>4, <2>5, <2>6 DEF TypeOK
  <1>6. CASE ClearFileChanges
    <2>1. FilesOK'
      BY <1>t, <1>6 DEF ClearFileChanges, ResetOnly, ResetWatch, FilesOK
    <2>2. QueuesOK'
      BY <1>t, <1>6 DEF ClearFileChanges, ResetOnly, ResetWatch, QueuesOK
    <2>3. TablesOK'
      BY <1>t, <1>6 DEF ClearFileChanges, ResetOnly, ResetWatch, TablesOK
    <2>4. CountersOK'
      BY <1>t, <1>6, ConstantsAssumption DEF ClearFileChanges, ResetOnly, ResetWatch, CountersOK
    <2>5. FlagsOK'
      BY <1>t, <1>6 DEF ClearFileChanges, ResetOnly, ResetWatch, FlagsOK
    <2>6. ReportsOK'
      BY <1>t, <1>6 DEF ClearFileChanges, ResetOnly, ResetWatch, ReportsOK
    <2> QED
      BY <2>1, <2>2, <2>3, <2>4, <2>5, <2>6 DEF TypeOK
  <1>7. CASE DropInotify
    <2>r. /\ inotifyQ' \in Seq(Events) /\ input' \in Seq(Events) /\ batch' \in Seq(Events)
          /\ unseen' \subseteq onDisk /\ late' \subseteq 0 .. MaxScripts
      BY <1>t, <1>7, ReadsEvents DEF DropInotify, FilesOK, CountersOK
    <2>1. FilesOK'
      BY <1>t, <1>7, <2>r DEF DropInotify, FilesOK
    <2>2. QueuesOK'
      BY <1>t, <1>7, <2>r DEF DropInotify, QueuesOK
    <2>3. TablesOK'
      BY <1>t, <1>7 DEF DropInotify, TablesOK
    <2>4. CountersOK'
      BY <1>t, <1>7, <2>r DEF DropInotify, CountersOK
    <2>5. FlagsOK'
      BY <1>t, <1>7 DEF DropInotify, FlagsOK
    <2>6. ReportsOK'
      BY <1>t, <1>7 DEF DropInotify, ReportsOK
    <2> QED
      BY <2>1, <2>2, <2>3, <2>4, <2>5, <2>6 DEF TypeOK
  <1>8. CASE ReadInotify
    <2>r. /\ inotifyQ' \in Seq(Events) /\ input' \in Seq(Events) /\ batch' \in Seq(Events)
          /\ unseen' \subseteq onDisk /\ late' \subseteq 0 .. MaxScripts
      BY <1>t, <1>8, ReadsEvents DEF ReadInotify, FilesOK, CountersOK
    <2>1. FilesOK'
      BY <1>t, <1>8, <2>r DEF ReadInotify, FilesOK
    <2>2. QueuesOK'
      BY <1>t, <1>8, <2>r DEF ReadInotify, QueuesOK
    <2>3. TablesOK'
      BY <1>t, <1>8 DEF ReadInotify, TablesOK
    <2>4. CountersOK'
      BY <1>t, <1>8, <2>r DEF ReadInotify, CountersOK
    <2>5. FlagsOK'
      BY <1>t, <1>8 DEF ReadInotify, FlagsOK
    <2>6. ReportsOK'
      BY <1>t, <1>8 DEF ReadInotify, ReportsOK
    <2> QED
      BY <2>1, <2>2, <2>3, <2>4, <2>5, <2>6 DEF TypeOK
  <1>9. CASE StartImageWatch
    <2>1. FilesOK'
      <3>1. /\ UNCHANGED <<onDisk, written, dirWatched, unseen>>
            /\ watchOf' \in [Images -> Nat] /\ nextWd' \in Nat \ {0}
        BY <1>t, <1>9 DEF StartImageWatch, NextEvent, FilesOK
      <3> QED
        BY <1>t, <3>1 DEF FilesOK
    <2>2. QueuesOK'
      <3>1. Head(batch) \in Events /\ Tail(batch) \in Seq(Events)
        BY <1>t, <1>9, HeadTailProperties DEF StartImageWatch, NextEvent, QueuesOK
      <3> DEFINE i == Head(batch).img
      <3> DEFINE wd == IF watchOf[i] # 0 THEN watchOf[i] ELSE nextWd
      <3>2. [wd |-> wd, img |-> i] \in PendingImage
        <4>1. i \in Images
          BY <1>9, <3>1 DEF StartImageWatch, NextEvent, Events, Other, Header, CutName
        <4>2. wd \in Nat \ {0}
          BY <1>t, <4>1 DEF FilesOK
        <4> QED
          BY <4>1, <4>2 DEF PendingImage
      <3>3. pending' \subseteq PendingImage /\ pending \subseteq pending'
        BY <1>t, <1>9, <3>2 DEF StartImageWatch, QueuesOK
      <3> QED
        BY <1>t, <1>9, <3>1, <3>3 DEF StartImageWatch, NextEvent, QueuesOK
    <2>3. TablesOK'
      BY <1>t, <1>9 DEF StartImageWatch, NextEvent, TablesOK
    <2>4. CountersOK'
      BY <1>t, <1>9, ConstantsAssumption DEF StartImageWatch, NextEvent, CountersOK
    <2>5. FlagsOK'
      BY <1>t, <1>9 DEF StartImageWatch, NextEvent, FlagsOK
    <2>6. ReportsOK'
      BY <1>t, <1>9 DEF StartImageWatch, NextEvent, ReportsOK
    <2> QED
      BY <2>1, <2>2, <2>3, <2>4, <2>5, <2>6 DEF TypeOK
  <1>10. CASE InsertClosedImage
    <2> PICK p \in pending :
          /\ NextEvent("closeWrite")
          /\ p.img \in onDisk
          /\ IF written[p.img] # 0 THEN Insert(p.img) ELSE SkipEmpty(p)
          /\ pending' = pending \ {p}
          /\ UNCHANGED <<nextWd, dirWatched, faults, alive>>
      BY <1>10 DEF InsertClosedImage
    <2>i. p.img \in Images
      BY <1>t DEF FilesOK
    <2>f. /\ onDisk' \subseteq Images
          /\ watchOf' \in [Images -> Nat]
          /\ inotifyQ' \in Seq(Events)
          /\ unseen' \subseteq onDisk'
          /\ TablesOK'
      <3>1. CASE written[p.img] # 0
        BY <2>i, <3>1, InsertType DEF TablesOK
      <3>2. CASE written[p.img] = 0
        BY <1>t, <3>2, SkipEmptyType DEF TablesOK, FilesOK
      <3> QED
        BY <3>1, <3>2
    <2>1. FilesOK'
      BY <1>t, <2>f DEF FilesOK, NextEvent
    <2>2. QueuesOK'
      <3>1. Tail(batch) \in Seq(Events)
        BY <1>t, HeadTailProperties DEF NextEvent, QueuesOK
      <3>2. toClean = {} /\ toClean' = {}
        BY <1>t DEF NextEvent, QueuesOK
      <3> QED
        BY <1>t, <2>f, <3>1, <3>2 DEF QueuesOK, NextEvent
    <2>3. TablesOK'
      BY <2>f
    <2>4. CountersOK'
      BY <1>t, ConstantsAssumption DEF NextEvent, CountersOK
    <2>5. FlagsOK'
      BY <1>t DEF NextEvent, FlagsOK
    <2>6. ReportsOK'
      BY <1>t DEF NextEvent, ReportsOK
    <2> QED
      BY <2>1, <2>2, <2>3, <2>4, <2>5, <2>6 DEF TypeOK
  <1>11. CASE InsertClosedImageFails
    <2>1. FilesOK'
      BY <1>t, <1>11 DEF InsertClosedImageFails, NextEvent, FilesOK
    <2>2. QueuesOK'
      BY <1>t, <1>11 DEF InsertClosedImageFails, NextEvent, QueuesOK
    <2>3. TablesOK'
      <3>1. sessionImageBatch' \in Nat
        BY <1>t, <1>11, BatchForInsertType DEF InsertClosedImageFails, TablesOK
      <3> QED
        BY <1>t, <1>11, <3>1 DEF InsertClosedImageFails, NextEvent, TablesOK
    <2>4. CountersOK'
      BY <1>t, <1>11, ConstantsAssumption DEF InsertClosedImageFails, NextEvent, CountersOK
    <2>5. FlagsOK'
      BY <1>t, <1>11 DEF InsertClosedImageFails, NextEvent, FlagsOK
    <2>6. ReportsOK'
      BY <1>t, <1>11 DEF InsertClosedImageFails, NextEvent, ReportsOK
    <2> QED
      BY <2>1, <2>2, <2>3, <2>4, <2>5, <2>6 DEF TypeOK
  <1>12. CASE CloseOfUnknown
    <2>1. FilesOK'
      BY <1>t, <1>12 DEF CloseOfUnknown, NextEvent, FilesOK
    <2>2. QueuesOK'
      BY <1>t, <1>12 DEF CloseOfUnknown, NextEvent, QueuesOK
    <2>3. TablesOK'
      BY <1>t, <1>12 DEF CloseOfUnknown, NextEvent, TablesOK
    <2>4. CountersOK'
      BY <1>t, <1>12, ConstantsAssumption DEF CloseOfUnknown, NextEvent, CountersOK
    <2>5. FlagsOK'
      BY <1>t, <1>12 DEF CloseOfUnknown, NextEvent, FlagsOK
    <2>6. ReportsOK'
      BY <1>t, <1>12 DEF CloseOfUnknown, NextEvent, ReportsOK
    <2> QED
      BY <2>1, <2>2, <2>3, <2>4, <2>5, <2>6 DEF TypeOK
  <1>13. CASE SkipEvent
    <2>1. FilesOK'
      BY <1>t, <1>13 DEF SkipEvent, NextEvent, FilesOK
    <2>2. QueuesOK'
      BY <1>t, <1>13 DEF SkipEvent, NextEvent, QueuesOK
    <2>3. TablesOK'
      BY <1>t, <1>13 DEF SkipEvent, NextEvent, TablesOK
    <2>4. CountersOK'
      BY <1>t, <1>13, ConstantsAssumption DEF SkipEvent, NextEvent, CountersOK
    <2>5. FlagsOK'
      BY <1>t, <1>13 DEF SkipEvent, NextEvent, FlagsOK
    <2>6. ReportsOK'
      BY <1>t, <1>13 DEF SkipEvent, NextEvent, ReportsOK
    <2> QED
      BY <2>1, <2>2, <2>3, <2>4, <2>5, <2>6 DEF TypeOK
  <1>14. CASE EndInotify
    <2>1. FilesOK'
      BY <1>t, <1>14 DEF EndInotify, FilesOK
    <2>2. QueuesOK'
      BY <1>t, <1>14 DEF EndInotify, QueuesOK
    <2>3. TablesOK'
      BY <1>t, <1>14 DEF EndInotify, TablesOK
    <2>4. CountersOK'
      BY <1>t, <1>14, ConstantsAssumption DEF EndInotify, CountersOK
    <2>5. FlagsOK'
      BY <1>t, <1>14 DEF EndInotify, FlagsOK
    <2>6. ReportsOK'
      BY <1>t, <1>14 DEF EndInotify, ReportsOK
    <2> QED
      BY <2>1, <2>2, <2>3, <2>4, <2>5, <2>6 DEF TypeOK
  <1>15. CASE BeginAck
    <2>1. FilesOK'
      BY <1>t, <1>15 DEF BeginAck, StartAck, FilesOK
    <2>2. QueuesOK'
      BY <1>t, <1>15 DEF BeginAck, StartAck, QueuesOK
    <2>3. TablesOK'
      BY <1>t, <1>15 DEF BeginAck, StartAck, TablesOK
    <2>4. CountersOK'
      BY <1>t, <1>15, ConstantsAssumption DEF BeginAck, StartAck, CountersOK
    <2>5. FlagsOK'
      BY <1>t, <1>15 DEF BeginAck, StartAck, FlagsOK
    <2>6. ReportsOK'
      BY <1>t, <1>15 DEF BeginAck, StartAck, ReportsOK
    <2> QED
      BY <2>1, <2>2, <2>3, <2>4, <2>5, <2>6 DEF TypeOK
  <1>16. ASSUME NEW p \in toClean, CleanupOne(p)
        PROVE  TypeOK'
    <2>p. p \in pending /\ p.img \in onDisk /\ p.img \in Images
      BY <1>t, <1>16 DEF CleanupOne, QueuesOK, FilesOK
    <2>f. /\ onDisk' \subseteq Images
          /\ watchOf' \in [Images -> Nat]
          /\ inotifyQ' \in Seq(Events)
          /\ unseen' \subseteq onDisk'
          /\ TablesOK'
      <3>1. CASE written[p.img] # 0
        BY <1>16, <2>p, <3>1, InsertType DEF CleanupOne, TablesOK
      <3>2. CASE written[p.img] = 0
        BY <1>t, <1>16, <2>p, <3>2, SkipEmptyType DEF CleanupOne, TablesOK, FilesOK
      <3> QED
        BY <3>1, <3>2
    <2>1. FilesOK'
      BY <1>t, <1>16, <2>f DEF FilesOK, CleanupOne
    <2>2. QueuesOK'
      BY <1>t, <1>16, <2>f DEF QueuesOK, CleanupOne
    <2>3. TablesOK'
      BY <2>f
    <2>4. CountersOK'
      BY <1>t, <1>16, ConstantsAssumption DEF CleanupOne, CountersOK
    <2>5. FlagsOK'
      BY <1>t, <1>16 DEF CleanupOne, FlagsOK
    <2>6. ReportsOK'
      BY <1>t, <1>16 DEF CleanupOne, ReportsOK
    <2> QED
      BY <2>1, <2>2, <2>3, <2>4, <2>5, <2>6 DEF TypeOK
  <1>17. ASSUME NEW p \in toClean, CleanupThrows(p)
        PROVE  TypeOK'
    <2>1. FilesOK'
      BY <1>t, <1>17 DEF CleanupThrows, FilesOK
    <2>2. QueuesOK'
      BY <1>t, <1>17 DEF CleanupThrows, QueuesOK
    <2>3. TablesOK'
      BY <1>t, <1>17 DEF CleanupThrows, TablesOK
    <2>4. CountersOK'
      BY <1>t, <1>17, ConstantsAssumption DEF CleanupThrows, CountersOK
    <2>5. FlagsOK'
      BY <1>t, <1>17 DEF CleanupThrows, FlagsOK
    <2>6. ReportsOK'
      BY <1>t, <1>17 DEF CleanupThrows, ReportsOK
    <2> QED
      BY <2>1, <2>2, <2>3, <2>4, <2>5, <2>6 DEF TypeOK
  <1>18. CASE EndAck
    <2>1. FilesOK'
      BY <1>t, <1>18 DEF EndAck, FilesOK
    <2>2. QueuesOK'
      BY <1>t, <1>18 DEF EndAck, QueuesOK
    <2>3. TablesOK'
      BY <1>t, <1>18 DEF EndAck, TablesOK
    <2>4. CountersOK'
      BY <1>t, <1>18, ConstantsAssumption DEF EndAck, CountersOK
    <2>5. FlagsOK'
      BY <1>t, <1>18 DEF EndAck, FlagsOK
    <2>6. ReportsOK'
      <3>1. imageIds \subseteq Nat \ {0} /\ sessionImageBatch \in Nat
        BY <1>t, LenProperties DEF TablesOK
      <3>2. owed \in Scripts
        BY <1>t, <1>18, ConstantsAssumption DEF EndAck, CountersOK, Scripts
      <3>3. [script |-> owed, ids |-> imageIds, batch |-> sessionImageBatch] \in Report
        BY <3>1, <3>2 DEF Report
      <3> QED
        BY <1>t, <1>18, <3>3 DEF EndAck, ReportsOK
    <2> QED
      BY <2>1, <2>2, <2>3, <2>4, <2>5, <2>6 DEF TypeOK
  <1>19. CASE IgnoreOff
    <2>1. FilesOK'
      BY <1>t, <1>19 DEF IgnoreOff, FilesOK
    <2>2. QueuesOK'
      BY <1>t, <1>19 DEF IgnoreOff, QueuesOK
    <2>3. TablesOK'
      BY <1>t, <1>19 DEF IgnoreOff, TablesOK
    <2>4. CountersOK'
      BY <1>t, <1>19, ConstantsAssumption DEF IgnoreOff, CountersOK
    <2>5. FlagsOK'
      BY <1>t, <1>19 DEF IgnoreOff, FlagsOK
    <2>6. ReportsOK'
      BY <1>t, <1>19 DEF IgnoreOff, ReportsOK
    <2> QED
      BY <2>1, <2>2, <2>3, <2>4, <2>5, <2>6 DEF TypeOK
  <1>20. CASE HandleDBNotifications
    <2> USE DEF HandleDBNotifications, HandlesNotifications
    <2>1. FilesOK'
      <3>1. watchOf' \in [Images -> Nat] /\ dirWatched' \in BOOLEAN
        <4>1. CASE UNCHANGED <<watchOf, dirWatched>>
          BY <1>t, <4>1 DEF FilesOK
        <4>2. CASE dirWatched' = FALSE /\ UNCHANGED watchOf
          BY <1>t, <4>2 DEF FilesOK
        <4>3. CASE /\ \E i \in Images : watchOf' = [watchOf EXCEPT ![i] = 0]
                   /\ UNCHANGED dirWatched
          BY <1>t, <4>3 DEF FilesOK
        <4> QED BY <1>20, <4>1, <4>2, <4>3
      <3> QED
        BY <1>t, <1>20, <3>1 DEF FilesOK
    <2>2. QueuesOK'
      <3>1. inotifyQ' \in Seq(Events)
        BY <1>t, <1>20, QueuedOtherType DEF QueuesOK
      <3> QED
        BY <1>t, <1>20, <3>1 DEF QueuesOK
    <2>3. TablesOK'
      BY <1>t, <1>20 DEF TablesOK
    <2>4. CountersOK'
      BY <1>t, <1>20 DEF CountersOK
    <2>5. FlagsOK'
      BY <1>t, <1>20 DEF FlagsOK
    <2>6. ReportsOK'
      BY <1>t, <1>20 DEF ReportsOK
    <2> QED
      BY <2>1, <2>2, <2>3, <2>4, <2>5, <2>6 DEF TypeOK
  <1>21. CASE UNCHANGED vars
    <2>1. FilesOK'
      BY <1>t, <1>21 DEF vars, FilesOK
    <2>2. QueuesOK'
      BY <1>t, <1>21 DEF vars, QueuesOK
    <2>3. TablesOK'
      BY <1>t, <1>21 DEF vars, TablesOK
    <2>4. CountersOK'
      BY <1>t, <1>21, ConstantsAssumption DEF vars, CountersOK
    <2>5. FlagsOK'
      BY <1>t, <1>21 DEF vars, FlagsOK
    <2>6. ReportsOK'
      BY <1>t, <1>21 DEF vars, ReportsOK
    <2> QED
      BY <2>1, <2>2, <2>3, <2>4, <2>5, <2>6 DEF TypeOK
  <1>22. CASE TouchFile
    <2>1. FilesOK'
      BY <1>t, <1>22 DEF TouchFile, FilesOK
    <2>2. QueuesOK'
      BY <1>t, <1>22, QueuedOtherType DEF TouchFile, QueuesOK
    <2>3. TablesOK'
      BY <1>t, <1>22 DEF TouchFile, TablesOK
    <2>4. CountersOK'
      BY <1>t, <1>22 DEF TouchFile, CountersOK
    <2>5. FlagsOK'
      BY <1>t, <1>22 DEF TouchFile, FlagsOK
    <2>6. ReportsOK'
      BY <1>t, <1>22 DEF TouchFile, ReportsOK
    <2> QED
      BY <2>1, <2>2, <2>3, <2>4, <2>5, <2>6 DEF TypeOK
  <1>23. CASE AbortElsewhere
    <2>1. FilesOK'
      BY <1>t, <1>23 DEF AbortElsewhere, FilesOK
    <2>2. QueuesOK'
      BY <1>t, <1>23 DEF AbortElsewhere, QueuesOK
    <2>3. TablesOK'
      BY <1>t, <1>23 DEF AbortElsewhere, TablesOK
    <2>4. CountersOK'
      BY <1>t, <1>23, ConstantsAssumption DEF AbortElsewhere, CountersOK
    <2>5. FlagsOK'
      BY <1>t, <1>23 DEF AbortElsewhere, FlagsOK
    <2>6. ReportsOK'
      BY <1>t, <1>23 DEF AbortElsewhere, ReportsOK
    <2> QED
      BY <2>1, <2>2, <2>3, <2>4, <2>5, <2>6 DEF TypeOK
  <1>24. CASE LoneHeader
    <2> USE DEF LoneHeader, NextEvent
    <2>1. FilesOK'
      BY <1>t, <1>24 DEF FilesOK
    <2>2. QueuesOK'
      BY <1>t, <1>24, HeadTailProperties DEF QueuesOK
    <2>3. TablesOK'
      BY <1>t, <1>24 DEF TablesOK
    <2>4. CountersOK'
      BY <1>t, <1>24 DEF CountersOK
    <2>5. FlagsOK'
      BY <1>t, <1>24 DEF FlagsOK
    <2>6. ReportsOK'
      BY <1>t, <1>24 DEF ReportsOK
    <2> QED
      BY <2>1, <2>2, <2>3, <2>4, <2>5, <2>6 DEF TypeOK
  <1>25. CASE ParseCutName
    <2> USE DEF ParseCutName
    <2>1. FilesOK'
      BY <1>t, <1>25 DEF FilesOK
    <2>2. QueuesOK'
      <3> PICK k \in 1 .. Len(batch) : batch' = SubSeq(batch, k + 1, Len(batch))
        BY <1>25
      <3>1. batch \in Seq(Events) /\ k \in 0 .. Len(batch)
        BY <1>t DEF QueuesOK
      <3>2. batch' \in Seq(Events)
        BY <3>1, SplitElems
      <3> QED
        BY <1>t, <1>25, <3>2 DEF QueuesOK
    <2>3. TablesOK'
      BY <1>t, <1>25 DEF TablesOK
    <2>4. CountersOK'
      BY <1>t, <1>25 DEF CountersOK
    <2>5. FlagsOK'
      BY <1>t, <1>25 DEF FlagsOK
    <2>6. ReportsOK'
      BY <1>t, <1>25 DEF ReportsOK
    <2> QED
      BY <2>1, <2>2, <2>3, <2>4, <2>5, <2>6 DEF TypeOK
  <1> QED
    BY <1>1, <1>2, <1>3, <1>4, <1>5, <1>6, <1>7, <1>8, <1>9, <1>10, <1>11, <1>12, <1>13, <1>14,
        <1>15, <1>16, <1>17, <1>18, <1>19, <1>20, <1>21, <1>22, <1>23,
       <1>24, <1>25
       DEF Next, ScriptStep, InotifyStep, AckStep

\* Every variable of FileManager's image half keeps its type.
THEOREM TypeCorrect == Spec => []TypeOK
  BY TypeOKInit, TypeOKStep, PTL DEF Spec

-----------------------------------------------------------------------------
(* What the client is told about images.                                     *)
(*                                                                           *)
(* ReportedBatch and ReportsDisjoint are not inductive: an execComplete      *)
(* copies imageIds_ and sessionImageBatch_, so what these hold between two   *)
(* reports has to be part of the invariant.                                  *)

\* The ids collected since the last resetWatch have the current batch, and no
\* row has a later one.
BatchInv ==
  /\ sessionImageBatch = 0 \/ sessionImageBatch > BatchInDb
  /\ \A id \in 1 .. Len(sessionimage) :
        /\ sessionimage[id].batch > BatchInDb
        /\ sessionimage[id].batch <= sessionImageBatch
  /\ \A id \in imageIds : sessionimage[id].batch = sessionImageBatch

\* The current batch was reported only if the next resetWatch will leave it,
\* and that resetWatch comes before the next acknowledgement.
FreshInv ==
  \A n \in 1 .. Len(reports) : reports[n].ids # {} =>
    \/ reports[n].batch < sessionImageBatch
    \/ /\ reports[n].batch = sessionImageBatch
       /\ imageIds # {}
       /\ owed = 0 /\ pc # "script"

ReportsInv == BatchInv /\ ReportedBatch /\ ReportsDisjoint /\ FreshInv

\* A step leaves the images alone, resets the watch, inserts one image, or
\* sends a report.
LEMMA ImageSteps ==
  ASSUME TypeOK, [Next]_vars
  PROVE  \/ /\ UNCHANGED <<tables, reports>>
            /\ (owed = 0 /\ pc # "script") => (owed' = 0 /\ pc' # "script")
         \/ ResetWatch /\ UNCHANGED reports
         \/ \E i \in Images : Insert(i) /\ UNCHANGED <<reports, owed, pc>>
         \/ /\ sessionImageBatch' = BatchForInsert
            /\ UNCHANGED <<imageIds, sessionimage, reports, owed, pc>>
         \/ EndAck
  <1> USE DEF files, tables, history
  <1> DEFINE Quiet == /\ UNCHANGED <<tables, reports>>
                      /\ (owed = 0 /\ pc # "script")
                           => (owed' = 0 /\ pc' # "script")
             Inserts == \E i \in Images : Insert(i) /\ UNCHANGED <<reports, owed, pc>>
  <1>1. CASE BeginScript \/ ClearFileChanges
    BY <1>1 DEF BeginScript, StartScript, ClearFileChanges, ResetOnly
  <1>2. CASE ScriptStep
    BY <1>2 DEF ScriptStep, Draw, OpenPage, RemoveImage, TouchFile, EndScript
  <1>3. CASE InotifyStep
    <2>1. CASE DropInotify \/ ReadInotify \/ EndInotify
      BY <2>1 DEF DropInotify, ReadInotify, EndInotify
    <2>2. CASE StartImageWatch
      BY <2>2 DEF StartImageWatch, NextEvent
    <2>3. CASE InsertClosedImage
      <3> PICK p \in pending :
            /\ NextEvent("closeWrite")
            /\ p.img \in onDisk
            /\ IF written[p.img] # 0 THEN Insert(p.img) ELSE SkipEmpty(p)
            /\ UNCHANGED <<nextWd, faults, alive>>
        BY <2>3 DEF InsertClosedImage
      <3>1. p.img \in Images /\ UNCHANGED <<reports, owed, pc>>
        BY DEF TypeOK, FilesOK, NextEvent
      <3>2. CASE written[p.img] # 0
        BY <3>1, <3>2
      <3>3. CASE written[p.img] = 0
        BY <3>1, <3>3 DEF SkipEmpty
      <3> QED
        BY <3>2, <3>3
    <2>4. CASE CloseOfUnknown \/ SkipEvent \/ LoneHeader \/ ParseCutName
      BY <2>4 DEF CloseOfUnknown, SkipEvent, LoneHeader, ParseCutName, NextEvent
    <2>5. CASE InsertClosedImageFails
      <3>1. UNCHANGED <<imageIds, sessionimage, reports, owed, pc>>
        BY <2>5 DEF InsertClosedImageFails, NextEvent
      <3>2. sessionImageBatch' \in {sessionImageBatch, BatchForInsert}
        BY <2>5 DEF InsertClosedImageFails
      <3> QED
        BY <3>1, <3>2
    <2> QED
      BY <1>3, <2>1, <2>2, <2>3, <2>4, <2>5 DEF InotifyStep
  <1>4. CASE AckStep
    <2>1. CASE BeginAck
      BY <2>1 DEF BeginAck, StartAck
    <2>2. ASSUME NEW p \in toClean, CleanupOne(p)
          PROVE  Quiet \/ Inserts
      <3>1. p.img \in Images /\ UNCHANGED <<reports, owed, pc>>
        BY <2>2 DEF CleanupOne, TypeOK, FilesOK
      <3>2. CASE written[p.img] # 0
        BY <2>2, <3>1, <3>2 DEF CleanupOne
      <3>3. CASE written[p.img] = 0
        BY <2>2, <3>1, <3>3 DEF CleanupOne, SkipEmpty
      <3> QED
        BY <3>2, <3>3
    <2>3. ASSUME NEW p \in toClean, CleanupThrows(p)
          PROVE  Quiet
      BY <2>3 DEF CleanupThrows
    <2> QED
      BY <1>4, <2>1, <2>2, <2>3 DEF AckStep
  <1>5. CASE IgnoreOff \/ HandleDBNotifications \/ AbortElsewhere \/ UNCHANGED vars
    BY <1>5 DEF IgnoreOff, HandleDBNotifications, HandlesNotifications, AbortElsewhere, vars
  <1> QED
    BY <1>1, <1>2, <1>3, <1>4, <1>5 DEF Next

\* The batch of an insert is later than every batch of an earlier run, never
\* before the current one, and the current one once rows exist.
LEMMA BatchForInsertFresh ==
  ASSUME TypeOK, BatchInv
  PROVE  /\ BatchForInsert > BatchInDb
         /\ BatchForInsert >= sessionImageBatch
         /\ sessionImageBatch # 0 => BatchForInsert = sessionImageBatch
         /\ sessionImageBatch = 0 => sessionimage = <<>>
  <1>1. sessionimage \in Seq(Row) /\ sessionImageBatch \in Nat /\ BatchInDb \in Nat
    BY ConstantsAssumption DEF TypeOK, TablesOK
  <1>2. ASSUME sessionImageBatch = 0
        PROVE  sessionimage = <<>>
    <2> SUFFICES ASSUME sessionimage # <<>> PROVE FALSE
      OBVIOUS
    <2>1. Len(sessionimage) \in 1 .. Len(sessionimage)
      BY <1>1, EmptySeq
    <2>2. sessionimage[Len(sessionimage)] \in Row
      BY <1>1, <2>1, ElementOfSeq
    <2>3. sessionimage[Len(sessionimage)].batch \in Nat
      BY <2>2 DEF Row
    <2> QED
      BY <1>1, <1>2, <2>1, <2>3 DEF BatchInv
  <1>3. CASE sessionImageBatch = 0
    <2>1. BatchForInsert = BatchInDb + 1
      BY <1>2, <1>3 DEF BatchForInsert, MaxBatchId
    <2> QED
      BY <1>1, <1>2, <1>3, <2>1
  <1>4. CASE sessionImageBatch # 0
    <2>1. BatchForInsert = sessionImageBatch
      BY <1>1, <1>4 DEF BatchForInsert
    <2> QED
      BY <1>1, <1>4, <2>1 DEF BatchInv
  <1> QED
    BY <1>3, <1>4

LEMMA RowBatchType ==
  ASSUME TypeOK
  PROVE  \A id \in 1 .. Len(sessionimage) : sessionimage[id].batch \in Nat
  <1> TAKE id \in 1 .. Len(sessionimage)
  <1>1. sessionimage \in Seq(Row)
    BY DEF TypeOK, TablesOK
  <1>2. sessionimage[id] \in Row
    BY <1>1, ElementOfSeq
  <1> QED
    BY <1>2 DEF Row

LEMMA ReportBatchType ==
  ASSUME TypeOK
  PROVE  \A n \in 1 .. Len(reports) : reports[n].batch \in Nat
  <1> TAKE n \in 1 .. Len(reports)
  <1>1. reports \in Seq(Report)
    BY DEF TypeOK, ReportsOK
  <1>2. reports[n] \in Report
    BY <1>1, ElementOfSeq
  <1> QED
    BY <1>2 DEF Report

LEMMA ReportsInvInit == Init => ReportsInv
  BY ConstantsAssumption
  DEF Init, ReportsInv, BatchInv, ReportedBatch, ReportsDisjoint, FreshInv

\* resetWatch moves on from a batch that has ids, and forgets them.
LEMMA ReportsInvReset ==
  ASSUME TypeOK, ReportsInv, ResetWatch, UNCHANGED reports
  PROVE  ReportsInv'
  <1>1. /\ sessionImageBatch \in Nat /\ BatchInDb \in Nat
        /\ sessionimage' = sessionimage /\ imageIds' = {}
        /\ sessionImageBatch' >= sessionImageBatch
        /\ sessionImageBatch' \in Nat
        /\ imageIds # {} => sessionImageBatch' = sessionImageBatch + 1
        /\ imageIds = {} => sessionImageBatch' = sessionImageBatch
    <2>1. sessionImageBatch \in Nat /\ BatchInDb \in Nat
      BY ConstantsAssumption DEF TypeOK, TablesOK
    <2>2. CASE imageIds = {}
      BY <2>1, <2>2 DEF ResetWatch
    <2>3. CASE imageIds # {}
      BY <2>1, <2>3 DEF ResetWatch
    <2> QED
      BY <2>1, <2>2, <2>3
  <1>2. \A id \in 1 .. Len(sessionimage) : sessionimage[id].batch \in Nat
    BY RowBatchType
  <1>3. \A id \in imageIds : id \in 1 .. Len(sessionimage)
    BY DEF TypeOK, TablesOK
  <1>4. \A n \in 1 .. Len(reports) : reports[n].batch \in Nat
    BY ReportBatchType
  <1>5. BatchInv'
    BY <1>1, <1>2, <1>3 DEF ReportsInv, BatchInv
  <1>6. ReportedBatch' /\ ReportsDisjoint'
    BY <1>1 DEF ReportsInv, ReportedBatch, ReportsDisjoint
  <1>7. FreshInv'
    BY <1>1, <1>4 DEF ReportsInv, FreshInv
  <1> QED
    BY <1>5, <1>6, <1>7 DEF ReportsInv

\* A new row gets the current batch and touches no reported one.
LEMMA ReportsInvInsert ==
  ASSUME TypeOK, ReportsInv, NEW i \in Images, Insert(i),
         UNCHANGED <<reports, owed, pc>>
  PROVE  ReportsInv'
  <1> DEFINE n == Len(sessionimage)
  <1>1. /\ n \in Nat /\ Len(sessionimage') = n + 1
        /\ \A id \in 1 .. n : sessionimage'[id] = sessionimage[id]
        /\ sessionimage'[n + 1].batch = BatchForInsert
    BY InsertRows
  <1>2. /\ BatchForInsert \in Nat \ {0}
        /\ BatchForInsert > BatchInDb
        /\ BatchForInsert >= sessionImageBatch
        /\ sessionImageBatch # 0 => BatchForInsert = sessionImageBatch
        /\ sessionImageBatch = 0 => n = 0
    BY BatchForInsertType, BatchForInsertFresh, EmptySeq DEF ReportsInv
  <1>3. sessionImageBatch' = BatchForInsert /\ imageIds' = imageIds \cup {n + 1}
    BY DEF Insert
  <1>4. sessionImageBatch \in Nat /\ BatchInDb \in Nat /\ imageIds \subseteq 1 .. n
    BY ConstantsAssumption DEF TypeOK, TablesOK
  <1>5. \A id \in 1 .. n : sessionimage[id].batch \in Nat
    BY RowBatchType
  <1>6. \A m \in 1 .. Len(reports) : reports[m].batch \in Nat
    BY ReportBatchType
  <1> HIDE DEF n
  <1>7. BatchInv'
    <2>1. \A id \in 1 .. n + 1 : /\ sessionimage'[id].batch > BatchInDb
                                /\ sessionimage'[id].batch <= BatchForInsert
      <3> TAKE id \in 1 .. n + 1
      <3>1. CASE id = n + 1
        BY <1>1, <1>2, <1>4, <3>1
      <3>2. CASE id \in 1 .. n
        BY <1>1, <1>2, <1>4, <1>5, <3>2 DEF ReportsInv, BatchInv, n
      <3> QED
        BY <1>1, <3>1, <3>2
    <2>2. \A id \in imageIds' : sessionimage'[id].batch = BatchForInsert
      <3> TAKE id \in imageIds'
      <3>1. CASE id = n + 1
        BY <1>1, <3>1
      <3>2. CASE id \in imageIds
        <4>1. id \in 1 .. n
          BY <1>4, <3>2
        <4>2. sessionImageBatch # 0
          BY <1>1, <1>2, <4>1
        <4> QED
          BY <1>1, <1>2, <3>2, <4>1, <4>2 DEF ReportsInv, BatchInv
      <3> QED
        BY <1>3, <3>1, <3>2
    <2> QED
      BY <1>1, <1>2, <1>3, <2>1, <2>2 DEF BatchInv
  <1>8. ReportedBatch'
    BY <1>1 DEF ReportsInv, ReportedBatch, n
  <1>9. ReportsDisjoint'
    BY DEF ReportsInv, ReportsDisjoint
  <1>10. FreshInv'
    <2> SUFFICES ASSUME NEW m \in 1 .. Len(reports), reports[m].ids # {}
                 PROVE  \/ reports[m].batch < sessionImageBatch'
                        \/ /\ reports[m].batch = sessionImageBatch'
                           /\ imageIds' # {}
                           /\ owed = 0 /\ pc # "script"
      BY DEF FreshInv
    <2>1. n # 0
      BY <1>1 DEF ReportsInv, ReportedBatch, n
    <2>2. sessionImageBatch' = sessionImageBatch
      BY <1>2, <1>3, <2>1
    <2> QED
      BY <1>3, <2>2 DEF ReportsInv, FreshInv
  <1> QED
    BY <1>7, <1>8, <1>9, <1>10 DEF ReportsInv

\* A refused insert may leave the batch of a first image behind: no row, and so
\* no report, has one yet.
LEMMA ReportsInvChoice ==
  ASSUME TypeOK, ReportsInv, sessionImageBatch' = BatchForInsert,
         UNCHANGED <<imageIds, sessionimage, reports, owed, pc>>
  PROVE  ReportsInv'
  <1>1. /\ BatchForInsert \in Nat \ {0}
        /\ BatchForInsert > BatchInDb
        /\ sessionImageBatch # 0 => BatchForInsert = sessionImageBatch
        /\ sessionImageBatch = 0 => sessionimage = <<>>
    BY BatchForInsertType, BatchForInsertFresh DEF ReportsInv
  <1>2. imageIds \subseteq 1 .. Len(sessionimage)
    BY DEF TypeOK, TablesOK
  <1>3. ReportedBatch' /\ ReportsDisjoint'
    BY DEF ReportsInv, ReportedBatch, ReportsDisjoint
  <1>4. CASE sessionImageBatch # 0
    BY <1>1, <1>3, <1>4 DEF ReportsInv, BatchInv, FreshInv
  <1>5. CASE sessionimage = <<>>
    <2>1. 1 .. Len(sessionimage) = {} /\ imageIds = {}
      BY <1>2, <1>5
    <2>2. \A n \in 1 .. Len(reports) : reports[n].ids = {}
      BY <2>1 DEF ReportsInv, ReportedBatch
    <2>3. BatchInv'
      BY <1>1, <2>1 DEF BatchInv
    <2>4. FreshInv'
      BY <2>2 DEF FreshInv
    <2> QED BY <1>3, <2>3, <2>4 DEF ReportsInv
  <1> QED
    BY <1>1, <1>4, <1>5

\* A report is sent while an acknowledgement is owed: FreshInv then says that
\* no earlier report has the current batch.
LEMMA ReportsInvEndAck ==
  ASSUME TypeOK, ReportsInv, EndAck
  PROVE  ReportsInv'
  <1> DEFINE k == Len(reports)
             r == [script |-> owed, ids |-> imageIds, batch |-> sessionImageBatch]
  <1>1. /\ UNCHANGED <<imageIds, sessionImageBatch, sessionimage>>
        /\ reports' = Append(reports, r)
        /\ owed' = 0 /\ pc' = "idle" /\ owed # 0
    BY DEF EndAck, tables, TypeOK, CountersOK
  <1>2. /\ k \in Nat /\ Len(reports') = k + 1
        /\ \A m \in 1 .. k : reports'[m] = reports[m]
        /\ reports'[k + 1] = r
    <2>1. reports \in Seq(Report)
      BY DEF TypeOK, ReportsOK
    <2> HIDE DEF r
    <2> QED
      BY <1>1, <2>1
  <1>3. r.ids = imageIds /\ r.batch = sessionImageBatch
    OBVIOUS
  <1>4. sessionImageBatch \in Nat /\ imageIds \subseteq 1 .. Len(sessionimage)
    BY DEF TypeOK, TablesOK
  <1>5. \A m \in 1 .. k : reports[m].batch \in Nat
    BY ReportBatchType
  <1> HIDE DEF k, r
  <1>6. BatchInv'
    BY <1>1 DEF ReportsInv, BatchInv
  <1>7. ReportedBatch'
    <2> SUFFICES ASSUME NEW m \in 1 .. k + 1, NEW id \in reports'[m].ids
                 PROVE  /\ id \in 1 .. Len(sessionimage)
                        /\ sessionimage[id].batch = reports'[m].batch
      BY <1>1, <1>2 DEF ReportedBatch
    <2>1. CASE m = k + 1
      BY <1>2, <1>3, <1>4, <2>1 DEF ReportsInv, BatchInv
    <2>2. CASE m \in 1 .. k
      BY <1>2, <2>2 DEF ReportsInv, ReportedBatch, k
    <2> QED
      BY <1>2, <2>1, <2>2
  <1>8. \A m \in 1 .. k : reports[m].ids # {} => reports[m].batch < sessionImageBatch
    BY <1>1 DEF ReportsInv, FreshInv, k
  <1>9. ReportsDisjoint'
    <2> SUFFICES ASSUME NEW l \in 1 .. k + 1, NEW m \in 1 .. k + 1, l < m
                 PROVE  /\ reports'[l].ids \cap reports'[m].ids = {}
                        /\ (reports'[l].ids # {} /\ reports'[m].ids # {})
                              => reports'[l].batch < reports'[m].batch
      BY <1>2 DEF ReportsDisjoint
    <2>1. l \in 1 .. k
      BY <1>2
    <2>2. CASE m \in 1 .. k
      BY <1>2, <2>1, <2>2 DEF ReportsInv, ReportsDisjoint, k
    <2>3. CASE m = k + 1
      <3>1. \A id \in reports[l].ids : sessionimage[id].batch = reports[l].batch
        BY <2>1 DEF ReportsInv, ReportedBatch, k
      <3>2. \A id \in imageIds : sessionimage[id].batch = sessionImageBatch
        BY DEF ReportsInv, BatchInv
      <3>3. reports[l].ids # {} => reports[l].batch # sessionImageBatch
        BY <1>4, <1>5, <1>8, <2>1
      <3>4. reports[l].ids \cap imageIds = {}
        BY <3>1, <3>2, <3>3
      <3> QED
        BY <1>2, <1>3, <1>8, <2>1, <2>3, <3>4
    <2> QED
      BY <1>2, <2>2, <2>3
  <1>10. FreshInv'
    <2> SUFFICES ASSUME NEW m \in 1 .. k + 1, reports'[m].ids # {}
                 PROVE  \/ reports'[m].batch < sessionImageBatch
                        \/ /\ reports'[m].batch = sessionImageBatch
                           /\ imageIds # {}
      BY <1>1, <1>2 DEF FreshInv
    <2>1. CASE m = k + 1
      BY <1>2, <1>3, <2>1
    <2>2. CASE m \in 1 .. k
      BY <1>2, <1>8, <2>2
    <2> QED
      BY <1>2, <2>1, <2>2
  <1> QED
    BY <1>6, <1>7, <1>9, <1>10 DEF ReportsInv

LEMMA ReportsInvStep == TypeOK /\ ReportsInv /\ [Next]_vars => ReportsInv'
  <1> SUFFICES ASSUME TypeOK, ReportsInv, [Next]_vars PROVE ReportsInv'
    OBVIOUS
  <1>1. CASE /\ UNCHANGED <<tables, reports>>
             /\ (owed = 0 /\ pc # "script") => (owed' = 0 /\ pc' # "script")
    <2>1. BatchInv' /\ ReportedBatch' /\ ReportsDisjoint'
      BY <1>1 DEF tables, ReportsInv, BatchInv, ReportedBatch, ReportsDisjoint
    <2>2. FreshInv'
      BY <1>1 DEF tables, ReportsInv, FreshInv
    <2> QED
      BY <2>1, <2>2 DEF ReportsInv
  <1>2. CASE ResetWatch /\ UNCHANGED reports
    BY <1>2, ReportsInvReset
  <1>3. CASE \E i \in Images : Insert(i) /\ UNCHANGED <<reports, owed, pc>>
    BY <1>3, ReportsInvInsert
  <1>4. CASE EndAck
    BY <1>4, ReportsInvEndAck
  <1>5. CASE /\ sessionImageBatch' = BatchForInsert
             /\ UNCHANGED <<imageIds, sessionimage, reports, owed, pc>>
    BY <1>5, ReportsInvChoice
  <1> QED
    BY <1>1, <1>2, <1>3, <1>4, <1>5, ImageSteps

\* The images and the batch an execComplete reports belong together, no row is
\* reported twice, and no batch number is used again.
THEOREM ReportsCorrect ==
  Spec => [](ReportedBatch /\ ReportsDisjoint /\ BatchAboveHistory)
  <1>1. ReportsInv => ReportedBatch /\ ReportsDisjoint /\ BatchAboveHistory
    BY DEF ReportsInv, BatchInv, BatchAboveHistory
  <1>2. Spec => []ReportsInv
    BY TypeCorrect, ReportsInvInit, ReportsInvStep, PTL DEF Spec
  <1> QED
    BY <1>1, <1>2, PTL

\* Every row an execComplete names exists and carries the batch it names,
\* whichever handler inserted it (insertImage, addImagesToJson).
THEOREM BatchesReported == Spec => []ReportedBatch
  BY ReportsCorrect, PTL

\* Every row of the session has a batch above those that the database held
\* before it (resetWatch).
THEOREM BatchesGrow == Spec => []BatchAboveHistory
  BY ReportsCorrect, PTL

-----------------------------------------------------------------------------
(***************************************************************************)
(* What becomes of the image files of ImageWatch, for every set of images  *)
(* and every bound: none is lost unnoticed, none is reported with another  *)
(* script, and the null pointer needs a script that was not acknowledged.  *)
(*                                                                         *)
(* The properties say nothing of the events under way, and the events are  *)
(* what carries a file from the script to the tables.  The invariants here *)
(* relate files, events, entries and rows at every moment.                 *)
(***************************************************************************)

\* The events under way, and the images whose creation nobody has handled yet.
Seen == Elems(inotifyQ) \cup Elems(input) \cup Elems(batch)
Created == {i \in Images : CreateEvent(i) \in Seen}
OfPending == {p.img : p \in pending}

\* Events are handled in the inotify handler only, and an acknowledgement
\* starts when the script's events were read, unless the script is a late one.
QuietInv ==
  /\ pc # "inotify" => batch = <<>>
  /\ pc = "cleanup" => Elems(inotifyQ) \subseteq {Other} \/ script \in late
  /\ input # <<>> => script \in late

\* Every image file is pending, about to be, or given up.
NoticedInv ==
  onDisk \subseteq unseen \cup Created \cup
    (IF pc = "cleanup" THEN {p.img : p \in toClean} ELSE OfPending)

\* The scripts that later reports may name images of, and those whose images may
\* still be inserted.
Excused == unacked \cup late
Current == Excused \cup {owed} \cup (IF pc = "script" THEN {script} ELSE {})

\* What is pending, or about to be, was not drawn by an acknowledged script.
OwnInv == \A i \in Created \cup OfPending : written[i] \in Current \cup {0}

CounterInv ==
  /\ owed # 0 => owed = script /\ pc # "script"
  /\ unacked \subseteq 1 .. script
  /\ late \subseteq 0 .. script

\* Nor were the rows the next report will name.
RowsInv ==
  /\ pc = "script" => imageIds = {}
  /\ owed # 0 => \A id \in imageIds : sessionimage[id].by \in Excused \cup {owed}

FatesInv == QuietInv /\ NoticedInv /\ OwnInv /\ CounterInv /\ RowsInv

-----------------------------------------------------------------------------
(* Events as sets *)

\* The three kinds of events are told apart by their field.
LEMMA Kinds ==
  /\ \A i, j \in Images : CreateEvent(i) = CreateEvent(j) => i = j
  /\ \A i \in Images : CreateEvent(i).kind = "create"
  /\ \A i \in Images, w \in Nat : CloseWriteEvent(i, w).kind = "closeWrite"
  /\ Other.kind = "other" /\ Header.kind = "header" /\ CutName.kind = "name"
  /\ \A e \in Events : e.kind = "other" => e = Other
  BY DEF CreateEvent, CloseWriteEvent, Other, Header, CutName, Events

\* How a step that only queues events changes what is seen.
LEMMA QueueOther ==
  ASSUME TypeOK, inotifyQ' = Queued(inotifyQ, Other)
  PROVE  Elems(inotifyQ') = Elems(inotifyQ) \cup {Other}
  BY QueuedElems DEF TypeOK, QueuesOK

LEMMA SameCreated ==
  ASSUME Seen' \subseteq Seen \cup {Other, Header, CutName}
  PROVE  Created' \subseteq Created
  BY Kinds DEF Created

-----------------------------------------------------------------------------
(* The steps of a script *)

LEMMA InitFates == Init => FatesInv
<1> SUFFICES ASSUME Init PROVE FatesInv
  OBVIOUS
<1>1. Created = {} /\ OfPending = {}
  BY EmptyElems DEF Init, Created, Seen, OfPending
<1> QED BY <1>1 DEF Init, FatesInv, QuietInv, NoticedInv, OwnInv, CounterInv, RowsInv

\* resetWatch, before a script or on its own.
LEMMA ResetFates ==
  ASSUME TypeOK, FatesInv, BeginScript \/ ClearFileChanges
  PROVE  FatesInv'
<1>1. /\ UNCHANGED <<files, inotifyQ, input, batch, pending, toClean, owed, unacked, unseen>>
      /\ pc = "idle" /\ owed = 0 /\ imageIds' = {}
      /\ \/ pc' = "idle" /\ script' = script /\ late' = late
         \/ /\ pc' = "script" /\ script' = script + 1
            /\ late' = IF input = <<>> THEN late ELSE late \cup {script + 1}
  BY DEF BeginScript, StartScript, ClearFileChanges, ResetOnly, ResetWatch, history
<1>2. Created' = Created /\ OfPending' = OfPending
  BY <1>1 DEF Created, Seen, OfPending
<1>3. QuietInv' /\ NoticedInv' /\ RowsInv'
  BY <1>1, <1>2 DEF FatesInv, QuietInv, NoticedInv, RowsInv, files
<1>4. OwnInv'
  BY <1>1, <1>2 DEF FatesInv, OwnInv, Current, Excused, files
<1>5. CounterInv'
  <2>1. script \in Nat
    BY ConstantsAssumption DEF TypeOK, CountersOK
  <2>2. 1 .. script \subseteq 1 .. script + 1 /\ 0 .. script \subseteq 0 .. script + 1
        /\ script + 1 \in 0 .. script + 1
    BY <2>1
  <2> QED BY <1>1, <2>2 DEF FatesInv, CounterInv
<1> QED BY <1>3, <1>4, <1>5 DEF FatesInv

\* A script writes an image file, with or without a page in it.
LEMMA DrawFates ==
  ASSUME TypeOK, FatesInv, NEW i \in Images, Draw(i) \/ OpenPage(i)
  PROVE  FatesInv'
<1>1. /\ UNCHANGED <<input, batch, pending, toClean, tables, owed, script, pc, unacked, late>>
      /\ pc = "script" /\ onDisk' = onDisk \cup {i} /\ Unnoticed(i)
      /\ \A j \in Images \ {i} : written'[j] = written[j]
      /\ written'[i] \in {0, script}
  BY DEF Draw, OpenPage, TypeOK, FilesOK
<1>2. Elems(OpensFile(i)) = Elems(inotifyQ) \cup
        (IF i \in onDisk \/ ~dirWatched THEN {} ELSE {CreateEvent(i)})
  BY QueuedElems DEF OpensFile, TypeOK, QueuesOK
<1>3. \/ Elems(inotifyQ') = Elems(OpensFile(i))
      \/ Elems(inotifyQ') = Elems(OpensFile(i)) \cup {CloseWriteEvent(i, watchOf[i])}
  BY OpensFileType, QueuedElems DEF Draw, OpenPage
<1>4. watchOf[i] \in Nat
  BY DEF TypeOK, FilesOK
<1>5. /\ Created' = Created \cup (IF i \in onDisk \/ ~dirWatched THEN {} ELSE {i})
      /\ OfPending' = OfPending
  BY <1>1, <1>2, <1>3, <1>4, Kinds DEF Created, Seen, OfPending
<1>6. QuietInv' /\ CounterInv' /\ RowsInv'
  BY <1>1 DEF FatesInv, QuietInv, CounterInv, RowsInv, Excused, tables
<1>7. NoticedInv'
  BY <1>1, <1>5 DEF FatesInv, NoticedInv, Unnoticed
<1>8. OwnInv'
  <2>1. Current' = Current /\ script \in Current
    BY <1>1 DEF Current, Excused
  <2>2. Created' \cup OfPending' \subseteq Created \cup OfPending \cup {i}
    BY <1>5
  <2>3. written'[i] \in Current' \cup {0}
    BY <1>1, <2>1
  <2>4. ASSUME NEW j \in Created \cup OfPending, j # i
        PROVE  written'[j] \in Current' \cup {0}
    <3>1. j \in Images
      BY <2>4 DEF Created, OfPending, TypeOK, QueuesOK, PendingImage
    <3> QED BY <1>1, <2>1, <2>4, <3>1 DEF FatesInv, OwnInv
  <2> QED BY <2>2, <2>3, <2>4 DEF OwnInv
<1> QED BY <1>6, <1>7, <1>8 DEF FatesInv

\* A script removes an image, writes another file, or ends.
LEMMA OtherScriptFates ==
  ASSUME TypeOK, FatesInv, NEW i, NEW acked \in BOOLEAN, NEW copied \in BOOLEAN,
         RemoveImage(i) \/ TouchFile \/ EndScript(acked, copied)
  PROVE  FatesInv'
<1>1. /\ UNCHANGED <<written, input, batch, pending, toClean, tables, script, late>>
      /\ pc = "script" /\ batch = <<>>
      /\ \/ onDisk' = onDisk /\ unseen' = unseen
         \/ onDisk' = onDisk \ {i} /\ unseen' = unseen \ {i}
      /\ \/ UNCHANGED <<owed, pc, unacked>>
         \/ pc' = "idle" /\ owed' = script /\ unacked' = unacked
         \/ pc' = "idle" /\ owed' = 0 /\ unacked' = unacked \cup {script}
  <2>1. pc = "script" /\ batch = <<>>
    BY DEF RemoveImage, TouchFile, EndScript, FatesInv, QuietInv
  <2>2. CASE RemoveImage(i)
    BY <2>1, <2>2 DEF RemoveImage
  <2>3. CASE TouchFile
    BY <2>1, <2>3 DEF TouchFile, files, history
  <2>4. CASE EndScript(acked, copied)
    BY <2>1, <2>4 DEF EndScript, files
  <2> QED BY <2>2, <2>3, <2>4
<1>2. Elems(inotifyQ') = Elems(inotifyQ) \cup {Other} \/ inotifyQ' = inotifyQ
  BY QueueOther DEF RemoveImage, TouchFile, EndScript
<1>3. Created' = Created /\ OfPending' = OfPending
  BY <1>1, <1>2, Kinds DEF Created, Seen, OfPending
<1>4. QuietInv' /\ NoticedInv'
  BY <1>1, <1>3 DEF FatesInv, QuietInv, NoticedInv
<1>5. script \in 1 .. MaxScripts /\ script \in Nat /\ owed = 0
  BY <1>1, ConstantsAssumption DEF TypeOK, CountersOK, FatesInv, CounterInv
<1>6. OwnInv'
  <2>1. Current \subseteq Current' \cup {0}
    BY <1>1, <1>5 DEF Current, Excused
  <2> QED BY <1>1, <1>3, <2>1 DEF FatesInv, OwnInv
<1>7. CounterInv'
  <2>1. script' = script /\ unacked \subseteq 1 .. script /\ script \in 1 .. script
    BY <1>1, <1>5 DEF FatesInv, CounterInv
  <2>2. unacked' \subseteq 1 .. script
    BY <1>1, <2>1
  <2>3. owed' # 0 => owed' = script' /\ pc' # "script"
    BY <1>1, <1>5
  <2>4. late' \subseteq 0 .. script
    BY <1>1 DEF FatesInv, CounterInv
  <2> QED BY <2>1, <2>2, <2>3, <2>4 DEF CounterInv
<1>8. imageIds' = {}
  BY <1>1 DEF FatesInv, RowsInv, tables
<1>9. RowsInv'
  BY <1>8 DEF RowsInv
<1> QED BY <1>4, <1>6, <1>7, <1>9 DEF FatesInv

-----------------------------------------------------------------------------
(* Events are read and handled *)

\* What is dropped or cut is noticed; what is read, or left, is not lost.
LEMMA ReadFates ==
  ASSUME TypeOK, FatesInv, NEW ignored \in BOOLEAN, Reads(ignored),
         pc = "idle", pc' = IF ignored THEN "idle" ELSE "inotify",
         UNCHANGED <<files, pending, toClean, tables, owed, script, unacked>>
  PROVE  FatesInv'
<1>1. batch = <<>> /\ script \in 0 .. script
  BY ConstantsAssumption DEF FatesInv, QuietInv, TypeOK, CountersOK
<1>2. Seen' \subseteq Seen \cup {Other, Header, CutName}
  BY ReadsEvents DEF Seen
<1>3. Created' \subseteq Created /\ OfPending' = OfPending
  BY <1>2, SameCreated DEF OfPending
<1>4. onDisk \cap Created \subseteq unseen' \cup Created' /\ unseen \subseteq unseen'
  BY <1>1, EmptyElems, ReadsEvents DEF Created, Seen
<1>5. QuietInv'
  BY ReadsEvents DEF FatesInv, QuietInv
<1>6. CounterInv'
  BY <1>1, ReadsEvents DEF FatesInv, CounterInv
<1>7. Excused \subseteq Excused' /\ RowsInv'
  BY ReadsEvents DEF FatesInv, RowsInv, Excused, tables
<1>8. NoticedInv'
  BY <1>3, <1>4 DEF FatesInv, NoticedInv, files
<1>9. OwnInv'
  BY <1>3, <1>7 DEF FatesInv, OwnInv, Current, files
<1> QED BY <1>5, <1>6, <1>7, <1>8, <1>9 DEF FatesInv

LEMMA InotifyEndFates ==
  ASSUME TypeOK, FatesInv, EndInotify
  PROVE  FatesInv'
<1>1. Created' = Created /\ OfPending' = OfPending /\ pc = "inotify" /\ pc' = "idle" /\ batch' = <<>>
  BY DEF EndInotify, Created, Seen, OfPending
<1> QED
  BY <1>1 DEF EndInotify, FatesInv, QuietInv, NoticedInv, OwnInv, Current, Excused, CounterInv,
              RowsInv, files, tables, history

\* A misread name takes events out of the batch; the images are noticed.
LEMMA ParseFates ==
  ASSUME TypeOK, FatesInv, ParseCutName
  PROVE  FatesInv'
<1>1. /\ UNCHANGED <<onDisk, written, inotifyQ, input, pending, toClean, tables, owed, script,
                     pc, unacked, late>>
      /\ pc = "inotify"
  BY DEF ParseCutName
<1> PICK k \in 1 .. Len(batch) :
      /\ batch' = SubSeq(batch, k + 1, Len(batch))
      /\ unseen' = unseen \cup (onDisk \cap ImagesOf(SubSeq(batch, 1, k)))
  BY DEF ParseCutName
<1> DEFINE gone == SubSeq(batch, 1, k)
<1>2. Elems(batch) = Elems(gone) \cup Elems(batch')
  <2>1. batch \in Seq(Events) /\ k \in 0 .. Len(batch)
    BY DEF TypeOK, QueuesOK
  <2> QED BY <2>1, SplitElems
<1>3. ImagesOf(gone) = {i \in Images : CreateEvent(i) \in Elems(gone)}
  BY ImagesOfElems
<1> HIDE DEF gone
<1>4. Created' \subseteq Created /\ OfPending' = OfPending
  BY <1>1, <1>2 DEF Created, Seen, OfPending
<1>5. onDisk \cap Created \subseteq unseen' \cup Created' /\ unseen \subseteq unseen'
  BY <1>1, <1>2, <1>3 DEF Created, Seen, gone
<1>6. QuietInv' /\ CounterInv' /\ RowsInv'
  BY <1>1 DEF FatesInv, QuietInv, CounterInv, RowsInv, Excused, tables
<1>7. NoticedInv'
  BY <1>1, <1>4, <1>5 DEF FatesInv, NoticedInv
<1>8. OwnInv'
  BY <1>1, <1>4 DEF FatesInv, OwnInv, Current, Excused
<1> QED BY <1>6, <1>7, <1>8 DEF FatesInv

\* The event at the head of the batch is gone after it was handled.
LEMMA NextEventSeen ==
  ASSUME TypeOK, NEW kind, NextEvent(kind),
         Elems(inotifyQ') \subseteq Elems(inotifyQ) \cup {Other}
  PROVE  /\ Head(batch) \in Events /\ Head(batch) \in Seen /\ Head(batch).kind = kind
         /\ Created' \subseteq Created
         /\ (Elems(inotifyQ) \subseteq Elems(inotifyQ')) =>
              \A i \in Created : i \in Created' \/ CreateEvent(i) = Head(batch)
<1>1. /\ Head(batch).kind = kind /\ batch' = Tail(batch) /\ Head(batch) \in Events
      /\ Elems(batch) = {Head(batch)} \cup Elems(batch') /\ input' = input
  BY TailElems DEF NextEvent, TypeOK, QueuesOK
<1> QED BY <1>1, SameCreated DEF Created, Seen

\* A watch starts: the image is pending from here on.
LEMMA StartWatchFates ==
  ASSUME TypeOK, FatesInv, StartImageWatch
  PROVE  FatesInv'
<1> DEFINE i == Head(batch).img
           wd == IF watchOf[i] # 0 THEN watchOf[i] ELSE nextWd
<1>1. /\ NextEvent("create") /\ pc = "inotify" /\ pc' = "inotify"
      /\ UNCHANGED <<onDisk, written, inotifyQ, input, tables, unseen, unacked, late, owed, script>>
      /\ IF i \in onDisk THEN pending' = pending \cup {[wd |-> wd, img |-> i]}
                         ELSE pending' = pending
  BY DEF StartImageWatch, NextEvent
<1>2. /\ Head(batch) \in Events /\ Head(batch) \in Seen /\ Head(batch).kind = "create"
      /\ Created' \subseteq Created
      /\ \A j \in Created : j \in Created' \/ CreateEvent(j) = Head(batch)
  BY <1>1, NextEventSeen
<1>3. i \in Images /\ \A j \in Images : CreateEvent(j) = Head(batch) => j = i
  BY <1>2 DEF Events, CreateEvent, Other, Header, CutName
<1>4. i \in Created
  BY <1>2, <1>3 DEF Events, Created, CreateEvent, Other, Header, CutName
<1>5. OfPending' = OfPending \cup (IF i \in onDisk THEN {i} ELSE {})
  <2>1. \A w : [wd |-> w, img |-> i].img = i
    OBVIOUS
  <2> HIDE DEF i, wd
  <2> QED BY <1>1, <2>1 DEF OfPending
<1> HIDE DEF i, wd
<1>6. QuietInv' /\ CounterInv' /\ RowsInv'
  BY <1>1 DEF FatesInv, QuietInv, CounterInv, RowsInv, Excused, tables
<1>7. NoticedInv'
  BY <1>1, <1>2, <1>3, <1>5 DEF FatesInv, NoticedInv, Created
<1>8. OwnInv'
  BY <1>1, <1>2, <1>4, <1>5 DEF FatesInv, OwnInv, Current, Excused
<1> QED BY <1>6, <1>7, <1>8 DEF FatesInv

\* An image is inserted and removed, or found empty and given up.
LEMMA CollectFiles ==
  ASSUME TypeOK, NEW p \in pending, p.img \in onDisk,
         IF written[p.img] # 0 THEN Insert(p.img) ELSE SkipEmpty(p)
  PROVE  /\ Elems(inotifyQ') \subseteq Elems(inotifyQ) \cup {Other}
         /\ Elems(inotifyQ) \subseteq Elems(inotifyQ')
         /\ onDisk' \ unseen' = (onDisk \ unseen) \ {p.img}
         /\ p.img \in Images
<1>1. CASE written[p.img] # 0
  BY <1>1, QueueOther DEF Insert, TypeOK, FilesOK
<1>2. CASE written[p.img] = 0
  BY <1>2, QueueOther DEF SkipEmpty, TypeOK, FilesOK
<1> QED BY <1>1, <1>2

\* A row is that of the image, whose script is the current one or was not
\* acknowledged.
LEMMA CollectRows ==
  ASSUME TypeOK, FatesInv, NEW p \in pending, p.img \in onDisk, pc # "script",
         IF written[p.img] # 0 THEN Insert(p.img) ELSE SkipEmpty(p),
         UNCHANGED <<owed, pc, unacked, late>>
  PROVE  RowsInv'
<1>1. /\ p.img \in Images /\ written[p.img] \in Excused \cup {owed, 0}
      /\ Excused' = Excused
  BY DEF Excused, FatesInv, OwnInv, OfPending, Current, TypeOK, FilesOK
<1>2. CASE written[p.img] # 0
  <2>1. imageIds' = imageIds \cup {Len(sessionimage) + 1} /\ imageIds \subseteq 1 .. Len(sessionimage)
    BY <1>2 DEF Insert, TypeOK, TablesOK
  <2>2. /\ \A id \in 1 .. Len(sessionimage) : sessionimage'[id] = sessionimage[id]
        /\ sessionimage'[Len(sessionimage) + 1].by = written[p.img]
    BY <1>1, <1>2, InsertRows
  <2> QED BY <1>1, <1>2, <2>1, <2>2 DEF FatesInv, RowsInv
<1>3. CASE written[p.img] = 0
  BY <1>1, <1>3 DEF SkipEmpty, tables, FatesInv, RowsInv
<1> QED BY <1>2, <1>3

\* IN_CLOSE_WRITE of a pending image.
LEMMA InsertClosedFates ==
  ASSUME TypeOK, FatesInv, InsertClosedImage
  PROVE  FatesInv'
<1> PICK p \in pending :
      /\ NextEvent("closeWrite")
      /\ p.img \in onDisk
      /\ IF written[p.img] # 0 THEN Insert(p.img) ELSE SkipEmpty(p)
      /\ pending' = pending \ {p}
  BY DEF InsertClosedImage
<1>1. /\ UNCHANGED <<written, input, owed, script, pc, unacked, late>> /\ pc = "inotify"
  BY DEF NextEvent
<1>2. /\ Elems(inotifyQ') \subseteq Elems(inotifyQ) \cup {Other}
      /\ Elems(inotifyQ) \subseteq Elems(inotifyQ')
      /\ onDisk' \ unseen' = (onDisk \ unseen) \ {p.img}
  BY CollectFiles
<1>3. /\ Created' \subseteq Created
      /\ \A i \in Created : i \in Created' \/ CreateEvent(i) = Head(batch)
      /\ Head(batch).kind = "closeWrite"
  BY <1>2, NextEventSeen
<1>4. Created' = Created
  BY <1>3, Kinds DEF Created
<1>5. OfPending' \subseteq OfPending /\ OfPending \subseteq OfPending' \cup {p.img}
  BY DEF OfPending
<1>6. QuietInv' /\ CounterInv'
  BY <1>1 DEF FatesInv, QuietInv, CounterInv
<1>7. RowsInv'
  BY <1>1, CollectRows
<1>8. NoticedInv'
  BY <1>1, <1>2, <1>4, <1>5 DEF FatesInv, NoticedInv
<1>9. OwnInv'
  BY <1>1, <1>4, <1>5 DEF FatesInv, OwnInv, Current, Excused
<1> QED BY <1>6, <1>7, <1>8, <1>9 DEF FatesInv

\* Events that change no table.
LEMMA OtherEventFates ==
  ASSUME TypeOK, FatesInv,
         InsertClosedImageFails \/ CloseOfUnknown \/ SkipEvent \/ LoneHeader
  PROVE  FatesInv'
<1>1. /\ UNCHANGED <<onDisk, written, inotifyQ, input, pending, toClean, imageIds, sessionimage,
                     owed, script, pc, unacked, late, unseen>>
      /\ pc = "inotify"
      /\ NextEvent("closeWrite") \/ NextEvent("other") \/ NextEvent("header")
  BY DEF InsertClosedImageFails, CloseOfUnknown, SkipEvent, LoneHeader, NextEvent, tables
<1>2. Created' = Created
  BY <1>1, NextEventSeen, Kinds DEF Created
<1>3. OfPending' = OfPending
  BY <1>1 DEF OfPending
<1> QED
  BY <1>1, <1>2, <1>3
     DEF FatesInv, QuietInv, NoticedInv, OwnInv, Current, Excused, CounterInv, RowsInv

-----------------------------------------------------------------------------
(* The acknowledgement *)

LEMMA BeginAckFates ==
  ASSUME TypeOK, FatesInv, BeginAck
  PROVE  FatesInv'
<1>1. /\ UNCHANGED <<files, inotifyQ, input, batch, pending, tables, owed, script, history>>
      /\ pc = "idle" /\ pc' = "cleanup" /\ toClean' = pending /\ owed # 0
      /\ Elems(inotifyQ) \subseteq {Other} \/ script \in late
  BY DEF BeginAck, StartAck, OnlyOtherQueued, Elems
<1>2. Created' = Created /\ OfPending' = OfPending
  BY <1>1 DEF Created, Seen, OfPending
<1>3. batch = <<>>
  BY <1>1 DEF FatesInv, QuietInv
<1>4. QuietInv' /\ CounterInv' /\ RowsInv'
  BY <1>1, <1>3 DEF FatesInv, QuietInv, CounterInv, RowsInv, Excused, tables, history
<1>5. NoticedInv'
  BY <1>1, <1>2 DEF FatesInv, NoticedInv, OfPending, files, history
<1>6. OwnInv'
  BY <1>1, <1>2 DEF FatesInv, OwnInv, Current, Excused, files, history
<1> QED BY <1>4, <1>5, <1>6 DEF FatesInv

\* cleanupImageWatch collects one image.
LEMMA CleanupOneFates ==
  ASSUME TypeOK, FatesInv, NEW p \in toClean, CleanupOne(p)
  PROVE  FatesInv'
<1>1. /\ UNCHANGED <<written, input, batch, pending, owed, script, pc, unacked, late>>
      /\ pc = "cleanup" /\ toClean' = toClean \ {p} /\ p.img \in onDisk
      /\ IF written[p.img] # 0 THEN Insert(p.img) ELSE SkipEmpty(p)
      /\ p \in pending
  BY DEF CleanupOne, TypeOK, QueuesOK
<1>2. /\ Elems(inotifyQ') \subseteq Elems(inotifyQ) \cup {Other}
      /\ Elems(inotifyQ) \subseteq Elems(inotifyQ')
      /\ onDisk' \ unseen' = (onDisk \ unseen) \ {p.img}
  BY <1>1, CollectFiles
<1>3. Created' = Created /\ OfPending' = OfPending
  BY <1>1, <1>2, Kinds DEF Created, Seen, OfPending
<1>4. QuietInv' /\ CounterInv'
  BY <1>1, <1>2 DEF FatesInv, QuietInv, CounterInv
<1>5. RowsInv'
  BY <1>1, CollectRows
<1>6. NoticedInv'
  BY <1>1, <1>2, <1>3 DEF FatesInv, NoticedInv
<1>7. OwnInv'
  BY <1>1, <1>3 DEF FatesInv, OwnInv, Current, Excused
<1> QED BY <1>4, <1>5, <1>6, <1>7 DEF FatesInv

\* The report is sent and nothing is pending any more; what is still under way
\* belongs to a late script.
LEMMA EndAckFates ==
  ASSUME TypeOK, FatesInv, EndAck
  PROVE  FatesInv'
<1>1. /\ UNCHANGED <<files, inotifyQ, input, batch, toClean, tables, script, history>>
      /\ pc = "cleanup" /\ pc' = "idle" /\ toClean = {} /\ pending' = {} /\ owed' = 0
      /\ batch = <<>> /\ owed = script
      /\ Elems(inotifyQ) \subseteq {Other} \/ script \in late
  BY DEF EndAck, FatesInv, QuietInv, CounterInv, TypeOK, CountersOK
<1>2. Created' = Created /\ OfPending' = {}
  BY <1>1 DEF Created, Seen, OfPending
<1>3. Created = {} \/ script \in late
  BY <1>1, EmptyElems, Kinds DEF Created, Seen, FatesInv, QuietInv
<1>4. QuietInv' /\ CounterInv' /\ RowsInv' /\ NoticedInv'
  BY <1>1, <1>2 DEF FatesInv, QuietInv, NoticedInv, CounterInv, RowsInv, files, history
<1>5. OwnInv'
  BY <1>1, <1>2, <1>3 DEF FatesInv, OwnInv, Current, Excused, files, history
<1> QED BY <1>4, <1>5 DEF FatesInv

\* Steps that touch neither image files nor events about them, failures among
\* them.
LEMMA QuietFates ==
  ASSUME TypeOK, FatesInv,
         UNCHANGED <<onDisk, written, input, batch, pending, toClean, tables, owed, script, pc,
                     history>>,
         inotifyQ' \in {inotifyQ, Queued(inotifyQ, Other)}, inotifyQ' # inotifyQ => pc = "idle"
  PROVE  FatesInv'
<1>1. inotifyQ' = inotifyQ \/ Elems(inotifyQ') = Elems(inotifyQ) \cup {Other}
  BY QueueOther
<1>2. Created' = Created /\ OfPending' = OfPending
  BY <1>1, Kinds DEF Created, Seen, OfPending
<1> QED BY <1>2 DEF FatesInv, QuietInv, NoticedInv, OwnInv, Current, Excused, CounterInv, RowsInv,
                    tables, history

LEMMA StepFates == TypeOK /\ FatesInv /\ [Next]_vars => FatesInv'
<1> SUFFICES ASSUME TypeOK, FatesInv, [Next]_vars PROVE FatesInv'
  OBVIOUS
<1>1. CASE BeginScript \/ ClearFileChanges
  BY <1>1, ResetFates
<1>2. CASE ScriptStep
  <2>1. ASSUME NEW i \in Images, Draw(i) \/ OpenPage(i) PROVE FatesInv'
    BY <2>1, DrawFates
  <2>2. ASSUME NEW i \in Images, RemoveImage(i) PROVE FatesInv'
    BY <2>2, OtherScriptFates
  <2>3. CASE TouchFile \/ \E acked, copied \in BOOLEAN : EndScript(acked, copied)
    BY <2>3, OtherScriptFates
  <2> QED BY <1>2, <2>1, <2>2, <2>3 DEF ScriptStep
<1>3. CASE InotifyStep
  <2>1. CASE DropInotify
    BY <2>1, ReadFates DEF DropInotify
  <2>2. CASE ReadInotify
    BY <2>2, ReadFates DEF ReadInotify
  <2> QED
    BY <1>3, <2>1, <2>2, InotifyEndFates, ParseFates, StartWatchFates, InsertClosedFates,
       OtherEventFates DEF InotifyStep
<1>4. CASE AckStep
  <2>1. ASSUME NEW p \in toClean, CleanupThrows(p) PROVE FatesInv'
    BY <2>1, QuietFates DEF CleanupThrows, files
  <2> QED BY <1>4, <2>1, BeginAckFates, CleanupOneFates, EndAckFates DEF AckStep
<1>5. CASE IgnoreOff \/ HandleDBNotifications \/ AbortElsewhere \/ UNCHANGED vars
  BY <1>5, QuietFates DEF IgnoreOff, HandleDBNotifications, HandlesNotifications,
                          AbortElsewhere, vars, files
<1> QED BY <1>1, <1>2, <1>3, <1>4, <1>5 DEF Next

-----------------------------------------------------------------------------
(* Reports *)

LEMMA ExcusedGrow ==
  ASSUME TypeOK, [Next]_vars
  PROVE  unacked \subseteq unacked' /\ late \subseteq late'
<1> USE DEF history
<1>1. CASE BeginScript \/ ClearFileChanges
  BY <1>1 DEF BeginScript, StartScript, ClearFileChanges, ResetOnly
<1>2. CASE ScriptStep
  BY <1>2 DEF ScriptStep, Draw, OpenPage, RemoveImage, TouchFile, EndScript
<1>3. CASE InotifyStep
  <2>1. CASE DropInotify
    BY <2>1, ReadsEvents DEF DropInotify
  <2>2. CASE ReadInotify
    BY <2>2, ReadsEvents DEF ReadInotify
  <2> QED
    BY <1>3, <2>1, <2>2
       DEF InotifyStep, EndInotify, StartImageWatch, InsertClosedImage, InsertClosedImageFails,
           CloseOfUnknown, SkipEvent, LoneHeader, ParseCutName, NextEvent
<1>4. CASE AckStep
  BY <1>4 DEF AckStep, BeginAck, StartAck, CleanupOne, CleanupThrows, EndAck
<1>5. CASE IgnoreOff \/ HandleDBNotifications \/ AbortElsewhere \/ UNCHANGED vars
  BY <1>5 DEF IgnoreOff, HandleDBNotifications, HandlesNotifications, AbortElsewhere, vars
<1> QED BY <1>1, <1>2, <1>3, <1>4, <1>5 DEF Next

\* A row keeps its script; a new report names rows of its own.
LEMMA ReportStep ==
  ASSUME TypeOK, ReportsInv, FatesInv, ImageOfItsScript, [Next]_vars
  PROVE  ImageOfItsScript'
<1>1. unacked \cup late \subseteq unacked' \cup late'
  BY ExcusedGrow
<1>2. \A n \in 1 .. Len(reports) : reports[n].ids \subseteq 1 .. Len(sessionimage)
  BY DEF ReportsInv, ReportedBatch
<1>3. CASE UNCHANGED <<sessionimage, reports>>
  BY <1>1, <1>3 DEF ImageOfItsScript
<1>4. CASE \E i \in Images : Insert(i) /\ UNCHANGED reports
  <2>1. \A id \in 1 .. Len(sessionimage) : sessionimage'[id] = sessionimage[id]
    BY <1>4, InsertRows
  <2> QED BY <1>1, <1>2, <1>4, <2>1 DEF ImageOfItsScript
<1>5. CASE EndAck
  <2> DEFINE r == [script |-> owed, ids |-> imageIds, batch |-> sessionImageBatch]
  <2>1. /\ UNCHANGED <<sessionimage, unacked, late>> /\ reports' = Append(reports, r)
        /\ owed # 0 /\ owed \in Nat
    BY <1>5, ConstantsAssumption DEF EndAck, tables, history, TypeOK, CountersOK
  <2>2. r.script = owed /\ r.ids = imageIds
    OBVIOUS
  <2> HIDE DEF r
  <2>3. /\ Len(reports) \in Nat /\ Len(reports') = Len(reports) + 1
        /\ reports'[Len(reports) + 1] = r
        /\ \A n \in 1 .. Len(reports) : reports'[n] = reports[n]
    BY <2>1 DEF TypeOK, ReportsOK
  <2>4. \A id \in imageIds :
          \/ sessionimage[id].by = owed
          \/ sessionimage[id].by \in unacked \cup late /\ sessionimage[id].by < owed
    <3>1. unacked \cup late \subseteq 0 .. owed
      BY <2>1 DEF FatesInv, CounterInv
    <3>2. \A u \in unacked \cup late : u = owed \/ u < owed
      BY <2>1, <3>1
    <3> QED BY <2>1, <3>2 DEF FatesInv, RowsInv, Excused
  <2> SUFFICES ASSUME NEW n \in 1 .. Len(reports) + 1, NEW id \in reports'[n].ids
               PROVE  \/ sessionimage[id].by = reports'[n].script
                      \/ /\ sessionimage[id].by \in unacked \cup late
                         /\ sessionimage[id].by < reports'[n].script
    BY <2>1, <2>3 DEF ImageOfItsScript
  <2>5. CASE n = Len(reports) + 1
    BY <2>2, <2>3, <2>4, <2>5
  <2>6. CASE n \in 1 .. Len(reports)
    BY <2>3, <2>6 DEF ImageOfItsScript
  <2> QED BY <2>3, <2>5, <2>6
<1> QED BY <1>3, <1>4, <1>5, ImageSteps DEF ResetWatch, tables

-----------------------------------------------------------------------------
(* A session whose scripts were all acknowledged, whose reads were never full, *)
(* and whose database worked                                                   *)

\* The watched images, each with its descriptor.
Watched == {j \in Images : watchOf[j] # 0}
Entries == {[wd |-> watchOf[i], img |-> i] : i \in Watched}
Collecting == IF pc = "cleanup" THEN toClean ELSE pending

\* Exactly the files being collected are watched; outside of that no file is,
\* so no script makes an IN_CLOSE_WRITE.
Calm ==
  /\ alive
  /\ \A e \in Seen : e.kind \notin {"closeWrite", "header", "name"}
  /\ Collecting = Entries
  /\ Watched \subseteq onDisk
  /\ owed = 0 => pending = {} /\ (pc # "script" => Created = {})
CalmInv == (unacked = {} /\ late = {} /\ faults = 0) => Calm

\* Nobody is watched unless an entry says so.
LEMMA NoEntries ==
  /\ Entries = {} => Watched = {}
  /\ \A p \in Entries : p.img \in Watched /\ p.wd = watchOf[p.img]
                       /\ p = [wd |-> watchOf[p.img], img |-> p.img]
<1>1. ASSUME NEW j \in Watched PROVE Entries # {}
  <2>1. [wd |-> watchOf[j], img |-> j] \in Entries
    BY DEF Entries
  <2> QED BY <2>1
<1>2. ASSUME NEW p \in Entries
      PROVE  /\ p.img \in Watched /\ p.wd = watchOf[p.img]
             /\ p = [wd |-> watchOf[p.img], img |-> p.img]
  <2>1. PICK j \in Watched : p = [wd |-> watchOf[j], img |-> j]
    BY DEF Entries
  <2> QED BY <2>1
<1> QED BY <1>1, <1>2

\* An image that is collected loses its entry and its watch.
LEMMA CollectWatched ==
  ASSUME TypeOK, Watched \subseteq onDisk, NEW p \in Entries,
         IF written[p.img] # 0 THEN Insert(p.img) ELSE SkipEmpty(p)
  PROVE  /\ Entries' = Entries \ {p} /\ Watched' \subseteq onDisk'
         /\ Elems(inotifyQ') \subseteq Elems(inotifyQ) \cup {Other}
<1>1. p.img \in Watched /\ p.wd = watchOf[p.img] /\ p.img \in onDisk /\ p.img \in Images
      /\ p = [wd |-> watchOf[p.img], img |-> p.img]
  BY NoEntries DEF Watched
<1>2. /\ watchOf' = [watchOf EXCEPT ![p.img] = 0]
      /\ inotifyQ' = Queued(inotifyQ, Other)
      /\ onDisk \ {p.img} \subseteq onDisk'
  BY <1>1 DEF Insert, SkipEmpty
<1>3. watchOf \in [Images -> Nat]
  BY DEF TypeOK, FilesOK
<1>4. Watched' = Watched \ {p.img} /\ \A j \in Watched' : watchOf'[j] = watchOf[j]
  BY <1>1, <1>2, <1>3 DEF Watched
<1>5. Entries' = Entries \ {p}
  <2>1. ASSUME NEW o \in Entries' PROVE o \in Entries \ {p}
    BY <1>1, <1>4, <2>1 DEF Entries
  <2>2. ASSUME NEW o \in Entries \ {p} PROVE o \in Entries'
    <3>1. PICK j \in Watched : o = [wd |-> watchOf[j], img |-> j]
      BY DEF Entries
    <3>2. j # p.img
      BY <1>1, <3>1
    <3> QED BY <1>4, <3>1, <3>2 DEF Entries
  <2> QED BY <2>1, <2>2
<1> QED BY <1>2, <1>4, <1>5, QueueOther

\* A script creates and closes files, and none of them is watched.
LEMMA ScriptCalm ==
  ASSUME TypeOK, Calm, pc = "script", owed = 0, pc' \in {"script", "idle"}, toClean' = toClean,
         UNCHANGED <<pending, input, batch, alive>>,
         \A i \in Images : watchOf[i] = 0 => watchOf'[i] = 0,
         \A e \in Elems(inotifyQ') :
           e \in Seen \/ e.kind \notin {"closeWrite", "header", "name"},
         pc' = "idle" => owed' # 0
  PROVE  Calm'
<1>1. pending = {} /\ Entries = {} /\ Watched = {}
  BY NoEntries DEF Calm, Collecting
<1>2. Watched' = {} /\ Entries' = {}
  BY <1>1 DEF Watched, Entries
<1>3. Collecting' = {}
  BY <1>1 DEF Collecting
<1>4. pc' # "script" => owed' # 0
  OBVIOUS
<1> QED BY <1>1, <1>2, <1>3, <1>4 DEF Calm, Seen

\* Steps that leave files, entries and descriptors alone.
LEMMA QuietCalm ==
  ASSUME TypeOK, Calm, UNCHANGED <<onDisk, watchOf, pending, alive, owed>>,
         Collecting' = Collecting, Created' \subseteq Created,
         Seen' \subseteq Seen,
         owed = 0 => (pc # "script" \/ pc' = "script")
  PROVE  Calm'
<1>1. Watched' = Watched /\ Entries' = Entries
  BY DEF Watched, Entries
<1> QED BY <1>1 DEF Calm

LEMMA FaultsGrow == TypeOK /\ [Next]_vars => faults \in Nat /\ faults' >= faults
<1> SUFFICES ASSUME TypeOK, [Next]_vars PROVE faults \in Nat /\ faults' >= faults
  OBVIOUS
<1>1. faults \in Nat
  BY ConstantsAssumption DEF TypeOK, CountersOK
<1>2. CASE BeginScript \/ ClearFileChanges
  BY <1>1, <1>2 DEF BeginScript, StartScript, ClearFileChanges, ResetOnly
<1>3. CASE ScriptStep
  BY <1>1, <1>3 DEF ScriptStep, Draw, OpenPage, RemoveImage, TouchFile, EndScript
<1>4. CASE InotifyStep
  <2>1. CASE InsertClosedImageFails
    <3>1. faults' = faults \/ faults' = faults + 1
      BY <2>1 DEF InsertClosedImageFails
    <3> QED BY <1>1, <3>1
  <2>2. CASE ~InsertClosedImageFails
    <3>1. faults' = faults
      BY <1>4, <2>2
         DEF InotifyStep, DropInotify, ReadInotify, EndInotify, StartImageWatch,
             InsertClosedImage, CloseOfUnknown, SkipEvent, LoneHeader, ParseCutName
    <3> QED BY <1>1, <3>1
  <2> QED BY <2>1, <2>2
<1>5. CASE AckStep
  BY <1>1, <1>5 DEF AckStep, BeginAck, StartAck, CleanupOne, CleanupThrows, EndAck
<1>6. CASE IgnoreOff \/ HandleDBNotifications \/ AbortElsewhere \/ UNCHANGED vars
  BY <1>1, <1>6 DEF IgnoreOff, HandleDBNotifications, HandlesNotifications, AbortElsewhere, vars
<1> QED BY <1>1, <1>2, <1>3, <1>4, <1>5, <1>6 DEF Next

LEMMA ScriptStepCalm ==
  ASSUME TypeOK, FatesInv, Calm, unacked = {}, unacked' = {}, ScriptStep
  PROVE  Calm'
<1>1. pc = "script" /\ owed = 0 /\ script # 0
  <2>1. pc = "script"
    BY DEF ScriptStep, Draw, OpenPage, RemoveImage, TouchFile, EndScript
  <2> QED BY <2>1 DEF FatesInv, CounterInv, TypeOK, CountersOK
<1>2. Watched = {} /\ watchOf \in [Images -> Nat]
  BY <1>1, NoEntries DEF Calm, Collecting, TypeOK, FilesOK
<1>3. ASSUME NEW i \in Images, Draw(i) \/ OpenPage(i) PROVE Calm'
  <2>1. Elems(OpensFile(i)) \subseteq Elems(inotifyQ) \cup {CreateEvent(i)}
    BY QueuedElems DEF OpensFile, TypeOK, QueuesOK
  <2>2. inotifyQ' = OpensFile(i)
    BY <1>2, <1>3 DEF Draw, OpenPage, Watched
  <2>3. \A e \in Elems(inotifyQ') : e \in Seen \/ e.kind \notin {"closeWrite", "header", "name"}
    BY <2>1, <2>2, Kinds DEF Seen
  <2>4. /\ pc' = "script" /\ toClean' = toClean
        /\ UNCHANGED <<pending, input, batch, alive, watchOf>>
    BY <1>1, <1>3 DEF Draw, OpenPage
  <2> QED BY <1>1, <2>3, <2>4, ScriptCalm
<1>4. ASSUME NEW i \in Images, RemoveImage(i) PROVE Calm'
  <2>1. \A e \in Elems(inotifyQ') : e \in Seen \/ e.kind \notin {"closeWrite", "header", "name"}
    BY <1>4, QueueOther, Kinds DEF RemoveImage, Seen
  <2>2. /\ pc' = "script" /\ toClean' = toClean
        /\ UNCHANGED <<pending, input, batch, alive>>
        /\ \A j \in Images : watchOf[j] = 0 => watchOf'[j] = 0
    BY <1>1, <1>2, <1>4 DEF RemoveImage
  <2> QED BY <1>1, <2>1, <2>2, ScriptCalm
<1>5. ASSUME NEW acked \in BOOLEAN, NEW copied \in BOOLEAN,
             TouchFile \/ EndScript(acked, copied)
      PROVE  Calm'
  <2>1. \A e \in Elems(inotifyQ') : e \in Seen \/ e.kind \notin {"closeWrite", "header", "name"}
    BY <1>5, QueueOther, Kinds DEF TouchFile, EndScript, Seen
  <2>2. /\ pc' \in {"script", "idle"} /\ toClean' = toClean
        /\ UNCHANGED <<pending, input, batch, alive, watchOf>>
        /\ pc' = "idle" => owed' # 0
    BY <1>1, <1>5 DEF TouchFile, EndScript, files
  <2> QED BY <1>1, <2>1, <2>2, ScriptCalm
<1> QED BY <1>3, <1>4, <1>5 DEF ScriptStep

LEMMA InotifyStepCalm ==
  ASSUME TypeOK, FatesInv, Calm, late = {}, late' = {}, InotifyStep
  PROVE  Calm'
<1> USE DEF files, tables, history
<1>1. CASE DropInotify \/ ReadInotify \/ EndInotify
  <2>1. /\ UNCHANGED <<onDisk, watchOf, pending, alive, owed, toClean>>
        /\ pc \in {"idle", "inotify"} /\ pc' \in {"idle", "inotify"}
    BY <1>1 DEF DropInotify, ReadInotify, EndInotify
  <2>2. Seen' \subseteq Seen
    <3>1. ASSUME NEW ignored \in BOOLEAN, Reads(ignored) PROVE Seen' \subseteq Seen
      <4>1. input' = <<>>
        BY <3>1, ReadsEvents
      <4> QED BY <3>1, <4>1, ReadsEvents, EmptyElems DEF Seen
    <3> QED BY <1>1, <3>1 DEF DropInotify, ReadInotify, EndInotify, Seen
  <2>3. Created' \subseteq Created /\ Collecting' = Collecting
    BY <2>1, <2>2 DEF Created, Seen, Collecting
  <2> QED BY <2>1, <2>2, <2>3, QuietCalm
<1>2. ASSUME NEW kind, NextEvent(kind) PROVE kind \notin {"closeWrite", "header", "name"}
  <2>1. Head(batch) \in Seen
    BY <1>2, TailElems DEF NextEvent, Seen, TypeOK, QueuesOK
  <2> QED BY <1>2, <2>1 DEF NextEvent, Calm
<1>3. CASE InsertClosedImage \/ InsertClosedImageFails \/ CloseOfUnknown \/ LoneHeader
  BY <1>2, <1>3 DEF InsertClosedImage, InsertClosedImageFails, CloseOfUnknown, LoneHeader
<1>7. CASE ParseCutName
  <2>1. batch # <<>> /\ Head(batch).kind = "name" /\ Head(batch) \in Seen
    BY <1>7, TailElems DEF ParseCutName, Seen, TypeOK, QueuesOK
  <2> QED BY <2>1 DEF Calm
<1>4. ASSUME NEW kind, NextEvent(kind), UNCHANGED inotifyQ
      PROVE  /\ Seen' \subseteq Seen
             /\ Created' \subseteq Created
             /\ pc = "inotify" /\ pc' = "inotify" /\ UNCHANGED <<owed, toClean>>
  BY <1>4, TailElems, NextEventSeen DEF NextEvent, Seen, TypeOK, QueuesOK
<1>5. CASE SkipEvent
  <2>1. NextEvent("other") /\ UNCHANGED <<onDisk, watchOf, inotifyQ, pending, alive>>
    BY <1>5 DEF SkipEvent
  <2> QED BY <1>4, <2>1, QuietCalm DEF Collecting
<1>6. CASE StartImageWatch
  <2> DEFINE i == Head(batch).img
             wd == IF watchOf[i] # 0 THEN watchOf[i] ELSE nextWd
  <2>1. NextEvent("create") /\ UNCHANGED <<onDisk, inotifyQ, alive>>
    BY <1>6 DEF StartImageWatch
  <2>2. i \in Images /\ i \in Created
    BY <2>1, NextEventSeen DEF Created, Events, CreateEvent, Other, Header, CutName
  <2>3. CASE i \notin onDisk
    BY <1>4, <1>6, <2>1, <2>3, QuietCalm DEF StartImageWatch, Collecting
  <2>4. CASE i \in onDisk
    <3>1. /\ watchOf' = [watchOf EXCEPT ![i] = wd] /\ wd \in Nat \ {0}
          /\ pending' = pending \cup {[wd |-> wd, img |-> i]}
          /\ watchOf \in [Images -> Nat]
      BY <1>6, <2>2, <2>4 DEF StartImageWatch, TypeOK, FilesOK
    <3>2. watchOf[i] # 0 => wd = watchOf[i]
      OBVIOUS
    <3> HIDE DEF i, wd
    <3>3. /\ Watched' = Watched \cup {i} /\ watchOf'[i] = wd
          /\ \A j \in Watched : watchOf'[j] = watchOf[j]
      BY <2>2, <3>1, <3>2 DEF Watched
    <3>4. Entries' = Entries \cup {[wd |-> wd, img |-> i]}
      <4>1. \A o \in Entries' : o \in Entries \cup {[wd |-> wd, img |-> i]}
        BY <3>3 DEF Entries
      <4>2. \A o \in Entries \cup {[wd |-> wd, img |-> i]} : o \in Entries'
        BY <3>3 DEF Entries
      <4> QED BY <4>1, <4>2
    <3>5. Collecting' = Entries'
      BY <1>4, <2>1, <3>1, <3>4 DEF Calm, Collecting
    <3>6. owed # 0 /\ owed' = owed
      BY <1>4, <2>1, <2>2 DEF Calm
    <3> QED BY <1>4, <2>1, <2>4, <3>3, <3>5, <3>6 DEF Calm
  <2> QED BY <2>3, <2>4
<1> QED BY <1>1, <1>3, <1>5, <1>6, <1>7 DEF InotifyStep

LEMMA AckStepCalm ==
  ASSUME TypeOK, FatesInv, Calm, AckStep, late = {}, faults = 0, faults' = 0
  PROVE  Calm'
<1> USE DEF files, tables, history
<1>1. CASE BeginAck
  <2>1. /\ UNCHANGED <<onDisk, watchOf, pending, alive, owed, inotifyQ, input, batch>>
        /\ pc = "idle" /\ pc' = "cleanup" /\ toClean' = pending /\ owed # 0
    BY <1>1 DEF BeginAck, StartAck
  <2>2. Collecting' = Collecting /\ Created' = Created
    BY <2>1 DEF Collecting, Created, Seen
  <2> QED BY <2>1, <2>2, QuietCalm DEF Seen
<1>2. ASSUME NEW p \in toClean, CleanupOne(p) PROVE Calm'
  <2>1. /\ pc = "cleanup" /\ pc' = "cleanup" /\ toClean' = toClean \ {p}
        /\ UNCHANGED <<alive, input, batch, owed>>
        /\ IF written[p.img] # 0 THEN Insert(p.img) ELSE SkipEmpty(p)
    BY <1>2 DEF CleanupOne
  <2>2. p \in Entries /\ Collecting = Entries /\ owed # 0
    BY <2>1 DEF Calm, Collecting, TypeOK, CountersOK
  <2>3. /\ Entries' = Entries \ {p} /\ Watched' \subseteq onDisk'
        /\ Elems(inotifyQ') \subseteq Elems(inotifyQ) \cup {Other}
    BY <2>1, <2>2, CollectWatched DEF Calm
  <2> QED BY <2>1, <2>2, <2>3, Kinds DEF Calm, Collecting, Seen
<1>3. ASSUME NEW p \in toClean, CleanupThrows(p) PROVE FALSE
  <2>1. p \in Entries
    BY <1>3 DEF CleanupThrows, Calm, Collecting
  <2>2. p.img \in onDisk
    BY <2>1, NoEntries DEF Calm
  <2> QED BY <1>3, <2>2 DEF CleanupThrows
<1>4. CASE EndAck
  <2>1. /\ pc = "cleanup" /\ pc' = "idle" /\ toClean = {} /\ pending' = {}
        /\ UNCHANGED <<onDisk, watchOf, inotifyQ, input, batch, alive>>
    BY <1>4 DEF EndAck
  <2>2. Entries' = {} /\ Watched' = {}
    BY <2>1, NoEntries DEF Calm, Collecting, Entries, Watched
  <2>3. Seen' = Seen /\ Seen \subseteq {Other}
    BY <2>1, EmptyElems DEF Seen, FatesInv, QuietInv
  <2>4. Created' = {}
    BY <2>3, Kinds DEF Created
  <2> QED BY <2>1, <2>2, <2>3, <2>4 DEF Calm, Collecting
<1> QED BY <1>1, <1>2, <1>3, <1>4 DEF AckStep

LEMMA CalmStep ==
  ASSUME TypeOK, FatesInv, CalmInv, [Next]_vars
  PROVE  CalmInv'
<1> SUFFICES ASSUME unacked' = {}, late' = {}, faults' = 0 PROVE Calm'
  BY DEF CalmInv
<1>1. unacked = {} /\ late = {} /\ faults = 0 /\ Calm
  BY ExcusedGrow, FaultsGrow DEF CalmInv
<1>2. CASE ScriptStep \/ InotifyStep \/ AckStep
  BY <1>1, <1>2, ScriptStepCalm, InotifyStepCalm, AckStepCalm
<1>3. CASE AbortElsewhere
  BY <1>1, <1>3 DEF AbortElsewhere
<1>5. CASE HandleDBNotifications
  <2>1. /\ UNCHANGED <<onDisk, pending, alive, owed, input, batch, toClean>>
        /\ owed = 0 /\ pc = "idle" /\ pc' = "idle"
        /\ inotifyQ' \in {inotifyQ, Queued(inotifyQ, Other)}
        /\ \A i \in Images : watchOf[i] = 0 => watchOf'[i] = 0
    BY <1>5 DEF HandleDBNotifications, HandlesNotifications, TypeOK, FilesOK
  <2>2. pending = {} /\ Entries = {} /\ Watched = {} /\ Created = {}
    BY <1>1, <2>1, NoEntries DEF Calm, Collecting
  <2>3. Watched' = {} /\ Entries' = {} /\ Collecting' = {}
    BY <2>1, <2>2 DEF Watched, Entries, Collecting
  <2>4. Seen' \subseteq Seen \cup {Other}
    BY <2>1, QueueOther DEF Seen
  <2>5. Created' = {}
    BY <2>2, <2>4, SameCreated
  <2> QED BY <1>1, <2>1, <2>2, <2>3, <2>4, <2>5, Kinds DEF Calm
<1>4. CASE BeginScript \/ ClearFileChanges \/ IgnoreOff \/ UNCHANGED vars
  <2>1. /\ UNCHANGED <<onDisk, watchOf, pending, alive, owed, inotifyQ, input, batch, toClean>>
        /\ pc' = pc \/ (pc = "idle" /\ pc' = "script")
    BY <1>4 DEF BeginScript, StartScript, ClearFileChanges, ResetOnly, IgnoreOff,
                vars, files
  <2>2. Collecting' = Collecting /\ Created' = Created
    BY <2>1 DEF Collecting, Created, Seen
  <2> QED BY <1>1, <2>1, <2>2, QuietCalm DEF Seen
<1> QED BY <1>2, <1>3, <1>4, <1>5 DEF Next

-----------------------------------------------------------------------------
(* Theorems *)

LEMMA InitCalm == Init => CalmInv
<1> SUFFICES ASSUME Init PROVE Calm
  BY DEF CalmInv
<1>1. Seen = {} /\ Watched = {}
  BY EmptyElems DEF Init, Seen, Watched
<1>2. Entries = {} /\ Created = {}
  BY <1>1 DEF Entries, Created
<1> QED BY <1>1, <1>2 DEF Init, Calm, Collecting

LEMMA FatesHold == Spec => [](TypeOK /\ ReportsInv /\ FatesInv)
<1>1. Init => TypeOK /\ ReportsInv /\ FatesInv
  BY TypeOKInit, ReportsInvInit, InitFates
<1>2. TypeOK /\ ReportsInv /\ FatesInv /\ [Next]_vars => (TypeOK /\ ReportsInv /\ FatesInv)'
  BY TypeOKStep, ReportsInvStep, StepFates
<1> QED BY <1>1, <1>2, PTL DEF Spec

\* No finished image is lost except those the manager gave up on: its IN_CREATE
\* fell into the 5 ms in which events are ignored, was cut or skipped by a read, or
\* was never queued, or the file was empty when it was collected
\* (handleInotifyEvent, cleanupImageWatch).  Those left in the bufferevent wait.
THEOREM NothingElseLost == Spec => []LostOnlyIfUnseen
<1>1. FatesInv => LostOnlyIfUnseen
  <2> SUFFICES ASSUME FatesInv, pc = "idle", inotifyQ = <<>>
               PROVE  onDisk \subseteq unseen \cup ImagesOf(input) \cup OfPending
    BY DEF LostOnlyIfUnseen, OfPending
  <2>1. Created = ImagesOf(input)
    BY EmptyElems, ImagesOfElems DEF FatesInv, QuietInv, Created, Seen
  <2> QED BY <2>1 DEF FatesInv, NoticedInv
<1> QED BY <1>1, FatesHold, PTL

\* An execComplete names no image of a script that was acknowledged before it,
\* unless a read before or after that script was full (acknowledgeExecComplete,
\* resetWatch).
THEOREM ReportsOwnImages == Spec => []ImageOfItsScript
<1>1. Init => ImageOfItsScript
  BY DEF Init, ImageOfItsScript
<1>2. TypeOK /\ ReportsInv /\ FatesInv /\ ImageOfItsScript /\ [Next]_vars => ImageOfItsScript'
  BY ReportStep
<1> QED BY <1>1, <1>2, FatesHold, PTL DEF Spec

\* As long as every script is acknowledged, no read is full and the database
\* works, the null pointer of handleInotifyEvent and the exceptions of
\* cleanupImageWatch are out of reach, whatever scripts do with the files.
THEOREM SurvivesIfAcked == Spec => []SurvivesAckedScripts
<1>1. TypeOK /\ FatesInv /\ CalmInv /\ [Next]_vars => CalmInv'
  BY CalmStep
<1>2. CalmInv => SurvivesAckedScripts
  BY DEF CalmInv, Calm, SurvivesAckedScripts
<1> QED BY <1>1, <1>2, InitCalm, FatesHold, PTL DEF Spec
=============================================================================
